------------------------- MODULE UsageStore_proofs -------------------------
(***************************************************************************)
(* Every driver keeps the quota, for any number of callers, ids, limits,   *)
(* expiry times and any grace period no shorter than a call can last.  The *)
(* argument: a record carries all the uses ever written for its id, and it *)
(* disappears only when no token that could still be charged to it can be  *)
(* in flight (LagKept against EvictionSafe).                               *)
(***************************************************************************)
EXTENDS UsageStore, TLAPS

\* A running call is a Call; an idle goroutine has no other field to read.
LEMMA ActiveCall ==
  ASSUME TypeOK, NEW c \in Calls, Active(c)
  PROVE  call[c] \in Call
BY DEF TypeOK, Active, Idle

\* Moving one running call to another point keeps the invariant when nothing
\* else changes.
LEMMA MoveInv ==
  ASSUME StoreInv, NEW c \in Calls, Active(c),
         NEW pc \in Working \union Outcomes, Goto(c, pc),
         UNCHANGED <<driver, records, closed, clock, cleaner, granted, charged>>
  PROVE  StoreInv'
<1>1. call[c] \in Call
  BY ActiveCall DEF StoreInv
<1>2. call' \in [Calls -> Call \union {Idle}]
  BY <1>1 DEF Goto, StoreInv, TypeOK, Call
<1>3. TypeOK'
  BY <1>2 DEF StoreInv, TypeOK
<1>4. \A d \in Calls : Active(d)' =>
        /\ Active(d) /\ call'[d].since = call[d].since
        /\ call'[d].now = call[d].now /\ call'[d].id = call[d].id
  BY <1>1 DEF Goto, StoreInv, TypeOK, Call, Active
<1>5. LagKept'
  BY <1>4 DEF StoreInv, LagKept
<1>. QED
  BY <1>3, <1>5 DEF StoreInv, RecordsExact, EvictionSafe, Durable

\* Initially there is no record and no call.
LEMMA InitInv == Init => StoreInv
<1> SUFFICES ASSUME Init PROVE StoreInv
  OBVIOUS
<1>1. \E D \in SUBSET Ids : records \in [D -> Record]
  <2>1. records \in [{} -> Record] /\ {} \in SUBSET Ids
    BY DEF Init, NoRecords
  <2>. QED BY <2>1
<1>2. closed \in BOOLEAN
  BY DEF Init
<1>3. cleaner \in [running : BOOLEAN, before : Int]
  BY DEF Init, NoCleanup
<1>4. TypeOK
  BY <1>1, <1>2, <1>3 DEF Init, TypeOK
<1>5. LagKept
  BY DEF Init, LagKept, Active, Idle
<1>6. RecordsExact
  BY QuotaAssumption DEF Init, RecordsExact, NoRecords
<1>7. EvictionSafe
  BY DEF Init, EvictionSafe, NoCleanup, NoRecords
<1>. QED BY <1>4, <1>5, <1>6, <1>7 DEF StoreInv

\* What writing a use to the record of one id does to the invariant.
LEMMA SpendInv ==
  ASSUME StoreInv, NEW c \in Calls, Active(c), NEW pc \in Working \union Outcomes,
         NEW rec \in Record,
         LET id == call[c].id
         IN  /\ charged[id] < Limit[id]
             /\ id \in DOMAIN records \/ charged[id] = 0
             /\ rec.uses = charged[id] + 1
             /\ driver = "redis" => rec.ttlAt >= Expiry[id] + Grace
             /\ records' = Put(records, id, rec)
             /\ charged' = Increment(charged, id)
             /\ granted' = Increment(granted, id) \/ granted' = granted,
         Goto(c, pc), UNCHANGED <<driver, closed, clock, cleaner>>
  PROVE  StoreInv'
<1> DEFINE id == call[c].id
<1>1. call[c] \in Call /\ id \in Ids
  BY ActiveCall DEF StoreInv, Call
<1>2. call' \in [Calls -> Call \union {Idle}]
  BY <1>1 DEF Goto, StoreInv, TypeOK, Call
<1>3. \E D \in SUBSET Ids : records' \in [D -> Record]
  <2>1. PICK D \in SUBSET Ids : records \in [D -> Record]
    BY DEF StoreInv, TypeOK
  <2>2. D \union {id} \in SUBSET Ids /\ records' \in [D \union {id} -> Record]
    BY <2>1, <1>1 DEF Put
  <2>. QED BY <2>2
<1>4. granted' \in [Ids -> Nat] /\ charged' \in [Ids -> Nat]
  BY <1>1 DEF StoreInv, TypeOK, Increment
<1>5. TypeOK'
  BY <1>2, <1>3, <1>4 DEF StoreInv, TypeOK
<1>6. \A d \in Calls : Active(d)' =>
        /\ Active(d) /\ call'[d].since = call[d].since
        /\ call'[d].now = call[d].now /\ call'[d].id = call[d].id
  BY <1>1 DEF Goto, StoreInv, TypeOK, Call, Active
<1>7. LagKept'
  BY <1>6 DEF StoreInv, LagKept
<1>8. RecordsExact'
  <2> SUFFICES ASSUME NEW i \in Ids
               PROVE  /\ granted'[i] <= charged'[i]
                      /\ charged'[i] <= Limit[i]
                      /\ i \in DOMAIN records' => records'[i].uses = charged'[i]
                      /\ (i \notin DOMAIN records' /\ charged'[i] > 0)
                           => clock >= Expiry[i] + Grace \/ (closed /\ ~Durable)
    BY DEF RecordsExact, Durable
  <2>1. CASE i = id
    <3>1. charged'[id] = charged[id] + 1 /\ charged[id] \in Nat /\ granted[id] \in Nat
      BY <1>1 DEF StoreInv, TypeOK, Increment
    <3>2. granted'[id] = granted[id] + 1 \/ granted'[id] = granted[id]
      BY <1>1 DEF StoreInv, TypeOK, Increment
    <3>3. granted[id] <= charged[id] /\ Limit[id] \in Nat
      BY <1>1, QuotaAssumption DEF StoreInv, RecordsExact
    <3>4. id \in DOMAIN records' /\ records'[id] = rec
      BY DEF Put
    <3>. QED BY <2>1, <3>1, <3>2, <3>3, <3>4
  <2>2. CASE i # id
    BY <2>2, <1>1 DEF StoreInv, TypeOK, RecordsExact, Put, Increment, Durable
  <2>. QED BY <2>1, <2>2
<1>9. EvictionSafe'
  BY <1>1 DEF StoreInv, EvictionSafe, Put
<1>. QED BY <1>5, <1>7, <1>8, <1>9 DEF StoreInv

\* While a call is running its id has a record, or nothing was ever charged
\* to it, unless the memory store was closed.
LEMMA RecordWhileActive ==
  ASSUME StoreInv, NEW c \in Calls, Active(c), Durable \/ ~closed
  PROVE  /\ call[c].id \in Ids
         /\ call[c].id \in DOMAIN records \/ charged[call[c].id] = 0
         /\ usesOf(call[c].id) = charged[call[c].id]
         /\ clock < Expiry[call[c].id] + MaxLag
<1>1. call[c] \in Call
  BY ActiveCall DEF StoreInv
<1>2. clock < Expiry[call[c].id] + MaxLag /\ MaxLag <= Grace
  BY <1>1, LagAssumption, QuotaAssumption DEF StoreInv, LagKept, TypeOK, Call
<1>3. charged[call[c].id] \in Nat /\ Expiry[call[c].id] \in Nat /\ clock \in Nat
  BY <1>1, QuotaAssumption DEF StoreInv, TypeOK, Call
<1>4. call[c].id \in DOMAIN records \/ charged[call[c].id] = 0
  BY <1>1, <1>2, <1>3, LagAssumption DEF StoreInv, RecordsExact, Call
<1>. QED
  BY <1>1, <1>2, <1>4 DEF StoreInv, RecordsExact, usesOf, Call

\* The use a driver writes next is the right one.
LEMMA SpentRecordOK ==
  ASSUME StoreInv, NEW c \in Calls, AtBackend(c), Spendable(c)
  PROVE  /\ Active(c)
         /\ spentRecord(c) \in Record
         /\ charged[call[c].id] < Limit[call[c].id]
         /\ call[c].id \in DOMAIN records \/ charged[call[c].id] = 0
         /\ spentRecord(c).uses = charged[call[c].id] + 1
         /\ driver = "redis" => spentRecord(c).ttlAt >= Expiry[call[c].id] + Grace
<1> DEFINE id == call[c].id
<1>1. Active(c)
  BY DEF AtBackend, Active
<1>2. /\ id \in Ids /\ usesOf(id) = charged[id]
      /\ id \in DOMAIN records \/ charged[id] = 0
  BY <1>1, RecordWhileActive DEF AtBackend
<1>3. call[c] \in Call
  BY <1>1, ActiveCall DEF StoreInv
<1>4. charged[id] < Limit[id]
  BY <1>2 DEF Spendable
<1>5. ttlOf(c) \in Nat /\ (driver = "redis" => ttlOf(c) >= Expiry[id] + Grace)
  <2>1. /\ Expiry[id] \in Nat /\ call[c].now \in Nat /\ clock \in Nat /\ Grace \in Nat
        /\ call[c].now <= clock
    BY <1>1, <1>3, LagAssumption, QuotaAssumption DEF StoreInv, LagKept, TypeOK, Call
  <2>. QED BY <2>1 DEF ttlOf
<1>6. /\ spentRecord(c) \in Record
      /\ spentRecord(c).uses = charged[id] + 1
      /\ driver = "redis" => spentRecord(c).ttlAt >= Expiry[id] + Grace
  <2>1. CASE usesOf(id) = 0
    BY <2>1, <1>2, <1>3, <1>5 DEF spentRecord, Record, Call
  <2>2. CASE usesOf(id) # 0
    <3>1. id \in DOMAIN records /\ records[id] \in Record
      BY <2>2 DEF usesOf, StoreInv, TypeOK
    <3>2. spentRecord(c) = [records[id] EXCEPT !.uses = @ + 1]
      BY <2>2 DEF spentRecord
    <3>3. records[id].uses = charged[id]
      BY <3>1, <1>2 DEF usesOf
    <3>. QED
      BY <3>1, <3>2, <3>3 DEF Record, StoreInv, EvictionSafe
  <2>. QED BY <2>1, <2>2
<1>. QED BY <1>1, <1>2, <1>4, <1>6

\* Every step keeps the invariant.
LEMMA StepInv == StoreInv /\ [Next]_storeVars => StoreInv'
<1> SUFFICES ASSUME StoreInv, [Next]_storeVars PROVE StoreInv'
  OBVIOUS
<1>1. ASSUME NEW c \in Calls, NEW id \in Ids, NEW ip \in IPs, Validate(c, id, ip)
      PROVE  StoreInv'
  <2>1. call'[c] \in Call /\ call' \in [Calls -> Call \union {Idle}]
    BY <1>1 DEF Validate, StoreInv, TypeOK, Call, Working
  <2>2. TypeOK'
    BY <1>1, <2>1 DEF Validate, StoreInv, TypeOK
  <2>3. LagKept'
    BY <1>1, LagAssumption DEF Validate, StoreInv, TypeOK, LagKept, Active
  <2>. QED
    BY <1>1, <2>2, <2>3 DEF Validate, StoreInv, RecordsExact, EvictionSafe, Durable
<1>2. ASSUME NEW c \in Calls, NEW fresh \in BOOLEAN, NEW skip \in BOOLEAN,
             CallConsume(c, fresh, skip)
      PROVE  StoreInv'
  <2>1. Active(c) /\ call[c] \in Call
    BY <1>2, ActiveCall DEF CallConsume, StoreInv, Active
  <2>2. /\ call'[c] = [call[c] EXCEPT !.pc = "check", !.op = "Consume",
                                      !.now = IF fresh THEN clock ELSE call[c].now,
                                      !.skip = skip]
        /\ \A d \in Calls \ {c} : call'[d] = call[d]
        /\ DOMAIN call' = Calls
        /\ UNCHANGED <<driver, records, closed, clock, cleaner, granted, charged>>
    BY <1>2, <2>1 DEF CallConsume, StoreInv, TypeOK
  <2>3. /\ call'[c] \in Call
        /\ call'[c].since = call[c].since /\ call'[c].id = call[c].id
        /\ call'[c].now \in {clock, call[c].now}
    BY <2>1, <2>2 DEF Call, Working, StoreInv, TypeOK
  <2>4. call' \in [Calls -> Call \union {Idle}]
    BY <1>2, <2>1, <2>3 DEF CallConsume, StoreInv, TypeOK
  <2>5. TypeOK'
    BY <2>2, <2>4 DEF StoreInv, TypeOK
  <2>6. LagKept'
    <3> SUFFICES ASSUME NEW d \in Calls, Active(d)'
                 PROVE  /\ call'[d].since < Expiry[call'[d].id]
                        /\ call'[d].since <= call'[d].now
                        /\ call'[d].now <= clock
                        /\ clock <= call'[d].since + MaxLag
      BY <2>2 DEF LagKept
    <3>1. CASE d = c
      <4>1. /\ call[c].since < Expiry[call[c].id] /\ call[c].since <= call[c].now
            /\ call[c].now <= clock /\ clock <= call[c].since + MaxLag
        BY <2>1 DEF StoreInv, LagKept
      <4>2. call[c].since \in Nat /\ call[c].now \in Nat /\ clock \in Nat
        BY <2>1 DEF StoreInv, TypeOK, Call
      <4>. QED BY <3>1, <4>1, <4>2, <2>3
    <3>2. CASE d # c
      BY <3>2, <2>2 DEF StoreInv, LagKept, Active
    <3>. QED BY <3>1, <3>2
  <2>. QED
    BY <2>2, <2>5, <2>6 DEF StoreInv, RecordsExact, EvictionSafe, Durable
<1>3. ASSUME NEW c \in Calls,
             \/ CallGet(c) \/ ConsumeCheck(c) \/ GetCheck(c) \/ MemoryPanic(c)
             \/ BackendFull(c) \/ BackendSkip(c) \/ BackendError(c) \/ GetBody(c)
      PROVE  StoreInv'
  <2>1. Active(c) /\ UNCHANGED <<driver, records, closed, clock, cleaner, granted, charged>>
    BY <1>3 DEF CallGet, ConsumeCheck, GetCheck, MemoryPanic, BackendFull, BackendSkip,
                BackendError, GetBody, AtBackend, Active
  <2>2. PICK pc \in Working \union Outcomes : Goto(c, pc)
    BY <1>3 DEF CallGet, ConsumeCheck, GetCheck, MemoryPanic, BackendFull, BackendSkip,
                BackendError, GetBody, getOutcome, Working, Outcomes
  <2>. QED BY <2>1, <2>2, MoveInv
<1>4. ASSUME NEW c \in Calls, Return(c)
      PROVE  StoreInv'
  <2>1. call' = [call EXCEPT ![c] = Idle]
        /\ UNCHANGED <<driver, records, closed, clock, cleaner, granted, charged>>
    BY <1>4 DEF Return
  <2>2. TypeOK'
    BY <2>1 DEF StoreInv, TypeOK
  <2>3. LagKept'
    BY <2>1 DEF StoreInv, TypeOK, LagKept, Active, Idle
  <2>. QED BY <2>1, <2>2, <2>3 DEF StoreInv, RecordsExact, EvictionSafe, Durable
<1>5. ASSUME NEW c \in Calls, MemoryConsume(c)
      PROVE  StoreInv'
  <2> DEFINE id  == call[c].id
             rec == memoryRecord(c)
             new == [rec EXCEPT !.uses = @ + 1]
  <2>1. Active(c) /\ ~closed /\ driver = "memory"
    BY <1>5 DEF MemoryConsume, Active
  <2>2. /\ id \in Ids /\ usesOf(id) = charged[id]
        /\ id \in DOMAIN records \/ charged[id] = 0
    BY <2>1, RecordWhileActive
  <2>3. rec \in Record /\ rec.uses = charged[id]
    BY <2>1, <2>2, ActiveCall DEF memoryRecord, usesOf, Record, StoreInv, TypeOK, Call
  <2>4. CASE rec.uses < Limit[id] /\ ~call[c].skip
    <3>1. /\ records' = Put(records, id, new)
          /\ granted' = Increment(granted, id) /\ charged' = Increment(charged, id)
          /\ Goto(c, "allowed") /\ UNCHANGED <<driver, closed, clock, cleaner>>
      BY <1>5, <2>3, <2>4 DEF MemoryConsume, Record
    <3>2. new \in Record /\ new.uses = charged[id] + 1
      BY <2>3 DEF Record
    <3>3. "allowed" \in Working \union Outcomes
      BY DEF Outcomes
    <3> HIDE DEF new
    <3>. QED
      BY <2>1, <2>2, <2>3, <2>4, <3>1, <3>2, <3>3, SpendInv
  <2>5. CASE ~(rec.uses < Limit[id] /\ ~call[c].skip)
    <3>1. /\ records' = Put(records, id, rec)
          /\ UNCHANGED <<driver, closed, clock, cleaner, granted, charged>>
      BY <1>5, <2>3, <2>5 DEF MemoryConsume, Record
    <3>2. PICK pc \in Working \union Outcomes : Goto(c, pc)
      BY <1>5 DEF MemoryConsume, Outcomes
    <3> HIDE DEF rec
    <3>3. \E D \in SUBSET Ids : records' \in [D -> Record]
      <4>1. PICK D \in SUBSET Ids : records \in [D -> Record]
        BY DEF StoreInv, TypeOK
      <4>2. D \union {id} \in SUBSET Ids /\ records' \in [D \union {id} -> Record]
        BY <4>1, <2>2, <2>3, <3>1 DEF Put
      <4>. QED BY <4>2
    <3>4. call[c] \in Call
      BY <2>1, ActiveCall DEF StoreInv
    <3>5. call' \in [Calls -> Call \union {Idle}]
      BY <3>2, <3>4 DEF Goto, StoreInv, TypeOK, Call
    <3>6. TypeOK'
      BY <3>1, <3>3, <3>5 DEF StoreInv, TypeOK
    <3>7. \A d \in Calls : Active(d)' =>
            /\ Active(d) /\ call'[d].since = call[d].since
            /\ call'[d].now = call[d].now /\ call'[d].id = call[d].id
      BY <3>2, <3>4, <2>1 DEF Goto, StoreInv, TypeOK, Call, Active
    <3>8. LagKept'
      BY <3>1, <3>7 DEF StoreInv, LagKept
    <3>9. RecordsExact'
      BY <3>1, <2>2, <2>3 DEF StoreInv, RecordsExact, Put, Durable
    <3>10. EvictionSafe'
      BY <3>1, <2>1 DEF StoreInv, EvictionSafe
    <3>. QED BY <3>6, <3>8, <3>9, <3>10 DEF StoreInv
  <2>. QED BY <2>4, <2>5
<1>6. ASSUME NEW c \in Calls, BackendSpend(c) \/ BackendLostReply(c)
      PROVE  StoreInv'
  <2> DEFINE rec == spentRecord(c)
  <2>1. /\ AtBackend(c) /\ Spendable(c)
        /\ records' = Put(records, call[c].id, rec)
        /\ charged' = Increment(charged, call[c].id)
        /\ granted' = Increment(granted, call[c].id) \/ granted' = granted
        /\ UNCHANGED <<driver, closed, clock, cleaner>>
    BY <1>6 DEF BackendSpend, BackendLostReply
  <2>2. PICK pc \in Working \union Outcomes : Goto(c, pc)
    BY <1>6 DEF BackendSpend, BackendLostReply, Working, Outcomes
  <2>3. /\ Active(c) /\ rec \in Record
        /\ charged[call[c].id] < Limit[call[c].id]
        /\ call[c].id \in DOMAIN records \/ charged[call[c].id] = 0
        /\ rec.uses = charged[call[c].id] + 1
        /\ driver = "redis" => rec.ttlAt >= Expiry[call[c].id] + Grace
    BY <2>1, SpentRecordOK
  <2> HIDE DEF rec
  <2>. QED BY <2>1, <2>2, <2>3, SpendInv
<1>7. CASE CleanupStart
  <2>1. cleaner' \in [running : BOOLEAN, before : Int] /\ cleaner'.before <= clock - Grace
    BY <1>7, LagAssumption DEF CleanupStart, StoreInv, TypeOK
  <2>2. UNCHANGED <<driver, records, closed, clock, call, granted, charged>>
    BY <1>7 DEF CleanupStart
  <2>. QED
    BY <2>1, <2>2 DEF StoreInv, TypeOK, LagKept, Active, RecordsExact, EvictionSafe, Durable
<1>8. CASE CleanupExpired
  <2> DEFINE kept == {i \in DOMAIN records : Expiry[i] >= cleaner.before}
  <2>1. /\ records' = [id \in kept |-> records[id]] /\ cleaner.running
        /\ cleaner' = NoCleanup
        /\ UNCHANGED <<driver, closed, clock, call, granted, charged>>
    BY <1>8 DEF CleanupExpired
  <2>2. \E D \in SUBSET Ids : records' \in [D -> Record]
    <3>1. kept \in SUBSET Ids /\ records' \in [kept -> Record]
      BY <2>1 DEF StoreInv, TypeOK
    <3>. QED BY <3>1
  <2>3. cleaner' \in [running : BOOLEAN, before : Int] /\ ~cleaner'.running
    BY <2>1 DEF NoCleanup
  <2>4. TypeOK'
    BY <2>1, <2>2, <2>3 DEF StoreInv, TypeOK
  <2>5. ASSUME NEW id \in Ids, id \notin DOMAIN records', id \in DOMAIN records
        PROVE  clock >= Expiry[id] + Grace
    <3>1. Expiry[id] < cleaner.before
      BY <2>1, <2>5, QuotaAssumption DEF StoreInv, TypeOK
    <3>. QED
      BY <2>1, <3>1, LagAssumption, QuotaAssumption DEF StoreInv, EvictionSafe, TypeOK
  <2>6. RecordsExact'
    BY <2>1, <2>5 DEF StoreInv, RecordsExact, Durable
  <2>7. LagKept'
    BY <2>1 DEF StoreInv, LagKept, Active
  <2>8. EvictionSafe'
    BY <2>1, <2>3 DEF StoreInv, EvictionSafe
  <2>. QED BY <2>4, <2>6, <2>7, <2>8 DEF StoreInv
<1>9. ASSUME NEW id \in Ids, RedisEvict(id)
      PROVE  StoreInv'
  <2>1. /\ records' = [i \in DOMAIN records \ {id} |-> records[i]]
        /\ driver = "redis" /\ id \in DOMAIN records /\ records[id].ttlAt <= clock
        /\ UNCHANGED <<driver, closed, clock, call, cleaner, granted, charged>>
    BY <1>9 DEF RedisEvict
  <2>2. \E D \in SUBSET Ids : records' \in [D -> Record]
    <3>1. PICK D \in SUBSET Ids : records \in [D -> Record]
      BY DEF StoreInv, TypeOK
    <3>2. D \ {id} \in SUBSET Ids /\ records' \in [D \ {id} -> Record]
      BY <3>1, <2>1
    <3>. QED BY <3>2
  <2>3. TypeOK'
    BY <2>1, <2>2 DEF StoreInv, TypeOK
  <2>4. clock >= Expiry[id] + Grace
    <3>1. records[id].ttlAt \in Nat /\ records[id].ttlAt >= Expiry[id] + Grace
      BY <2>1 DEF StoreInv, TypeOK, EvictionSafe, Record
    <3>. QED BY <3>1, <2>1, LagAssumption, QuotaAssumption DEF StoreInv, TypeOK
  <2>5. RecordsExact'
    BY <2>1, <2>4 DEF StoreInv, RecordsExact, Durable
  <2>6. LagKept' /\ EvictionSafe'
    BY <2>1 DEF StoreInv, LagKept, Active, EvictionSafe
  <2>. QED BY <2>3, <2>5, <2>6 DEF StoreInv
<1>10. CASE Close
  <2>1. \E D \in SUBSET Ids : records' \in [D -> Record]
    <3>1. NoRecords \in [{} -> Record] /\ {} \in SUBSET Ids
      BY DEF NoRecords
    <3>2. records' = records \/ records' = NoRecords
      BY <1>10 DEF Close
    <3>. QED BY <3>1, <3>2 DEF StoreInv, TypeOK
  <2>2. TypeOK'
    BY <1>10, <2>1 DEF Close, StoreInv, TypeOK
  <2>3. RecordsExact' /\ LagKept' /\ EvictionSafe'
    BY <1>10 DEF Close, StoreInv, RecordsExact, LagKept, EvictionSafe, Active, Durable, NoRecords
  <2>. QED BY <2>2, <2>3 DEF StoreInv
<1>11. CASE Restart
  <2>1. \E D \in SUBSET Ids : records' \in [D -> Record]
    <3>1. NoRecords \in [{} -> Record] /\ {} \in SUBSET Ids
      BY DEF NoRecords
    <3>2. records' = records \/ records' = NoRecords
      BY <1>11 DEF Restart
    <3>. QED BY <3>1, <3>2 DEF StoreInv, TypeOK
  <2>2. cleaner' \in [running : BOOLEAN, before : Int] /\ ~cleaner'.running
    BY <1>11 DEF Restart, NoCleanup
  <2>3. TypeOK'
    BY <1>11, <2>1, <2>2 DEF Restart, StoreInv, TypeOK
  <2>4. LagKept'
    BY <1>11 DEF Restart, LagKept, Active, Idle
  <2>5. RecordsExact'
    <3>1. CASE Durable
      BY <1>11, <3>1 DEF Restart, StoreInv, RecordsExact, Durable
    <3>2. CASE ~Durable
      BY <1>11, <3>2, QuotaAssumption DEF Restart, RecordsExact, NoRecords
    <3>. QED BY <3>1, <3>2
  <2>6. EvictionSafe'
    BY <1>11, <2>2 DEF Restart, StoreInv, EvictionSafe, NoRecords
  <2>. QED BY <2>3, <2>4, <2>5, <2>6 DEF StoreInv
<1>12. CASE Tick
  <2>1. TypeOK'
    BY <1>12 DEF Tick, StoreInv, TypeOK
  <2>2. LagKept'
    <3> SUFFICES ASSUME NEW c \in Calls, Active(c)
                 PROVE  /\ call[c].since < Expiry[call[c].id]
                        /\ call[c].since <= call[c].now
                        /\ call[c].now <= clock + 1
                        /\ clock + 1 <= call[c].since + MaxLag
      BY <1>12 DEF Tick, LagKept, Active
    <3>1. call[c] \in Call
      BY ActiveCall DEF StoreInv
    <3>. QED
      BY <1>12, <3>1, LagAssumption DEF Tick, StoreInv, LagKept, Active, TypeOK, Call
  <2>3. RecordsExact'
    BY <1>12, LagAssumption, QuotaAssumption DEF Tick, StoreInv, RecordsExact, TypeOK, Durable
  <2>4. EvictionSafe'
    BY <1>12, LagAssumption DEF Tick, StoreInv, EvictionSafe, TypeOK
  <2>. QED BY <2>1, <2>2, <2>3, <2>4 DEF StoreInv
<1>13. CASE UNCHANGED storeVars
  BY <1>13 DEF storeVars, StoreInv, TypeOK, LagKept, Active, RecordsExact, EvictionSafe, Durable
<1>. QED
  BY <1>1, <1>2, <1>3, <1>4, <1>5, <1>6, <1>7, <1>8, <1>9, <1>10, <1>11, <1>12, <1>13
     DEF Next, Caller, Serve

\* The inductive invariant, with type correctness, holds always.
THEOREM StoreCorrect == Spec => []StoreInv
BY InitInv, StepInv, PTL DEF Spec

\* No step changes the driver.
LEMMA DriverFixed == [Next]_storeVars => (driver' = driver /\ Durable' = Durable)
<1>1. [Next]_storeVars => driver' = driver
  BY DEF Next, Caller, Serve, Validate, CallConsume, CallGet, Return, ConsumeCheck, GetCheck,
         MemoryPanic, MemoryConsume, BackendSpend, BackendLostReply, BackendFull, BackendSkip,
         BackendError, GetBody, CleanupStart, CleanupExpired, RedisEvict, Close, Restart, Tick,
         storeVars
<1>. QED BY <1>1 DEF Durable

\* Every driver implements the abstract quota.
THEOREM QuotaImplemented == Spec => QuotaRefined
<1>1. Init => Quota!Init
  <2>1. Durable \in BOOLEAN
    BY DEF Durable
  <2>. QED BY <2>1 DEF Init, Quota!Init
<1>2. StoreInv /\ [Next]_storeVars => [Quota!Next]_(Quota!quotaVars)
  <2> SUFFICES ASSUME StoreInv, [Next]_storeVars, ~UNCHANGED <<granted, clock>>
               PROVE  Quota!Next
    BY DriverFixed DEF Quota!quotaVars
  <2>1. ASSUME NEW c \in Calls, MemoryConsume(c)
        PROVE  Quota!Next
    <3>1. /\ Active(c) /\ ~closed /\ call[c].id \in Ids
          /\ granted' = Increment(granted, call[c].id)
          /\ memoryRecord(c).uses < Limit[call[c].id]
          /\ UNCHANGED clock
      BY <2>1, ActiveCall DEF MemoryConsume, Active, StoreInv, Call
    <3>2. /\ usesOf(call[c].id) = charged[call[c].id]
          /\ clock < Expiry[call[c].id] + MaxLag
      BY <3>1, RecordWhileActive
    <3>3. granted[call[c].id] < Limit[call[c].id]
      <4>1. memoryRecord(c).uses = usesOf(call[c].id)
        BY DEF memoryRecord, usesOf
      <4>. QED
        BY <3>1, <3>2, <4>1, QuotaAssumption DEF StoreInv, TypeOK, RecordsExact
    <3>. QED
      BY <3>1, <3>2, <3>3, DriverFixed DEF Quota!Next, Quota!Grant, Increment
  <2>2. ASSUME NEW c \in Calls, BackendSpend(c)
        PROVE  Quota!Next
    <3>1. /\ AtBackend(c) /\ Spendable(c)
          /\ granted' = Increment(granted, call[c].id)
          /\ UNCHANGED clock
      BY <2>2 DEF BackendSpend
    <3>2. Active(c) /\ call[c].id \in Ids /\ charged[call[c].id] < Limit[call[c].id]
      BY <3>1, SpentRecordOK, ActiveCall DEF StoreInv, Call
    <3>3. clock < Expiry[call[c].id] + MaxLag
      BY <3>1, <3>2, RecordWhileActive DEF AtBackend
    <3>4. granted[call[c].id] < Limit[call[c].id]
      BY <3>2, QuotaAssumption DEF StoreInv, TypeOK, RecordsExact
    <3>. QED
      BY <3>1, <3>2, <3>3, <3>4, DriverFixed DEF Quota!Next, Quota!Grant, Increment
  <2>3. CASE Restart
    BY <2>3, DriverFixed DEF Restart, Quota!Next, Quota!Forget
  <2>4. CASE Tick
    BY <2>4, DriverFixed DEF Tick, Quota!Next, Quota!Tick
  <2>5. ASSUME NEW c \in Calls,
               \/ \E id \in Ids, ip \in IPs : Validate(c, id, ip)
               \/ \E fresh, skip \in BOOLEAN : CallConsume(c, fresh, skip)
               \/ CallGet(c) \/ Return(c)
               \/ ConsumeCheck(c) \/ GetCheck(c) \/ MemoryPanic(c)
               \/ BackendLostReply(c) \/ BackendFull(c) \/ BackendSkip(c)
               \/ BackendError(c) \/ GetBody(c)
        PROVE  FALSE
    BY <2>5 DEF Validate, CallConsume, CallGet, Return, ConsumeCheck, GetCheck, MemoryPanic,
                BackendLostReply, BackendFull, BackendSkip, BackendError, GetBody
  <2>6. ~CleanupStart /\ ~CleanupExpired /\ ~Close /\ ~UNCHANGED storeVars
        /\ \A id \in Ids : ~RedisEvict(id)
    BY DEF CleanupStart, CleanupExpired, Close, RedisEvict, storeVars
  <2>. QED
    BY <2>1, <2>2, <2>3, <2>4, <2>5, <2>6 DEF Next, Caller, Serve
<1>. QED
  BY <1>1, <1>2, StoreCorrect, PTL DEF Spec, QuotaRefined, Quota!Spec

-----------------------------------------------------------------------------
(***************************************************************************)
(* What a refusal and a record say.                                        *)
(***************************************************************************)
Full(id) == charged[id] = Limit[id]

\* Only the postgres Consume reads a record it did not just write, and unless
\* it skips the charge it does so because the quota was full.
Refused(c) ==
  /\ call[c].pc = "validated" => call[c].op = "Get"
  /\ call[c].pc \in {"getCheck", "getBody"} /\ call[c].op = "Consume" =>
       driver = "postgres" /\ (call[c].skip \/ Full(call[c].id))
  /\ call[c].pc = "used_up" => Full(call[c].id)
  /\ call[c].pc # "record_vanished"

\* A backend's record was written by a charge.
RecordsUsed == Durable => \A id \in DOMAIN records : records[id].uses # 0

AnswerInv == (\A c \in Calls : Refused(c)) /\ RecordsUsed

\* A quota that is full stays full, except that a memory store may be
\* replaced by an empty one, with all its calls.
LEMMA FullStays ==
  ASSUME StoreInv, [Next]_storeVars, ~Restart, NEW id \in Ids, Full(id)
  PROVE  charged'[id] = Limit[id]
<1>1. ASSUME NEW c \in Calls, MemoryConsume(c) PROVE charged'[id] = Limit[id]
  <2>1. Active(c) /\ ~closed
    BY <1>1 DEF MemoryConsume, Active
  <2>2. call[c].id \in Ids /\ usesOf(call[c].id) = charged[call[c].id]
    BY <2>1, RecordWhileActive
  <2>3. memoryRecord(c).uses = usesOf(call[c].id)
    BY DEF memoryRecord, usesOf
  <2>4. charged' = charged \/ (charged' = Increment(charged, call[c].id) /\ memoryRecord(c).uses < Limit[call[c].id])
    BY <1>1 DEF MemoryConsume
  <2>5. charged \in [Ids -> Nat] /\ Limit \in [Ids -> Nat]
    BY QuotaAssumption DEF StoreInv, TypeOK
  <2>. QED
    BY <2>2, <2>3, <2>4, <2>5 DEF Full, Increment
<1>2. ASSUME NEW c \in Calls, BackendSpend(c) \/ BackendLostReply(c) PROVE charged'[id] = Limit[id]
  <2>1. AtBackend(c) /\ Spendable(c) /\ charged' = Increment(charged, call[c].id)
    BY <1>2 DEF BackendSpend, BackendLostReply
  <2>2. charged[call[c].id] < Limit[call[c].id]
    BY <2>1, SpentRecordOK
  <2>3. charged \in [Ids -> Nat] /\ Limit \in [Ids -> Nat]
    BY QuotaAssumption DEF StoreInv, TypeOK
  <2>. QED
    BY <2>1, <2>2, <2>3 DEF Full, Increment
<1>3. ASSUME NEW c \in Calls,
             \/ Caller(c) \/ ConsumeCheck(c) \/ GetCheck(c) \/ MemoryPanic(c)
             \/ BackendFull(c) \/ BackendSkip(c) \/ BackendError(c) \/ GetBody(c)
      PROVE  charged'[id] = Limit[id]
  BY <1>3 DEF Caller, Validate, CallConsume, CallGet, Return, ConsumeCheck, GetCheck, MemoryPanic,
              BackendFull, BackendSkip, BackendError, GetBody, Full
<1>4. CASE CleanupStart \/ CleanupExpired \/ (\E i \in Ids : RedisEvict(i)) \/ Close \/ Tick
           \/ UNCHANGED storeVars
  BY <1>4 DEF CleanupStart, CleanupExpired, RedisEvict, Close, Tick, storeVars, Full
<1>. QED
  BY <1>1, <1>2, <1>3, <1>4 DEF Next, Serve

\* A caller that is still in a call finds the record of a full quota.
LEMMA FullIsRecorded ==
  ASSUME StoreInv, NEW c \in Calls, Active(c), Durable, Full(call[c].id)
  PROVE  call[c].id \in DOMAIN records
<1>1. call[c].id \in Ids /\ (call[c].id \in DOMAIN records \/ charged[call[c].id] = 0)
  BY RecordWhileActive
<1>. QED
  BY <1>1, QuotaAssumption DEF Full

\* A use that a driver finds not spendable was the last one.
LEMMA UnspendableIsFull ==
  ASSUME StoreInv, NEW c \in Calls, Active(c), Durable, ~Spendable(c)
  PROVE  Full(call[c].id)
<1>1. call[c].id \in Ids /\ usesOf(call[c].id) = charged[call[c].id]
  BY RecordWhileActive
<1>2. charged[call[c].id] \in Nat /\ Limit[call[c].id] \in Nat /\ charged[call[c].id] <= Limit[call[c].id]
  BY <1>1, QuotaAssumption DEF StoreInv, TypeOK, RecordsExact
<1>. QED
  BY <1>1, <1>2 DEF Spendable, Full

\* The call a step moves keeps Refused.
LEMMA MovedRefused ==
  ASSUME StoreInv, AnswerInv, [Next]_storeVars, NEW c \in Calls, Caller(c) \/ Serve(c)
  PROVE  /\ Refused(c)'
         /\ \A d \in Calls : d # c => call'[d] = call[d]
<1> USE DEF AnswerInv
<1>0. call \in [Calls -> Call \union {Idle}]
  BY DEF StoreInv, TypeOK
<1>1. CASE \E id \in Ids : \E ip \in IPs : Validate(c, id, ip)
  BY <1>0, <1>1 DEF Validate, Refused
<1>2. CASE \E fresh, skip \in BOOLEAN : CallConsume(c, fresh, skip)
  <2>1. PICK fresh \in BOOLEAN, skip \in BOOLEAN : CallConsume(c, fresh, skip)
    BY <1>2
  <2>2. call[c] \in Call
    BY <2>1, ActiveCall DEF CallConsume, StoreInv, Active
  <2>3. call'[c].pc = "check" /\ \A d \in Calls : d # c => call'[d] = call[d]
    BY <1>0, <2>1, <2>2 DEF CallConsume, Call
  <2>. QED
    BY <2>3 DEF Refused
<1>3. CASE Return(c)
  BY <1>0, <1>3 DEF Return, Refused, Idle
<1>4. ASSUME ~Return(c),
             ~\E id \in Ids : \E ip \in IPs : Validate(c, id, ip),
             ~\E fresh, skip \in BOOLEAN : CallConsume(c, fresh, skip)
      PROVE  /\ Refused(c)'
             /\ \A d \in Calls : d # c => call'[d] = call[d]
  <2>0. Active(c) /\ call[c] \in Call /\ call[c].id \in Ids /\ driver' = driver
    <3>1. Active(c)
      BY <1>4 DEF Caller, Serve, CallGet, ConsumeCheck, GetCheck, MemoryPanic, MemoryConsume,
              BackendSpend, BackendLostReply, BackendFull, BackendSkip, BackendError, GetBody,
              AtBackend, Active
    <3>. QED
      BY <3>1, ActiveCall, DriverFixed DEF StoreInv, Call
  <2>1. ASSUME NEW pc, call' = [call EXCEPT ![c].pc = pc]
        PROVE  /\ call'[c] = [call[c] EXCEPT !.pc = pc]
               /\ call'[c].pc = pc /\ call'[c].op = call[c].op /\ call'[c].id = call[c].id
               /\ call'[c].skip = call[c].skip
               /\ \A d \in Calls : d # c => call'[d] = call[d]
    BY <1>0, <2>0, <2>1 DEF Call
  <2>3. CASE CallGet(c)
    BY <2>1, <2>3 DEF CallGet, Refused, Goto
  <2>4. CASE ConsumeCheck(c)
    <3>1. PICK pc \in {"closed", "expired", "body"} : Goto(c, pc)
      BY <2>4 DEF ConsumeCheck
    <3>. QED
      BY <2>1, <3>1 DEF Refused, Goto
  <2>5. CASE GetCheck(c)
    <3>1. /\ call[c].pc = "getCheck" /\ UNCHANGED <<driver, charged>>
          /\ Goto(c, "closed") \/ Goto(c, "getBody")
      BY <2>5 DEF GetCheck
    <3>2. /\ call'[c].pc \in {"closed", "getBody"} /\ call'[c].op = call[c].op
          /\ call'[c].id = call[c].id /\ call'[c].skip = call[c].skip
          /\ \A d \in Calls : d # c => call'[d] = call[d]
      BY <2>1, <3>1 DEF Goto
    <3>3. call[c].op = "Consume" => driver = "postgres" /\ (call[c].skip \/ Full(call[c].id))
      BY <3>1 DEF Refused
    <3>. QED
      BY <3>1, <3>2, <3>3 DEF Refused, Full
  <2>6. CASE MemoryPanic(c)
    BY <2>1, <2>6 DEF MemoryPanic, Refused, Goto
  <2>7. CASE MemoryConsume(c)
    <3>1. /\ memoryRecord(c).uses = usesOf(call[c].id) /\ usesOf(call[c].id) = charged[call[c].id]
          /\ charged[call[c].id] \in Nat /\ Limit[call[c].id] \in Nat
          /\ charged[call[c].id] <= Limit[call[c].id]
      <4>1. usesOf(call[c].id) = charged[call[c].id]
        BY <2>0, <2>7, RecordWhileActive DEF MemoryConsume
      <4>. QED
        BY <2>0, <4>1, QuotaAssumption DEF memoryRecord, usesOf, StoreInv, TypeOK, RecordsExact
    <3>2. CASE memoryRecord(c).uses < Limit[call[c].id]
      <4>1. Goto(c, "allowed")
        BY <2>7, <3>2 DEF MemoryConsume
      <4>. QED
        BY <2>1, <4>1, ZenonT(60) DEF Refused, Goto
    <3>3. CASE ~(memoryRecord(c).uses < Limit[call[c].id])
      <4>1. Goto(c, "used_up") /\ charged' = charged
        BY <2>7, <3>3 DEF MemoryConsume
      <4>2. Full(call[c].id)
        BY <3>1, <3>3 DEF Full
      <4>. QED
        BY <2>1, <4>1, <4>2, ZenonT(60) DEF Refused, Full, Goto
    <3>. QED
      BY <3>2, <3>3
  <2>8. CASE BackendSpend(c) \/ BackendLostReply(c)
    <3>1. PICK pc \in {"allowed", "backend_error", "body"} : Goto(c, pc)
      BY <2>8 DEF BackendSpend, BackendLostReply
    <3>. QED
      BY <2>1, <3>1 DEF Refused, Goto
  <2>9. CASE BackendFull(c)
    <3>1. Full(call[c].id) /\ charged' = charged
      BY <2>0, <2>9, UnspendableIsFull DEF BackendFull, AtBackend
    <3>2. (driver = "postgres" /\ Goto(c, "getCheck")) \/ Goto(c, "used_up")
      BY <2>9 DEF BackendFull
    <3>3. /\ call'[c].pc \in {"getCheck", "used_up"} /\ call'[c].id = call[c].id
          /\ \A d \in Calls : d # c => call'[d] = call[d]
      BY <2>1, <3>2 DEF Goto
    <3>4. call'[c].pc = "getCheck" => driver' = "postgres"
      BY <2>0, <2>1, <3>2 DEF Goto
    <3>. QED
      BY <3>1, <3>3, <3>4 DEF Refused, Full
  <2>10. CASE BackendSkip(c)
    <3>1. CASE driver = "postgres"
      <4>1. Goto(c, "getCheck") /\ call[c].skip
        BY <2>10, <3>1 DEF BackendSkip
      <4>2. call'[c].pc = "getCheck" /\ call'[c].skip /\ \A d \in Calls : d # c => call'[d] = call[d]
        BY <2>1, <4>1 DEF Goto
      <4>. QED
        BY <2>0, <3>1, <4>2 DEF Refused
    <3>2. CASE driver # "postgres" /\ driver = "redis" /\ Spendable(c)
      <4>1. Goto(c, "allowed")
        BY <2>10, <3>2 DEF BackendSkip
      <4>. QED
        BY <2>1, <4>1 DEF Refused, Goto
    <3>3. CASE driver = "redis" /\ ~Spendable(c)
      <4>1. Goto(c, "used_up") /\ Full(call[c].id) /\ charged' = charged
        BY <2>0, <2>10, <3>3, UnspendableIsFull DEF BackendSkip, AtBackend
      <4>. QED
        BY <2>1, <4>1, ZenonT(60) DEF Refused, Full, Goto
    <3>. QED
      BY <2>10, <3>1, <3>2, <3>3, DriverAssumption DEF BackendSkip, AtBackend, Durable, StoreInv, TypeOK
  <2>11. CASE BackendError(c)
    BY <2>1, <2>11, ZenonT(60) DEF BackendError, Refused, Goto
  <2>12. CASE GetBody(c)
    <3>1. call[c].pc = "getBody" /\ Goto(c, getOutcome(c)) /\ UNCHANGED <<driver, charged>>
      BY <2>12 DEF GetBody
    <3>2. CASE call[c].op = "Get"
      BY <2>1, <3>1, <3>2 DEF getOutcome, Refused, Goto
    <3>3. CASE call[c].op = "Consume"
      <4>1. Durable /\ (call[c].skip \/ Full(call[c].id))
        BY <3>1, <3>3 DEF Refused, Durable
      <4>2. CASE call[c].skip
        <5>1. getOutcome(c) = IF Spendable(c) THEN "allowed" ELSE "used_up"
          BY <3>3, <4>2 DEF getOutcome
        <5>2. ~Spendable(c) => Full(call[c].id)
          BY <2>0, <4>1, UnspendableIsFull
        <5>. QED
          BY <2>1, <3>1, <5>1, <5>2 DEF Refused, Full, Goto
      <4>3. CASE ~call[c].skip
        <5>1. Full(call[c].id) /\ call[c].id \in DOMAIN records
          BY <2>0, <4>1, <4>3, FullIsRecorded
        <5>2. getOutcome(c) = "used_up"
          BY <3>3, <4>3, <5>1 DEF getOutcome
        <5>. QED
          BY <2>1, <3>1, <5>1, <5>2 DEF Refused, Full, Goto
      <4>. QED
        BY <4>2, <4>3
    <3>. QED
      BY <2>0, <3>2, <3>3 DEF Call
  <2>. QED
    BY <1>4, <2>3, <2>4, <2>5, <2>6, <2>7, <2>8, <2>9, <2>10, <2>11, <2>12 DEF Caller, Serve
<1>. QED
  BY <1>1, <1>2, <1>3, <1>4

\* Records are only written with a use in them.
LEMMA RecordsStayUsed ==
  ASSUME StoreInv, AnswerInv, [Next]_storeVars
  PROVE  RecordsUsed'
<1>1. driver' = driver /\ Durable' = Durable
  BY DriverFixed
<1>2. ASSUME NEW c \in Calls, BackendSpend(c) \/ BackendLostReply(c) PROVE RecordsUsed'
  <2>1. AtBackend(c) /\ Spendable(c) /\ records' = Put(records, call[c].id, spentRecord(c))
    BY <1>2 DEF BackendSpend, BackendLostReply
  <2>2. spentRecord(c).uses = charged[call[c].id] + 1 /\ Active(c)
    BY <2>1, SpentRecordOK
  <2>3. charged[call[c].id] \in Nat
    BY <2>2, ActiveCall DEF StoreInv, TypeOK, Call
  <2>. QED
    BY <1>1, <2>1, <2>2, <2>3 DEF Put, AnswerInv, RecordsUsed
<1>3. CASE CleanupExpired \/ (\E id \in Ids : RedisEvict(id)) \/ Close \/ Restart
  BY <1>1, <1>3 DEF CleanupExpired, RedisEvict, Close, Restart, Durable, AnswerInv, RecordsUsed
<1>4. ASSUME NEW c \in Calls, MemoryConsume(c) PROVE RecordsUsed'
  BY <1>1, <1>4 DEF MemoryConsume, Durable, RecordsUsed
<1>5. CASE records' = records
  BY <1>1, <1>5 DEF AnswerInv, RecordsUsed
<1>6. ASSUME NEW c \in Calls,
             \/ Caller(c) \/ ConsumeCheck(c) \/ GetCheck(c) \/ MemoryPanic(c)
             \/ BackendFull(c) \/ BackendSkip(c) \/ BackendError(c) \/ GetBody(c)
      PROVE  records' = records
  BY <1>6 DEF Caller, Validate, CallConsume, CallGet, Return, ConsumeCheck, GetCheck, MemoryPanic,
              BackendFull, BackendSkip, BackendError, GetBody
<1>7. CASE CleanupStart \/ Tick \/ UNCHANGED storeVars
  BY <1>5, <1>7 DEF CleanupStart, Tick, storeVars
<1>. QED
  BY <1>2, <1>3, <1>4, <1>5, <1>6, <1>7 DEF Next, Serve

\* AnswerInv is kept by every step, given StoreInv.
LEMMA AnswerStep == StoreInv /\ AnswerInv /\ [Next]_storeVars => AnswerInv'
<1> SUFFICES ASSUME StoreInv, AnswerInv, [Next]_storeVars PROVE AnswerInv'
  OBVIOUS
<1>1. ASSUME NEW d \in Calls, call'[d] = call[d], ~Restart PROVE Refused(d)'
  <2>1. CASE Active(d)
    <3>1. call[d].id \in Ids
      BY <2>1, ActiveCall DEF StoreInv, Call
    <3>2. Full(call[d].id) => charged'[call[d].id] = Limit[call[d].id]
      BY <1>1, <3>1, FullStays
    <3>. QED
      BY <1>1, <3>2, DriverFixed DEF AnswerInv, Refused, Full
  <2>2. CASE ~Active(d)
    BY <1>1, <2>2 DEF Active, Refused
  <2>. QED
    BY <2>1, <2>2
<1>2. ASSUME NEW c \in Calls, Caller(c) \/ Serve(c) PROVE \A d \in Calls : Refused(d)'
  <2>1. Refused(c)' /\ \A d \in Calls : d # c => call'[d] = call[d]
    BY <1>2, MovedRefused
  <2>2. CASE Restart
    BY <2>2 DEF Restart, Refused, Idle
  <2>3. CASE ~Restart
    BY <1>1, <2>1, <2>3
  <2>. QED
    BY <2>2, <2>3
<1>3. ASSUME Restart PROVE \A d \in Calls : Refused(d)'
  BY <1>3 DEF Restart, Refused, Idle
<1>4. ASSUME \/ CleanupStart \/ CleanupExpired \/ (\E id \in Ids : RedisEvict(id))
             \/ Close \/ Tick \/ UNCHANGED storeVars
      PROVE  \A d \in Calls : Refused(d)'
  <2>1. call' = call
    BY <1>4 DEF CleanupStart, CleanupExpired, RedisEvict, Close, Tick, storeVars
  <2>. QED
    BY <1>1, <1>3, <2>1
<1>5. \A d \in Calls : Refused(d)'
  BY <1>2, <1>3, <1>4 DEF Next
<1>. QED
  BY <1>5, RecordsStayUsed DEF AnswerInv

\* Both invariants hold in every reachable state.
LEMMA AnswersCorrect == Spec => [](StoreInv /\ AnswerInv)
<1>1. Init => AnswerInv
  BY DEF Init, AnswerInv, Refused, RecordsUsed, Idle, NoRecords
<1>. QED
  BY <1>1, InitInv, StepInv, AnswerStep, PTL DEF Spec

\* used_up is only ever said of a quota that is spent, in every driver and
\* also by the postgres Consume, which learns it from a second statement.
THEOREM RefusalsEarned == Spec => []RefusalEarned
<1>1. AnswerInv => RefusalEarned
  BY DEF AnswerInv, Refused, Full, RefusalEarned
<1>. QED
  BY <1>1, AnswersCorrect, PTL

\* The row the postgres Consume reads again is there, whatever the cleanup
\* did between its two statements.
THEOREM RecordsStay == Spec => []NoRecordVanishes
<1>1. AnswerInv => NoRecordVanishes
  BY DEF AnswerInv, Refused, NoRecordVanishes
<1>. QED
  BY <1>1, AnswersCorrect, PTL

\* No step rewrites the first address of a record, in any driver.
THEOREM FirstIPsStable == Spec => FirstIPStable
<1> DEFINE Same == \A id \in DOMAIN records \intersect DOMAIN records' :
                     records'[id].firstIP = records[id].firstIP
<1>1. StoreInv /\ AnswerInv /\ [Next]_storeVars => [Same]_storeVars
  <2> SUFFICES ASSUME StoreInv, AnswerInv, Next PROVE Same
    OBVIOUS
  <2>0. PICK D \in SUBSET Ids : records \in [D -> Record]
    BY DEF StoreInv, TypeOK
  <2>1. ASSUME NEW c \in Calls, MemoryConsume(c) PROVE Same
    <3>1. PICK n : records' = Put(records, call[c].id, [memoryRecord(c) EXCEPT !.uses = n])
      BY <2>1 DEF MemoryConsume
    <3>2. ASSUME call[c].id \in DOMAIN records
          PROVE  [memoryRecord(c) EXCEPT !.uses = n].firstIP = records[call[c].id].firstIP
      <4>1. memoryRecord(c) = records[call[c].id] /\ records[call[c].id] \in Record
        BY <2>0, <3>2 DEF memoryRecord
      <4>. QED
        BY <4>1 DEF Record
    <3>. QED
      BY <3>1, <3>2 DEF Put
  <2>2. ASSUME NEW c \in Calls, BackendSpend(c) \/ BackendLostReply(c) PROVE Same
    <3>1. AtBackend(c) /\ records' = Put(records, call[c].id, spentRecord(c))
      BY <2>2 DEF BackendSpend, BackendLostReply
    <3>2. ASSUME call[c].id \in DOMAIN records
          PROVE  spentRecord(c).firstIP = records[call[c].id].firstIP
      <4>1. usesOf(call[c].id) # 0 /\ records[call[c].id] \in Record
        BY <2>0, <3>1, <3>2 DEF AtBackend, AnswerInv, RecordsUsed, usesOf
      <4>2. spentRecord(c) = [records[call[c].id] EXCEPT !.uses = @ + 1]
        BY <4>1 DEF spentRecord
      <4>. QED
        BY <4>1, <4>2 DEF Record
    <3>. QED
      BY <3>1, <3>2 DEF Put
  <2>3. CASE CleanupExpired \/ (\E id \in Ids : RedisEvict(id)) \/ Close \/ Restart
    BY <2>3 DEF CleanupExpired, RedisEvict, Close, Restart, NoRecords
  <2>4. ASSUME NEW c \in Calls,
               \/ Caller(c) \/ ConsumeCheck(c) \/ GetCheck(c) \/ MemoryPanic(c)
               \/ BackendFull(c) \/ BackendSkip(c) \/ BackendError(c) \/ GetBody(c)
        PROVE  records' = records
    BY <2>4 DEF Caller, Validate, CallConsume, CallGet, Return, ConsumeCheck, GetCheck,
                MemoryPanic, BackendFull, BackendSkip, BackendError, GetBody
  <2>5. CASE CleanupStart \/ Tick
    BY <2>5 DEF CleanupStart, Tick
  <2>. QED
    BY <2>1, <2>2, <2>3, <2>4, <2>5 DEF Next, Serve
<1>. QED
  BY <1>1, AnswersCorrect, PTL DEF Spec, FirstIPStable
=============================================================================
