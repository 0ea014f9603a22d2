------------------------- MODULE CounterStore_proofs -------------------------
(***************************************************************************)
(* CounterStore's safety for every set of callers and series, every window *)
(* length, every sweep interval and any number of calls.  The argument: a  *)
(* bucket never expires while its window is open, so neither the sweep,    *)
(* nor a TTL, nor a redis command that arrives late can drop a count that  *)
(* Get still has to report.  A window is open for the lifetime of a        *)
(* bucket, which is all of it but for a redis window of more than a second *)
(* that is not whole seconds.                                              *)
(***************************************************************************)
EXTENDS CounterStore, TLAPS

\* What a bucket that can still be read holds.
Exact(b) ==
  IF b \in DOMAIN buckets
  THEN /\ IF driver = "memory" THEN buckets[b].value = counted[b]
                               ELSE buckets[b].value >= counted[b]
       /\ b[2] + Lifetime(b[1]) <= buckets[b].expiresAt
  ELSE counted[b] = 0

Kept == ~closed => \A b \in Slot : Open(b) => Exact(b)

\* A time that was read is not later than the time it is.
PastTimes ==
  /\ lastSweep <= clock
  /\ driver = "redis" => \A c \in Callers : op[c].pc = "body" => op[c].now <= clock

\* The last sweep left no bucket that had expired by then.
Swept ==
  driver = "memory" =>
    /\ closed => DOMAIN buckets = {}
    /\ \A b \in DOMAIN buckets : lastSweep <= buckets[b].expiresAt

CounterInv == TypeOK /\ PastTimes /\ Kept /\ Swept /\ ResidueBounded

\* What division by the length of a window gives.
LEMMA Division ==
  ASSUME NEW t \in Nat, NEW W \in Nat \ {0}
  PROVE  LET q == (t \div W) * W
         IN  /\ q \in Nat
             /\ q <= t
             /\ t < q + W
             /\ q % W = 0
<1>1. t \div W \in Nat /\ (t \div W) * W \in Nat
  OBVIOUS
<1>2. (t \div W) * W <= t /\ t < (t \div W) * W + W
  OBVIOUS
<1>3. \A k \in Nat : (k * W) % W = 0
  OBVIOUS
<1>. QED
  BY <1>1, <1>2, <1>3

\* bucketKey names a whole window, and the one the time falls in.
LEMMA KeyOfTime ==
  ASSUME NEW s \in Series, NEW t \in Time
  PROVE  LET b == bucketKey(s, t)
         IN  /\ b \in Slot
             /\ b[1] = s
             /\ b[2] <= t
             /\ t < b[2] + Window[b[1]]
             /\ b[2] % Window[b[1]] = 0
<1>1. Window[s] \in Nat \ {0} /\ t \in Nat /\ MaxTime \in Nat
  BY WindowAssumption, BoundAssumption DEF Time
<1> DEFINE q == (t \div Window[s]) * Window[s]
<1>2. q \in Nat /\ q <= t /\ t < q + Window[s] /\ q % Window[s] = 0
  BY <1>1, Division
<1>3. q \in Time
  BY <1>1, <1>2 DEF Time
<1>4. bucketKey(s, t) = <<s, q>>
  BY DEF bucketKey
<1> HIDE DEF q
<1>. QED
  BY <1>2, <1>3, <1>4 DEF Slot

\* The numbers of a slot.
LEMMA SlotType ==
  ASSUME NEW b \in Slot
  PROVE  b[1] \in Series /\ b[2] \in Nat /\ Window[b[1]] \in Nat \ {0}
BY WindowAssumption, BoundAssumption DEF Slot, Time

\* A TTL is a positive number of seconds.
LEMMA FormatType == \A d \in Nat : formatSec(d) \in Nat \ {0}
<1>1. \A d \in Nat : d >= Second => d \div Second \in Nat \ {0}
  BY WindowAssumption
<1>2. \A k \in Nat \ {0} : k * Second \in Nat \ {0}
  BY WindowAssumption
<1>. QED
  BY <1>1, <1>2, WindowAssumption DEF formatSec

\* A bucket lives for some time, with the memory driver for its window.
LEMMA LifetimeType ==
  ASSUME NEW b \in Slot
  PROVE  /\ Lifetime(b[1]) \in Nat \ {0}
         /\ driver = "memory" => Lifetime(b[1]) = Window[b[1]]
BY SlotType, FormatType DEF Lifetime

\* The windows of whole seconds, and those of less than one, last.
LEMMA WholeSecondsLast ==
  ASSUME NEW s \in Series, driver = "memory" \/ Window[s] < Second \/ Window[s] % Second = 0
  PROVE  Lasting(s)
<1>1. Window[s] \in Nat /\ Second \in Nat \ {0}
  BY WindowAssumption
<1>2. \A d \in Nat : d % Second = 0 => (d \div Second) * Second = d
  BY <1>1
<1>. QED
  BY <1>1, <1>2 DEF Lasting, Lifetime, formatSec

\* The current window of a series that lasts is open.
LEMMA LastingIsOpen ==
  ASSUME NEW b \in Slot, clock \in Nat, clock < b[2] + Window[b[1]], Lasting(b[1])
  PROVE  Open(b)
BY SlotType, LifetimeType DEF Lasting, Open

\* The time is a natural number.
LEMMA TimeType == ASSUME NEW t \in Time PROVE t \in Nat
BY BoundAssumption DEF Time

\* A call in progress has the fields of one.
LEMMA OpType ==
  ASSUME TypeOK, NEW c \in Callers, op[c].pc # "idle"
  PROVE  /\ op[c] \in Op
         /\ op[c].series \in Series /\ op[c].now \in Time /\ op[c].sends \in 0 .. MaxSends
BY DEF TypeOK, Op, Idle

\* A store that has just been built satisfies the invariant.
LEMMA InitInv == Init => CounterInv
<1> SUFFICES ASSUME Init PROVE CounterInv
  OBVIOUS
<1>1. DOMAIN buckets = {}
  BY DEF Init, NoBuckets
<1>2. closed \in BOOLEAN
  BY DEF Init
<1>3. TypeOK
  BY <1>1, <1>2, WindowAssumption, BoundAssumption DEF Init, TypeOK, Time
<1>4. PastTimes
  BY WindowAssumption DEF Init, PastTimes, Idle
<1>5. Kept
  BY <1>1 DEF Init, Kept, Exact
<1>6. Swept /\ ResidueBounded
  BY <1>1 DEF Swept, ResidueBounded
<1>. QED
  BY <1>3, <1>4, <1>5, <1>6 DEF CounterInv

\* The steps that touch no bucket: making a call, testing closed, the answer
\* of a Get, a redis command that does not run, taking the answer.
Quiet(c) ==
  \/ \E kind \in Kinds, s \in Series : Begin(c, kind, s)
  \/ isClosed(c)
  \/ MemoryGet(c) \/ RedisGet(c) \/ RedisError(c)
  \/ Return(c)

\* What Get reads is a natural number.
LEMMA ValueType ==
  ASSUME TypeOK, NEW b, NEW t PROVE valueAt(b, t) \in Nat
BY DEF TypeOK, valueAt, Live, Bucket

LEMMA QuietInv ==
  ASSUME CounterInv, NEW c \in Callers, Quiet(c)
  PROVE  CounterInv'
<1> USE DEF CounterInv
<1>1. /\ UNCHANGED <<driver, buckets, lastSweep, closed, clock, counted, lastIncr>>
      /\ op' \in [Callers -> Op \union {Idle}]
      /\ issued' \in [Series -> Nat]
      /\ driver = "redis" => \A d \in Callers : op'[d].pc = "body" => op'[d].now <= clock
  <2>0. clock \in Nat /\ clock \in Time
    BY TimeType DEF TypeOK
  <2>1. CASE \E kind \in Kinds, s \in Series : Begin(c, kind, s)
    <3>1. PICK kind \in Kinds, s \in Series : Begin(c, kind, s)
      BY <2>1
    <3>2. 0 \in Time /\ 0 \in 0 .. MaxSends
      BY BoundAssumption DEF Time
    <3>3. [pc |-> "check", kind |-> kind, series |-> s, now |-> 0, sends |-> 0, value |-> 0] \in Op
      BY <3>2 DEF Op
    <3>. QED
      BY <3>1, <3>3 DEF Begin, TypeOK, PastTimes
  <2>2. CASE isClosed(c)
    <3>1. op[c] \in Op
      BY <2>2, OpType DEF isClosed
    <3>. QED
      <4>1. op' \in [Callers -> Op \union {Idle}]
        BY <2>2, <3>1, <2>0 DEF isClosed, TypeOK, Op, Outcomes
      <4>2. driver = "redis" => \A d \in Callers : op'[d].pc = "body" => op'[d].now <= clock
        BY <2>2, <3>1, <2>0 DEF isClosed, TypeOK, PastTimes, Op
      <4>. QED
        BY <2>2, <4>1, <4>2 DEF isClosed, TypeOK
  <2>3. CASE MemoryGet(c)
    <3>1. op[c] \in Op
      BY <2>3, OpType DEF MemoryGet
    <3>2. valueAt(bucketKey(op[c].series, clock), clock) \in Nat
      BY ValueType
    <3>. QED
      BY <2>3, <3>1, <3>2 DEF MemoryGet, Answer, TypeOK, PastTimes, Op, Outcomes
  <2>4. CASE RedisGet(c)
    <3>1. op[c] \in Op /\ op[c].sends \in 0 .. MaxSends /\ MaxSends \in Nat
      BY <2>4, OpType, BoundAssumption DEF RedisGet, CanSend
    <3>2. valueAt(bucketKey(op[c].series, op[c].now), clock) \in Nat
      BY ValueType
    <3>3. op[c].sends + 1 \in 0 .. MaxSends
      BY <2>4, <3>1 DEF RedisGet, CanSend
    <3>. QED
      BY <2>4, <3>1, <3>2, <3>3 DEF RedisGet, Reply, TypeOK, PastTimes, Op, Outcomes
  <2>5. CASE RedisError(c)
    <3>1. op[c] \in Op
      BY <2>5, OpType DEF RedisError
    <3>. QED
      BY <2>5, <3>1 DEF RedisError, Answer, TypeOK, PastTimes, Op, Outcomes
  <2>6. CASE Return(c)
    BY <2>6 DEF Return, TypeOK, PastTimes, Idle
  <2>. QED
    BY <2>1, <2>2, <2>3, <2>4, <2>5, <2>6, Quiet(c) DEF Quiet
<1>2. TypeOK' /\ PastTimes'
  BY <1>1 DEF TypeOK, PastTimes
<1>3. Kept' /\ Swept' /\ ResidueBounded'
  BY <1>1 DEF Kept, Open, Exact, Lifetime, Swept, ResidueBounded
<1>. QED
  BY <1>2, <1>3

\* A redis command is sent for the window of the time its call read.
LEMMA SentKey ==
  ASSUME CounterInv, driver = "redis", NEW c \in Callers, op[c].pc = "body"
  PROVE  LET b == bucketKey(op[c].series, op[c].now)
         IN  b \in Slot /\ b[2] <= clock /\ b[2] % Window[b[1]] = 0
<1>1. op[c].series \in Series /\ op[c].now \in Time /\ op[c].now <= clock
  BY OpType DEF CounterInv, PastTimes
<1> DEFINE b == bucketKey(op[c].series, op[c].now)
<1>2. b \in Slot /\ b[2] <= op[c].now /\ b[2] % Window[b[1]] = 0
  BY <1>1, KeyOfTime
<1>3. b[2] \in Nat /\ op[c].now \in Nat /\ clock \in Nat
  BY <1>1, <1>2, SlotType, TimeType DEF CounterInv, TypeOK
<1>. QED
  BY <1>1, <1>2, <1>3

\* A bucket whose window is open is live, and is what Get reads.
LEMMA OpenIsLive ==
  ASSUME CounterInv, ~closed, NEW b \in Slot, Open(b)
  PROVE  /\ b \in DOMAIN buckets => clock < buckets[b].expiresAt /\ Live(b, clock)
         /\ IF driver = "memory" THEN valueAt(b, clock) = counted[b]
                                 ELSE valueAt(b, clock) >= counted[b]
<1>1. clock \in Nat /\ b[2] \in Nat /\ Lifetime(b[1]) \in Nat /\ counted[b] \in Nat
  BY SlotType, LifetimeType, TimeType DEF CounterInv, TypeOK
<1>2. Exact(b)
  BY DEF CounterInv, Kept
<1>3. CASE b \in DOMAIN buckets
  <2>1. buckets[b].expiresAt \in Nat
    BY <1>3 DEF CounterInv, TypeOK, Bucket
  <2>2. clock < buckets[b].expiresAt
    BY <1>1, <1>2, <1>3, <2>1 DEF Open, Exact
  <2>3. Live(b, clock)
    BY <1>1, <1>3, <2>1, <2>2 DEF Live
  <2>. QED
    BY <1>2, <1>3, <2>2, <2>3 DEF valueAt, Exact
<1>4. CASE b \notin DOMAIN buckets
  BY <1>2, <1>4 DEF valueAt, Live, Exact
<1>. QED
  BY <1>3, <1>4

\* An Incr of the memory driver, its sweep included.
LEMMA MemoryIncrInv ==
  ASSUME CounterInv, NEW c \in Callers, MemoryIncr(c)
  PROVE  CounterInv'
<1> USE DEF CounterInv
<1> DEFINE b == bucketKey(op[c].series, clock)
           swept == sweepLocked(clock)
           fresh == b \notin DOMAIN swept \/ ~Live(b, clock)
           e == IF fresh THEN [value |-> 1, expiresAt |-> expiresAt(b, clock)]
                         ELSE [swept[b] EXCEPT !.value = @ + 1]
<1>1. /\ driver = "memory" /\ op[c].pc = "body"
      /\ lastSweep' = sweepTime(clock)
      /\ UNCHANGED <<driver, closed, clock, issued>>
  BY MemoryIncr(c) DEF MemoryIncr
<1>2. /\ op[c] \in Op /\ op[c].series \in Series
      /\ clock \in Nat /\ clock \in Time /\ lastSweep \in Int /\ SweepInterval \in Nat \ {0}
  BY <1>1, OpType, TimeType, WindowAssumption DEF TypeOK
<1>3. lastSweep' \in Int /\ lastSweep' <= clock
  BY <1>1, <1>2 DEF sweepTime, PastTimes
<1>4. CASE closed
  <2>1. /\ UNCHANGED <<buckets, counted, lastIncr>>
        /\ op' = [op EXCEPT ![c].pc = "panic", ![c].value = 0]
    BY <1>4, MemoryIncr(c) DEF MemoryIncr, Answer
  <2>2. op' \in [Callers -> Op \union {Idle}]
    BY <2>1, <1>2 DEF TypeOK, Op, Outcomes
  <2>3. TypeOK' /\ PastTimes'
    BY <1>1, <1>3, <2>1, <2>2 DEF TypeOK, PastTimes
  <2>4. Kept' /\ Swept' /\ ResidueBounded'
    BY <1>1, <1>4, <2>1 DEF Kept, Swept, ResidueBounded
  <2>. QED
    BY <2>3, <2>4
<1>5. CASE ~closed
  <2>1. /\ buckets' = Put(swept, b, e)
        /\ op' = [op EXCEPT ![c].pc = "ok", ![c].value = buckets'[b].value]
        /\ counted' = [counted EXCEPT ![b] = @ + 1]
        /\ lastIncr' = clock
    BY <1>5, MemoryIncr(c) DEF MemoryIncr, Answer
  <2>2. b \in Slot /\ b[2] <= clock /\ clock < b[2] + Window[b[1]] /\ b[2] % Window[b[1]] = 0
    BY <1>2, KeyOfTime
  <2>3. b[2] \in Nat /\ Lifetime(b[1]) \in Nat \ {0} /\ Lifetime(b[1]) = Window[b[1]]
    BY <1>1, <2>2, SlotType, LifetimeType
  <2>4. /\ DOMAIN swept \subseteq DOMAIN buckets
        /\ \A x \in DOMAIN swept : swept[x] = buckets[x] /\ lastSweep' <= buckets[x].expiresAt
        /\ \A x \in DOMAIN swept : clock - buckets[x].expiresAt < SweepInterval
        /\ \A x \in DOMAIN buckets : x \notin DOMAIN swept => clock > buckets[x].expiresAt
    <3>0. \A x \in DOMAIN buckets : buckets[x].expiresAt \in Nat /\ lastSweep <= buckets[x].expiresAt
      BY <1>1 DEF TypeOK, Bucket, Swept
    <3>1. CASE clock - lastSweep < SweepInterval
      BY <1>1, <1>2, <3>0, <3>1 DEF sweepLocked, sweepTime
    <3>2. CASE ~(clock - lastSweep < SweepInterval)
      <4>1. swept = Without(buckets, {x \in DOMAIN buckets : clock > buckets[x].expiresAt})
        BY <3>2 DEF sweepLocked
      <4>2. lastSweep' = clock
        BY <1>1, <3>2 DEF sweepTime
      <4>3. /\ DOMAIN swept = {x \in DOMAIN buckets : ~(clock > buckets[x].expiresAt)}
            /\ \A x \in DOMAIN swept : swept[x] = buckets[x]
        BY <4>1 DEF Without
      <4> HIDE DEF swept
      <4>. QED
        BY <1>2, <3>0, <4>2, <4>3
    <3>. QED
      BY <3>1, <3>2
  <2>5. \A x \in DOMAIN buckets : buckets[x] \in Bucket /\ buckets[x].expiresAt \in Nat /\ buckets[x].value \in Nat
    BY DEF TypeOK, Bucket
  <2>6. IF b \in DOMAIN buckets
        THEN /\ b \in DOMAIN swept /\ Live(b, clock) /\ buckets[b].value = counted[b]
             /\ b[2] + Lifetime(b[1]) <= buckets[b].expiresAt
        ELSE b \notin DOMAIN swept /\ counted[b] = 0
    <3>1. Open(b) /\ Exact(b)
      BY <1>5, <2>2, <2>3 DEF Open, Kept
    <3>2. b \in DOMAIN buckets => clock < buckets[b].expiresAt /\ Live(b, clock)
      BY <1>5, <2>2, <3>1, OpenIsLive
    <3>. QED
      BY <1>1, <1>2, <2>4, <2>5, <3>1, <3>2 DEF Exact
  <2>7. counted[b] \in Nat
    BY <2>2 DEF TypeOK
  <2>8. /\ e \in Bucket
        /\ e.value = counted[b] + 1
        /\ b[2] + Lifetime(b[1]) <= e.expiresAt
        /\ clock <= e.expiresAt /\ e.expiresAt \in Nat
    <3>1. CASE b \in DOMAIN buckets
      <4>1. swept[b] = buckets[b] /\ ~fresh
        BY <2>4, <2>6, <3>1
      <4>2. e = [buckets[b] EXCEPT !.value = @ + 1]
        BY <4>1
      <4>3. /\ buckets[b] \in Bucket /\ buckets[b].expiresAt \in Nat /\ buckets[b].value = counted[b]
            /\ b[2] + Lifetime(b[1]) <= buckets[b].expiresAt
        BY <2>5, <2>6, <3>1
      <4> HIDE DEF e, b
      <4>. QED
        BY <1>2, <2>2, <2>3, <2>7, <4>2, <4>3 DEF Bucket
    <3>2. CASE b \notin DOMAIN buckets
      <4>1. e = [value |-> 1, expiresAt |-> expiresAt(b, clock)] /\ counted[b] = 0
        BY <2>6, <3>2
      <4> HIDE DEF e, b
      <4>. QED
        BY <1>2, <2>2, <2>3, <4>1 DEF Bucket, expiresAt
    <3>. QED
      BY <3>1, <3>2
  <2>9. /\ DOMAIN buckets' = DOMAIN swept \union {b}
        /\ \A x \in DOMAIN buckets' : buckets'[x] = IF x = b THEN e ELSE buckets[x]
    BY <2>1, <2>4 DEF Put
  <2> HIDE DEF e, fresh, swept, b
  <2>10. TypeOK'
    <3>1. op' \in [Callers -> Op \union {Idle}]
      <4>1. buckets'[b].value \in Nat
        BY <2>7, <2>8, <2>9
      <4>. QED
        BY <1>2, <2>1, <4>1 DEF TypeOK, Op, Outcomes
    <3>2. counted' \in [Slot -> Nat]
      BY <2>1, <2>2, <2>7 DEF TypeOK
    <3>3. /\ DOMAIN buckets' \subseteq Slot
          /\ \A x \in DOMAIN buckets' : x[2] % Window[x[1]] = 0
          /\ \A x \in DOMAIN buckets' : buckets'[x] \in Bucket
      BY <2>2, <2>4, <2>5, <2>8, <2>9 DEF TypeOK
    <3>. QED
      BY <1>1, <1>2, <1>3, <2>1, <3>1, <3>2, <3>3 DEF TypeOK
  <2>11. PastTimes'
    BY <1>1, <1>3 DEF PastTimes
  <2>12. Kept'
    <3> SUFFICES ASSUME NEW x \in Slot, Open(x)' PROVE Exact(x)'
      BY DEF Kept
    <3>1. Open(x) /\ Exact(x)
      BY <1>1, <1>5 DEF Open, Kept, Lifetime
    <3>2. CASE x = b
      BY <1>1, <2>1, <2>2, <2>7, <2>8, <2>9, <3>2 DEF Exact, TypeOK, Lifetime
    <3>3. CASE x # b
      <4>1. counted'[x] = counted[x]
        BY <2>1, <3>3 DEF TypeOK
      <4>2. x \in DOMAIN buckets => x \in DOMAIN swept
        <5>1. x \in DOMAIN buckets => clock < buckets[x].expiresAt
          BY <1>5, <3>1, OpenIsLive
        <5>. QED
          BY <1>2, <2>4, <2>5, <5>1
      <4>. QED
        BY <1>1, <2>4, <2>9, <3>1, <3>3, <4>1, <4>2 DEF Exact, Lifetime
    <3>. QED
      BY <3>2, <3>3
  <2>13. Swept' /\ ResidueBounded'
    BY <1>1, <1>2, <1>3, <1>5, <2>1, <2>4, <2>8, <2>9 DEF Swept, ResidueBounded
  <2>. QED
    BY <2>10, <2>11, <2>12, <2>13
<1>. QED
  BY <1>4, <1>5

\* A Reset, of either driver: the bucket and its count go together.
LEMMA ResetInv ==
  ASSUME CounterInv, NEW c \in Callers,
         MemoryReset(c) \/ \E pc \in AfterLoss \union {"ok"} : RedisReset(c, pc)
  PROVE  CounterInv'
<1> USE DEF CounterInv
<1>1. PICK b \in Slot :
        /\ buckets' = Without(buckets, {b})
        /\ counted' = [counted EXCEPT ![b] = 0]
        /\ op' \in [Callers -> Op \union {Idle}]
        /\ driver = "redis" => \A d \in Callers : op'[d].pc = "body" => op'[d].now <= clock
        /\ UNCHANGED <<driver, lastSweep, closed, clock, issued, lastIncr>>
  <2>1. CASE MemoryReset(c)
    <3>1. op[c] \in Op /\ bucketKey(op[c].series, clock) \in Slot
      BY <2>1, OpType, KeyOfTime DEF MemoryReset, TypeOK
    <3>. QED
      BY <2>1, <3>1 DEF MemoryReset, Answer, TypeOK, Op, Outcomes, PastTimes
  <2>2. CASE \E pc \in AfterLoss \union {"ok"} : RedisReset(c, pc)
    <3>1. PICK pc \in AfterLoss \union {"ok"} : RedisReset(c, pc)
      BY <2>2
    <3>2. /\ driver = "redis" /\ op[c] \in Op /\ MaxSends \in Nat /\ op[c].pc = "body"
          /\ bucketKey(op[c].series, op[c].now) \in Slot
          /\ op[c].sends \in 0 .. MaxSends /\ op[c].sends < MaxSends
      BY <3>1, OpType, SentKey, BoundAssumption DEF RedisReset, CanSend
    <3>3. op[c].sends + 1 \in 0 .. MaxSends
      BY <3>2
    <3>4. op' \in [Callers -> Op \union {Idle}]
      BY <3>1, <3>2, <3>3 DEF RedisReset, Reply, TypeOK, Op, Outcomes, AfterLoss
    <3>5. \A d \in Callers : op'[d].pc = "body" => op'[d].now <= clock
      BY <3>1, <3>2 DEF RedisReset, Reply, PastTimes, TypeOK, Op
    <3>. QED
      BY <3>1, <3>2, <3>4, <3>5 DEF RedisReset
  <2>. QED
    BY <2>1, <2>2
<1>2. /\ DOMAIN buckets' = DOMAIN buckets \ {b}
      /\ \A x \in DOMAIN buckets' : buckets'[x] = buckets[x]
  BY <1>1 DEF Without
<1>3. /\ counted' \in [Slot -> Nat] /\ counted'[b] = 0
      /\ \A x \in Slot : x # b => counted'[x] = counted[x]
  BY <1>1 DEF TypeOK
<1>4. TypeOK' /\ PastTimes'
  BY <1>1, <1>2, <1>3 DEF TypeOK, PastTimes
<1>5. Kept' /\ Swept' /\ ResidueBounded'
  BY <1>1, <1>2, <1>3 DEF Kept, Open, Exact, Lifetime, Swept, ResidueBounded
<1>. QED
  BY <1>4, <1>5

\* An Incr of the redis driver, its reply lost or not.
LEMMA RedisIncrInv ==
  ASSUME CounterInv, NEW c \in Callers, NEW pc \in AfterLoss \union {"ok"}, RedisIncr(c, pc)
  PROVE  CounterInv'
<1> USE DEF CounterInv
<1> DEFINE b == bucketKey(op[c].series, op[c].now)
           v == valueAt(b, clock) + 1
           e == [value |-> v, expiresAt |-> expiresAt(b, clock)]
<1>1. /\ driver = "redis" /\ op[c].pc = "body" /\ op[c].sends < MaxSends
      /\ buckets' = Put(buckets, b, e)
      /\ counted' = IF pc = "ok" THEN [counted EXCEPT ![b] = @ + 1] ELSE counted
      /\ lastIncr' = clock
      /\ op' = [op EXCEPT ![c].pc = pc, ![c].value = v, ![c].sends = @ + 1]
      /\ UNCHANGED <<driver, lastSweep, closed, clock, issued>>
  BY RedisIncr(c, pc) DEF RedisIncr, CanSend, Reply
<1>2. b \in Slot /\ b[2] <= clock /\ b[2] % Window[b[1]] = 0
  BY <1>1, SentKey
<1>3. b[2] \in Nat /\ Lifetime(b[1]) \in Nat \ {0} /\ clock \in Nat /\ clock \in Time
  BY <1>2, SlotType, LifetimeType, TimeType DEF TypeOK
<1>4. valueAt(b, clock) \in Nat /\ counted[b] \in Nat
  BY <1>2, ValueType DEF TypeOK
<1>5. /\ DOMAIN buckets' = DOMAIN buckets \union {b}
      /\ \A x \in DOMAIN buckets' : buckets'[x] = IF x = b THEN e ELSE buckets[x]
  BY <1>1 DEF Put
<1>6. /\ e \in Bucket /\ e.value = valueAt(b, clock) + 1 /\ b[2] + Lifetime(b[1]) <= e.expiresAt
      /\ v \in Nat
  BY <1>2, <1>3, <1>4 DEF Bucket, expiresAt
<1>7. ~closed /\ Open(b) => valueAt(b, clock) >= counted[b]
  BY <1>1, <1>2, OpenIsLive
<1> HIDE DEF b, v, e
<1>8. /\ counted' \in [Slot -> Nat] /\ counted'[b] \in {counted[b], counted[b] + 1}
      /\ \A x \in Slot : x # b => counted'[x] = counted[x]
  BY <1>1, <1>2, <1>4 DEF TypeOK
<1>9. op' \in [Callers -> Op \union {Idle}]
  <2>1. op[c] \in Op /\ MaxSends \in Nat /\ op[c].sends \in 0 .. MaxSends
    BY <1>1, OpType, BoundAssumption
  <2>2. op[c].sends + 1 \in 0 .. MaxSends
    BY <1>1, <2>1
  <2>. QED
    BY <1>1, <1>6, <2>1, <2>2 DEF TypeOK, Op, Outcomes, AfterLoss
<1>10. \A d \in Callers : op'[d].pc = "body" => op'[d].now <= clock
  <2>1. op[c] \in Op
    BY <1>1, OpType
  <2>. QED
    BY <1>1, <2>1 DEF PastTimes, TypeOK, Op
<1>11. TypeOK' /\ PastTimes'
  <2>1. /\ DOMAIN buckets' \subseteq Slot
        /\ \A x \in DOMAIN buckets' : x[2] % Window[x[1]] = 0
        /\ \A x \in DOMAIN buckets' : buckets'[x] \in Bucket
    BY <1>2, <1>5, <1>6 DEF TypeOK
  <2>. QED
    BY <1>1, <1>3, <1>8, <1>9, <1>10, <2>1 DEF TypeOK, PastTimes
<1>12. Kept'
  <2> SUFFICES ASSUME ~closed, NEW x \in Slot, Open(x)' PROVE Exact(x)'
    BY <1>1 DEF Kept
  <2>1. Open(x) /\ Exact(x)
    BY <1>1 DEF Open, Kept, Lifetime
  <2>2. CASE x = b
    BY <1>1, <1>4, <1>5, <1>6, <1>7, <1>8, <2>1, <2>2 DEF Exact, Lifetime
  <2>3. CASE x # b
    BY <1>1, <1>5, <1>8, <2>1, <2>3 DEF Exact, Lifetime
  <2>. QED
    BY <2>2, <2>3
<1>13. Swept' /\ ResidueBounded'
  BY <1>1 DEF Swept, ResidueBounded
<1>. QED
  BY <1>11, <1>12, <1>13

\* Close, and what happens outside the calls.
LEMMA OutsideInv == CounterInv /\ (Close \/ Environment) => CounterInv'
<1> SUFFICES ASSUME CounterInv, Close \/ Environment PROVE CounterInv'
  OBVIOUS
<1> USE DEF CounterInv
<1>1. CASE Close
  <2>1. driver = "memory" => DOMAIN buckets' = {}
    BY <1>1 DEF Close, NoBuckets
  <2>2. closed' = TRUE /\ (driver # "memory" => buckets' = buckets)
    BY <1>1 DEF Close
  <2>3. closed' \in BOOLEAN
    BY <2>2
  <2>4. TypeOK'
    BY <1>1, <2>1, <2>2, <2>3 DEF Close, TypeOK
  <2>5. PastTimes' /\ Kept' /\ Swept' /\ ResidueBounded'
    BY <1>1, <2>1, <2>2 DEF Close, PastTimes, Kept, Swept, ResidueBounded
  <2>. QED
    BY <2>4, <2>5
<1>2. CASE RedisEvict
  <2>1. PICK b \in DOMAIN buckets : ~Live(b, clock) /\ buckets' = Without(buckets, {b})
    BY <1>2 DEF RedisEvict
  <2>2. /\ DOMAIN buckets' = DOMAIN buckets \ {b}
        /\ \A x \in DOMAIN buckets' : buckets'[x] = buckets[x]
    BY <2>1 DEF Without
  <2>3. /\ driver = "redis"
        /\ UNCHANGED <<driver, lastSweep, closed, clock, op, counted, issued, lastIncr>>
    BY <1>2 DEF RedisEvict
  <2>4. TypeOK' /\ PastTimes' /\ Swept' /\ ResidueBounded'
    BY <2>2, <2>3 DEF TypeOK, PastTimes, Swept, ResidueBounded
  <2>5. Kept'
    <3> SUFFICES ASSUME ~closed, NEW x \in Slot, Open(x) PROVE Exact(x)'
      BY <2>3 DEF Kept, Open, Lifetime
    <3>1. Exact(x) /\ x # b
      BY <2>1, OpenIsLive DEF Kept
    <3>. QED
      BY <2>2, <2>3, <3>1 DEF Exact, Lifetime
  <2>. QED
    BY <2>4, <2>5
<1>3. CASE Tick
  <2>1. clock \in Nat /\ Horizon[driver] \in 0 .. MaxTime /\ MaxTime \in Nat
    BY BoundAssumption, TimeType DEF TypeOK
  <2>2. clock' = clock + 1 /\ clock' \in Time
    BY <1>3, <2>1 DEF Tick, Time
  <2>3. UNCHANGED <<driver, buckets, lastSweep, closed, op, counted, issued, lastIncr>>
    BY <1>3 DEF Tick
  <2>4. TypeOK'
    BY <2>2, <2>3 DEF TypeOK
  <2>5. PastTimes'
    <3>1. \A c \in Callers : op[c].pc = "body" => op[c].now \in Nat
      BY OpType, TimeType
    <3>. QED
      BY <2>1, <2>2, <2>3, <3>1 DEF PastTimes, TypeOK
  <2>6. Kept'
    <3>1. \A x \in Slot : x[2] + Lifetime(x[1]) \in Nat
      BY SlotType, LifetimeType
    <3>2. \A x \in Slot : Lifetime(x[1])' = Lifetime(x[1])
      BY <2>3 DEF Lifetime
    <3>3. \A x \in Slot : Open(x)' => Open(x)
      BY <2>1, <2>2, <3>1, <3>2 DEF Open
    <3>4. \A x \in Slot : Exact(x) => Exact(x)'
      BY <2>3, <3>2 DEF Exact
    <3>. QED
      BY <2>3, <3>3, <3>4 DEF Kept
  <2>7. Swept' /\ ResidueBounded'
    BY <2>3 DEF Swept, ResidueBounded
  <2>. QED
    BY <2>4, <2>5, <2>6, <2>7
<1>. QED
  BY <1>1, <1>2, <1>3 DEF Environment

\* Every step keeps the invariant.
LEMMA StepInv == CounterInv /\ [Next]_counterVars => CounterInv'
<1> SUFFICES ASSUME CounterInv, [Next]_counterVars PROVE CounterInv'
  OBVIOUS
<1>1. ASSUME NEW c \in Callers, NEW kind \in Kinds, NEW s \in Series, Begin(c, kind, s)
      PROVE  CounterInv'
  BY <1>1, QuietInv DEF Quiet
<1>2. ASSUME NEW c \in Callers, Serve(c) PROVE CounterInv'
  BY <1>2, QuietInv, MemoryIncrInv, ResetInv, RedisIncrInv DEF Serve, Quiet
<1>3. ASSUME NEW c \in Callers, Return(c) PROVE CounterInv'
  BY <1>3, QuietInv DEF Quiet
<1>4. CASE Close \/ Environment
  BY <1>4, OutsideInv
<1>5. CASE UNCHANGED counterVars
  BY <1>5 DEF counterVars, CounterInv, TypeOK, PastTimes, Kept, Open, Exact, Lifetime, Swept, ResidueBounded
<1>. QED
  BY <1>1, <1>2, <1>3, <1>4, <1>5 DEF Next

\* CounterInv holds in every reachable state.
LEMMA CounterCorrect == Spec => []CounterInv
<1>. QED
  BY InitInv, StepInv, PTL DEF Spec

\* Every variable keeps its type, and every resident bucket is one that
\* bucketKey names (counter.go, both drivers).
THEOREM TypeCorrect == Spec => []TypeOK
<1>1. CounterInv => TypeOK
  BY DEF CounterInv
<1>. QED
  BY <1>1, CounterCorrect, PTL

\* What Get reads for the current window is never less than the increments
\* acknowledged in it, and exactly those for the memory driver, for every
\* sweep interval and number of retries: throughout every window of the memory
\* driver and every redis window of whole seconds or less than one
\* (WholeSecondsLast), and for the whole seconds at the start of any other.
THEOREM CountsAreKept == Spec => []CountsKept
<1>1. CounterInv => CountsKept
  <2> SUFFICES ASSUME CounterInv, ~closed, NEW s \in Series,
                      Lasting(s) \/ Open(bucketKey(s, clock))
               PROVE LET b == bucketKey(s, clock)
                     IN  IF driver = "memory" THEN valueAt(b, clock) = counted[b]
                                              ELSE valueAt(b, clock) >= counted[b]
    BY DEF CountsKept
  <2> DEFINE b == bucketKey(s, clock)
  <2>1. clock \in Time /\ clock \in Nat
    BY TimeType DEF CounterInv, TypeOK
  <2>2. b \in Slot /\ b[1] = s /\ clock < b[2] + Window[b[1]]
    BY <2>1, KeyOfTime
  <2>3. Open(b)
    BY <2>1, <2>2, LastingIsOpen
  <2>. QED
    BY <2>2, <2>3, OpenIsLive
<1>. QED
  BY <1>1, CounterCorrect, PTL

\* sweepLocked bounds what the memory driver keeps past its expiry, for every
\* sweep interval.
THEOREM ResidueIsBounded == Spec => []ResidueBounded
<1>1. CounterInv => ResidueBounded
  BY DEF CounterInv
<1>. QED
  BY <1>1, CounterCorrect, PTL
=============================================================================
