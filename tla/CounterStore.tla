---------------------------- MODULE CounterStore ----------------------------
(***************************************************************************)
(* internal/storage/{memory,redis}/counter.go behind the                   *)
(* storage.CounterStore interface: fixed windows, one bucket per window.   *)
(*                                                                         *)
(* The isClosed test and the work are separate steps in both drivers. The  *)
(* memory driver reads the time inside its critical section; the redis     *)
(* driver reads it first, and the command runs on the server later.        *)
(***************************************************************************)
EXTENDS Integers, FiniteSets

CONSTANTS
  Drivers,        \* the drivers a deployment may configure
  Callers,        \* goroutines that call the store
  Series,         \* (name, key) pairs
  Window,         \* the window of each series
  Second,         \* clock ticks in a second, the unit of a redis EXPIRE
  SweepInterval,  \* sweepInterval
  MaxSends,       \* a redis command is sent at most this often (client retries)
  MaxIncrs,       \* bound, per driver: Incr calls of one series
  Horizon,        \* bound, per driver: the clock stops here
  MaxTime         \* bound: the largest Horizon

ASSUME DriverAssumption == Drivers \subseteq {"memory", "redis"}
ASSUME WindowAssumption ==
  /\ Window \in [Series -> Nat \ {0}]
  /\ Second \in Nat \ {0}
  /\ SweepInterval \in Nat \ {0}
ASSUME BoundAssumption ==
  /\ MaxSends \in Nat \ {0}
  /\ MaxIncrs \in [Drivers -> Nat]
  /\ MaxTime \in Nat
  /\ Horizon \in [Drivers -> 0 .. MaxTime]

VARIABLES
  driver,     \* the driver buildStorage chose, fixed when the process starts
  buckets,    \* the resident buckets, as a function on the slots that have one
  lastSweep,  \* memory: s.lastSweep
  closed,     \* s.closed
  clock,      \* the time
  op,         \* per goroutine, the call it is in
  counted,    \* history: acknowledged increments per slot, since its last Reset
  issued,     \* history: Incr calls per series
  lastIncr    \* history: when an Incr last ran

counterVars == <<driver, buckets, lastSweep, closed, clock, op, counted, issued, lastIncr>>

Time == 0 .. MaxTime
Slot == Series \X Time

\* Fault: the key carries the time itself, not the start of its window.
FaultKeyUnaligned(s, t) == <<s, t>>

\* bucketKey: the slot a series uses at time t.
bucketKey(s, t) == <<s, (t \div Window[s]) * Window[s]>>

NoBuckets == [b \in {} |-> 0]
Bucket == [value : Nat, expiresAt : Nat]

Kinds == {"Incr", "Get", "Reset"}
Outcomes == {"ok", "closed", "error", "panic"}

\* now: the time the redis driver read; sends: commands sent so far.
Op == [pc : {"check", "body"} \union Outcomes, kind : Kinds, series : Series,
       now : Time, sends : 0 .. MaxSends, value : Nat]

Idle == [pc |-> "idle"]

\* go-redis sends a TTL in whole seconds: one for less than a second, else
\* without the fraction.
formatSec(d) == IF d < Second THEN Second ELSE (d \div Second) * Second

\* How long a bucket of series s lives: a window of 1.5s is a TTL of 1s.
Lifetime(s) == IF driver = "memory" THEN Window[s] ELSE formatSec(Window[s])

\* When a bucket created, or in redis touched, at time now goes away.
expiresAt(b, now) == now + Lifetime(b[1])

Put(f, b, e) == [x \in DOMAIN f \union {b} |-> IF x = b THEN e ELSE f[x]]
Without(f, S) == [x \in DOMAIN f \ S |-> f[x]]

\* !ok || now.After(b.expiresAt)
Live(b, now) ==
  /\ b \in DOMAIN buckets
  /\ IF driver = "memory" THEN now <= buckets[b].expiresAt
                          ELSE now < buckets[b].expiresAt

valueAt(b, now) == IF Live(b, now) THEN buckets[b].value ELSE 0

Answer(c, pc, v) == op' = [op EXCEPT ![c].pc = pc, ![c].value = v]

(***************************************************************************)
(* A call, up to and including the isClosed test.                          *)
(***************************************************************************)
Begin(c, kind, s) ==
  /\ op[c].pc = "idle"
  /\ kind = "Incr" => issued[s] < MaxIncrs[driver]
  /\ op' = [op EXCEPT ![c] = [pc |-> "check", kind |-> kind, series |-> s,
                              now |-> 0, sends |-> 0, value |-> 0]]
  /\ issued' = IF kind = "Incr" THEN [issued EXCEPT ![s] = @ + 1] ELSE issued
  /\ UNCHANGED <<driver, buckets, lastSweep, closed, clock, counted, lastIncr>>

isClosed(c) ==
  /\ op[c].pc = "check"
  /\ op' = [op EXCEPT ![c].pc = IF closed THEN "closed" ELSE "body",
                      ![c].now = IF driver = "redis" THEN clock ELSE @]
  /\ UNCHANGED <<driver, buckets, lastSweep, closed, clock, counted, issued, lastIncr>>

\* The caller takes the answer.
Return(c) ==
  /\ op[c].pc \in Outcomes
  /\ op' = [op EXCEPT ![c] = Idle]
  /\ UNCHANGED <<driver, buckets, lastSweep, closed, clock, counted, issued, lastIncr>>

(***************************************************************************)
(* memory                                                                  *)
(***************************************************************************)
\* Fault: the sweep measures a bucket's age from the start of its window.
FaultSweepByStart(now) ==
  IF now - lastSweep < SweepInterval
  THEN buckets
  ELSE Without(buckets, {b \in DOMAIN buckets : now > b[2]})

\* Fault: the sweep never deletes.
FaultSweepKeeps(now) == buckets

\* sweepLocked: the buckets it leaves.
sweepLocked(now) ==
  IF now - lastSweep < SweepInterval
  THEN buckets
  ELSE Without(buckets, {b \in DOMAIN buckets : now > buckets[b].expiresAt})

sweepTime(now) == IF now - lastSweep < SweepInterval THEN lastSweep ELSE now

\* The map is nil after Close: a bucket that has to be created panics, and
\* after Close every bucket has to be.
MemoryIncr(c) ==
  LET s == op[c].series
      b == bucketKey(s, clock)
      swept == sweepLocked(clock)
      fresh == b \notin DOMAIN swept \/ ~Live(b, clock)
  IN  /\ driver = "memory"
      /\ op[c].pc = "body" /\ op[c].kind = "Incr"
      /\ lastSweep' = sweepTime(clock)
      /\ IF closed
         THEN /\ Answer(c, "panic", 0)
              /\ UNCHANGED <<buckets, counted, lastIncr>>
         ELSE /\ buckets' = Put(swept, b,
                   IF fresh THEN [value |-> 1, expiresAt |-> expiresAt(b, clock)]
                            ELSE [swept[b] EXCEPT !.value = @ + 1])
              /\ Answer(c, "ok", buckets'[b].value)
              /\ counted' = [counted EXCEPT ![b] = @ + 1]
              /\ lastIncr' = clock
      /\ UNCHANGED <<driver, closed, clock, issued>>

MemoryGet(c) ==
  /\ driver = "memory"
  /\ op[c].pc = "body" /\ op[c].kind = "Get"
  /\ Answer(c, "ok", valueAt(bucketKey(op[c].series, clock), clock))
  /\ UNCHANGED <<driver, buckets, lastSweep, closed, clock, counted, issued, lastIncr>>

MemoryReset(c) ==
  LET b == bucketKey(op[c].series, clock)
  IN  /\ driver = "memory"
      /\ op[c].pc = "body" /\ op[c].kind = "Reset"
      /\ buckets' = Without(buckets, {b})
      /\ counted' = [counted EXCEPT ![b] = 0]
      /\ Answer(c, "ok", 0)
      /\ UNCHANGED <<driver, lastSweep, closed, clock, issued, lastIncr>>

(***************************************************************************)
(* redis: the command reaches the server, and its reply the client, or     *)
(* not. The client sends a command again when the connection fails.        *)
(***************************************************************************)
\* Where a call stands when the reply to its command is lost.
AfterLoss == {"body", "error"}

CanSend(c, kind) ==
  /\ driver = "redis"
  /\ op[c].pc = "body" /\ op[c].kind = kind
  /\ op[c].sends < MaxSends

Reply(c, pc, v) ==
  op' = [op EXCEPT ![c].pc = pc, ![c].value = v, ![c].sends = @ + 1]

\* MULTI; INCR; EXPIRE window; EXEC.
RedisIncr(c, pc) ==
  LET b == bucketKey(op[c].series, op[c].now)
      v == valueAt(b, clock) + 1
  IN  /\ CanSend(c, "Incr")
      /\ buckets' = Put(buckets, b, [value |-> v, expiresAt |-> expiresAt(b, clock)])
      /\ counted' = IF pc = "ok" THEN [counted EXCEPT ![b] = @ + 1] ELSE counted
      /\ lastIncr' = clock
      /\ Reply(c, pc, v)
      /\ UNCHANGED <<driver, lastSweep, closed, clock, issued>>

\* GET; redis.Nil reads as 0.
RedisGet(c) ==
  /\ CanSend(c, "Get")
  /\ Reply(c, "ok", valueAt(bucketKey(op[c].series, op[c].now), clock))
  /\ UNCHANGED <<driver, buckets, lastSweep, closed, clock, counted, issued, lastIncr>>

RedisReset(c, pc) ==
  LET b == bucketKey(op[c].series, op[c].now)
  IN  /\ CanSend(c, "Reset")
      /\ buckets' = Without(buckets, {b})
      /\ counted' = [counted EXCEPT ![b] = 0]
      /\ Reply(c, pc, 0)
      /\ UNCHANGED <<driver, lastSweep, closed, clock, issued, lastIncr>>

\* The command does not run: no connection, or the last retry is over.
RedisError(c) ==
  /\ driver = "redis"
  /\ op[c].pc = "body"
  /\ Answer(c, "error", 0)
  /\ UNCHANGED <<driver, buckets, lastSweep, closed, clock, counted, issued, lastIncr>>

\* The server drops a key whose TTL is over.
RedisEvict ==
  /\ driver = "redis"
  /\ \E b \in DOMAIN buckets :
       /\ ~Live(b, clock)
       /\ buckets' = Without(buckets, {b})
  /\ UNCHANGED <<driver, lastSweep, closed, clock, op, counted, issued, lastIncr>>

(***************************************************************************)
(* Close, and the passage of time.                                         *)
(***************************************************************************)
Close ==
  /\ ~closed
  /\ closed' = TRUE
  /\ buckets' = IF driver = "memory" THEN NoBuckets ELSE buckets
  /\ UNCHANGED <<driver, lastSweep, clock, op, counted, issued, lastIncr>>

Tick ==
  /\ clock < Horizon[driver]
  /\ clock' = clock + 1
  /\ UNCHANGED <<driver, buckets, lastSweep, closed, op, counted, issued, lastIncr>>

\* A fresh store has the zero lastSweep, so its first Incr sweeps.
Init ==
  /\ driver \in Drivers
  /\ buckets = NoBuckets
  /\ lastSweep = -SweepInterval
  /\ closed = FALSE
  /\ clock = 0
  /\ op = [c \in Callers |-> Idle]
  /\ counted = [b \in Slot |-> 0]
  /\ issued = [s \in Series |-> 0]
  /\ lastIncr = 0

\* What happens inside a call that has been made.
Serve(c) ==
  \/ isClosed(c)
  \/ MemoryIncr(c) \/ MemoryGet(c) \/ MemoryReset(c)
  \/ \E pc \in AfterLoss \union {"ok"} : RedisIncr(c, pc)
  \/ \E pc \in AfterLoss \union {"ok"} : RedisReset(c, pc)
  \/ RedisGet(c) \/ RedisError(c)

Environment == RedisEvict \/ Tick

Next ==
  \/ \E c \in Callers, kind \in Kinds, s \in Series : Begin(c, kind, s)
  \/ \E c \in Callers : Serve(c) \/ Return(c)
  \/ Close
  \/ Environment

Spec == Init /\ [][Next]_counterVars

-----------------------------------------------------------------------------
(***************************************************************************)
(* Properties                                                              *)
(***************************************************************************)
\* Every variable has its type; a resident bucket is that of a whole window,
\* the one bucketKey names.
TypeOK ==
  /\ driver \in Drivers
  /\ DOMAIN buckets \subseteq Slot
  /\ \A b \in DOMAIN buckets : b[2] % Window[b[1]] = 0
  /\ \A b \in DOMAIN buckets : buckets[b] \in Bucket
  /\ lastSweep \in Int
  /\ closed \in BOOLEAN
  /\ clock \in Time
  /\ op \in [Callers -> Op \union {Idle}]
  /\ counted \in [Slot -> Nat]
  /\ issued \in [Series -> Nat]
  /\ lastIncr \in Time

\* The window of slot b has not lasted a bucket's lifetime yet.
Open(b) == clock < b[2] + Lifetime(b[1])

\* A bucket of series s lives as long as its window: with redis, windows of
\* whole seconds or of less than one.
Lasting(s) == Window[s] <= Lifetime(s)

\* Within its window a count is never lost: what Get reads for the current
\* window is at least every increment acknowledged in it, whatever the sweep,
\* the TTL, late redis commands or other callers do ("that would silently
\* reset a rate limit mid-flight", memory_test.go). The memory driver, which
\* cannot lose a reply, counts exactly. A redis window of more than a second
\* that is not whole seconds is the exception: counter.go:48 gives its bucket
\* a TTL without the fraction, so only the first Lifetime of it is safe.
CountsKept ==
  ~closed => \A s \in Series :
    LET b == bucketKey(s, clock)
    IN  Lasting(s) \/ Open(b) =>
          IF driver = "memory" THEN valueAt(b, clock) = counted[b]
                               ELSE valueAt(b, clock) >= counted[b]

\* The memory driver holds a bucket that is over for less than a sweep
\* interval of traffic: what the last Incr left behind had not been expired
\* for a whole interval then.
ResidueBounded ==
  driver = "memory" =>
    \A b \in DOMAIN buckets : lastIncr - buckets[b].expiresAt < SweepInterval
=============================================================================
