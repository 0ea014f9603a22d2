# Garmr: TLA+ models, model checking and proofs

Garmr (`src/`) is the backend of an Nginx `auth_request`: for every download
it decides, from a proof-of-work token, a usage record, a per-client limiter
and a chain of risk rules, whether the request passes. This directory models
its stateful parts in TLA+, checks them with TLC on small instances, and proves
the central ones with TLAPS for every value of their parameters.
`PROJECT.json` maps every definition to the lines it models.

## 1. The system

| Part | State it keeps | Operations | Shared with |
|---|---|---|---|
| Pending limiter, `internal/risk/pending.go` | a map from client address to pending count and block time, time of the last sweep, closed | Enter, release, Close | all request goroutines, one mutex |
| Usage store, `internal/storage/{memory,postgres,redis}` | one record per sign id: uses, first address, expiry | Consume, Get, CleanupExpired, Close | all requests, the cleanup loop, other replicas through the backend |
| Auth service, `internal/auth` | none of its own between requests; per request the classification of the token and the verdict | Verify | calls limiter, risk engine, usage store |
| Counter store, `internal/storage/{memory,redis}/counter.go` | one bucket per series and window | Incr, Get, Reset, Close | all requests |
| Risk engine, `internal/risk` | rule sets (fixed), per evaluation the call stack, marks and the counter cache | Evaluate, IncrementForRequest | reads and increments the counter store |
| Rule validation, `internal/config/validate.go` | the colours of the depth-first search | checkRiskControl, detectCycles | decides whether the engine ever sees a rule set |
| Configuration store, `internal/configstore`, `internal/configctl`, `cmd/garmr` | the active file, one `.yaml` and one `.json` per revision; in the process, text and revision | open, edit, rollback, Apply | the operator's editor, the file system |
| Secret redaction, merge and diff, `internal/configctl/secret.go`, `manager.go` | none; functions of YAML texts | RedactYAML, MergeSecrets, Diff, ValidateYAML | called by `config edit`, `config diff` and `config rollback` |
| Lifecycle, `internal/app`, `cmd/server`, `internal/transport/echo/server.go` | which components are open, the HTTP server, the signal channel, the cleanup loop | start, signal, Shutdown, cleanup loop | all of the above |

What is hard in it:

* **Concurrency.** Every request is a goroutine. The limiter runs each call
  under its mutex, but `memory.UsageStore` tests `isClosed` and does its work in
  two critical sections, first-use binding is a read and a later write, and the
  counters are read before and incremented after a verdict.
* **Time.** A token validated before it expires is charged later; cleanup and
  Redis TTLs delete records meanwhile. Blocks, windows and sweeps are decided by
  comparing times.
* **Failure.** Backends fail, lose the reply of a command that ran, or are
  retried by the client library; garmr can be killed between any two file
  operations; Shutdown closes components under running requests; the memory
  drivers forget with the process; a signal can come before the server exists.
* **Every path.** `Verify` has some twenty returns; each must give the slot
  back, and each allow on the strength of a generic token must be charged.

What makes each part correct: the limiter counts exactly what is in flight and
blocks for exactly its TTL; a store never grants a token more than `max_uses`;
no allow without a good token, no allow uncharged; a counter loses nothing
while its bucket lives and the maps do not grow; an evaluation of a validated rule set ends
in its declarative meaning; the history of revisions and the active file agree
through failures; a secret survives a round trip through the editor; nobody uses
a store that Shutdown closed. `PROJECT.json` lists the hazards at their lines, with the
properties aimed at them.

## 2. The modules

```
PendingBlocker ----------------------+
                                     +--> AuthService --> MCAuthService
UsageStore --implements--> UsageQuota|
     +-------------------------------+
CounterStore --+
               +--> RiskEngine --> MCRiskEngine
ChainCycles  --+
ConfigSecrets --> ConfigStore --> MCConfigStore
Lifecycle --> MCLifecycle

theorems: PendingBlocker_proofs --+
          UsageStore_proofs ------+--> AuthService_proofs
          ConfigSecrets_proofs --> ConfigStore_proofs
          CounterStore_proofs --> RiskEngine_proofs
          Lifecycle_proofs
```

**PendingBlocker.** `entries` is `b.entries`, a function on the addresses that
have an entry; `lastSweep`, `closed` and `clock` are the fields of the same
name and `b.now()`. The clock starts at 1 so that 0 is Go's zero time.
`Enter` is the disjunction of the returns of `Enter` in their order
(`EnterUnlimited`, `EnterClosed`, `EnterBlocked`, `EnterOverflow`,
`EnterAdmitted`); the sweep and the expiry it begins with are part of each.
`release` is one step per admitted request. `verdict` and `from` say where each
request stands, `overflowAt` is a history of overflows.

**UsageQuota, UsageStore.** `UsageQuota` is the promise of the interface: an id
is granted at most `Limit[id]` uses, only while a validated call can still be
under way, and only a store in process memory may forget. `UsageStore` is the
three drivers. A call goes through the steps at which others can act:
validation of the token, the `isClosed` test, the body (one critical section,
one SQL statement, one Lua script), for Postgres a second statement. The
backend may fail, or execute and lose its reply. `CleanupStart` computes the
threshold and `CleanupExpired` deletes later; `RedisEvict` is the TTL;
`Restart` ends the process. `granted` and `charged` are histories.

**AuthService.** One goroutine per request, from `Begin` to `Finish`, over
instances of `PendingBlocker` and `UsageStore` whose steps it takes as its own.
A token is a mode, an address, times, and the first validation step it fails;
encoding, hashing and difficulty are abstracted to that. The risk engine may
give any verdict, or fail. `Shutdown` closes limiter and store in the order of
`App.Shutdown`, after its timeout also under running requests. Its `phase`
starts with a server that listens; a signal before that is in `Lifecycle`.

**CounterStore.** Aligned fixed windows as `bucketKey` computes them. The memory
driver sweeps in `Incr`; the redis driver computes its key from the time it
read, its command may be delayed, retried, or lose its reply. The window of a
redis bucket becomes its TTL, which go-redis sends in whole seconds: one for
less than a second, else without the fraction (`formatSec`, with `Second` ticks
of the model's clock to a second; the library is outside the repository and
modelled from its documented behaviour). `Lasting` names the series whose
bucket lives as long as its window.

**ChainCycles, RiskEngine.** `ChainCycles` is `detectCycles` as a search with a
stack and three colours, over the rules of a rule set, in every order Go's map
iteration can choose; a step looks at one rule (`Follow` a JUMP, `Skip`
another). `RiskEngine` validates a rule set with it, then evaluates
requests: a stack of frames for the recursion of `evalChain`, the cache of
`cachingResolver`, the increments after the verdict. Counter accesses are calls
of `CounterStore`, so other requests act between them. `Meaning` is the
declarative verdict of a rule set, an equation between its chains: the verdict
of a chain is that of its first matching rule that decides, for a JUMP the
verdict of the chain it leads to.

**ConfigSecrets, ConfigStore.** A configuration text is its YAML tree, a
function from paths to "mapping", "null" or a scalar. `ConfigSecrets` has what
happens to one between the file and the file: `redactNode`, the merge
(`removed`, `illegal` are its refusals), `ValidateYAML` with the storage rules
that read a secret, `diffValue` and `classifyChange`. `ConfigStore` has the
active file, the revision texts and their metadata, and what a garmr process
knows. `Edit` is one pass of the loop of `configEdit`: validate the text with
its placeholders, merge, diff. Each file operation is a step and may fail; the
process may be killed between any two; an editor may save the active file.
`committed`, `debris`, `external` and `window` are histories: what was reported
written, what was cut short, who wrote the active file last, and whether an
editor did so inside an Apply.

**Lifecycle.** The goroutines of one process: `main` (a program counter through
`run`, `build` and `buildStorage`), the one that serves, the signal handler
(which, once it has a signal, is `App.Shutdown`), the cleanup loop, and the
requests. `res` says of every resource whether it is absent, open or closed.
The process ends when `main` returns, whatever the others are doing. The read
of `httpServer` in `Server.Shutdown` races with its write in `Server.Start`:
until the server listens, either value is seen.

## 3. What the runs check

Bounds are CONSTANTs of the `.cfg` files and `MC*` modules; each cuts off only
repetition.

| Run | Instance | Checks |
|---|---|---|
| `pending` | 3 requests, 2 clients, 4 spellings (one malformed), limit 2, block 2, sweep every 3, arrivals until 6, clock to 9 | the counts are the requests in flight; limit; a block lasts exactly its TTL and is not restarted; refusals have a cause; sweeps leave nothing dead; once arrivals stop everyone can enter again |
| `usage` | 3 drivers, 2 concurrent callers calling repeatedly, 1 token with 2 uses expiring at 3, grace 2, clock to 7 | the inductive invariant, the refinement of `UsageQuota`, refusals only of spent tokens, no vanished row, stable first address |
| `auth` | 2 goroutines, redis, 8 kinds of request, one token that expires at 1 and others at 2, clock to 2, 6 configurations covering every switch | quota on every allow path, slots and limit, allows justified |
| `auth_live` | 2 goroutines, memory store, one empty-IP token from 2 clients, shutdown under requests | late arrivals are bound to one client; every request ends |
| `config` | one process at a time, 3 texts an operator saves, 6 texts a user leaves in the editor, 4 revisions | history and opening; the active text is recorded; secrets survive, nothing slips in, changes of secrets are flagged; publications validate and overwrite only what can be got back |
| `lifecycle` | 24 configurations, 2 requests, 2 signals | stores outlive their users; started as configured; a signal ends the process |
| `counters` | 2 callers of one of 2 counters, with windows of a second (2 ticks) and a second and a half (3 ticks, TTL 2 in redis), sweep every 2; memory to time 8, redis to 4 | counts kept, expired buckets reclaimed |
| `risk` | 7 rule sets (with and without cycles, unknown targets, an INPUT chain), 2 goroutines, 3 requests, limit 1, both counter drivers | cycles, evaluations, verdicts, overshoot |

Why the bounds suffice. The limiter's rules are per client and compare a count
with the limit: three requests are needed to overflow a limit of 2, the second
client shows that addresses do not interfere, and the clock covers two blocks
and two sweeps. In the usage store the clock covers validity, the grace period
and deletion; two uses and two callers meet at the last use. Two goroutines are
enough for every pairwise race of `Verify`; one token has expired by more than
the lag of a call before the run ends.
The counters pass four windows, and a redis TTL ends inside one of 1.5 seconds.
The state constraint `OneSeries` lets a behaviour use one of the two counters,
which share nothing but the sweep. Four revisions hold a bootstrap, an external
edit, an apply and a rollback, with debris in between; the texts keep, clear,
overwrite and remove one secret, its section, and leave the section without a
value, which are the cases the merge and the diff tell apart. Two signals are
the one that is read and the one that is not. The clocks stop at
`MaxTime`; `Terminated` marks that end where a run checks deadlock, so
that any other stop is an error.

Four runs expect a violation. Each states what the repository says and shows
that the code does otherwise:

* `usage_panic`: a `Consume` of the memory store that overlaps `Close` writes
  to a nil map. The tests demand "no panic, ErrClosed after close".
* `auth_unbound`: with Postgres (and Redis) the binding of an empty-IP token is
  never written, because `SkipConsume` only reads; any later address passes.
* `config_edit`: switching the driver to postgres while the DSN is empty or has no
  value passes validation, because `${SECRET:KEEP}` is not empty, and the merged text, which
  the service refuses to load, is published.
* `lifecycle_exit`: `main` returns as soon as Shutdown closes the listener, so
  the process ends with requests in flight, without waiting `shutdown_timeout`.

Exceptions that a property of a passing run names are also behaviours of the
code: the window in `OverwritesRecoverable` (an editor's save inside an Apply is
lost), sections that come or go whole in `SecretsSurvive` and
`SecretChangesFlagged`, a key without a value in `NothingSlipsIn`, a secret that
is empty or no scalar in `PublishedValidates`, a redis window of more than a
second that is not whole seconds in `CountsKept` and `OvershootBounded`
(`redis/counter.go:48` sets a TTL of 1s for a window of 1.5s, which
`validate.go:205` accepts, so after a second the count of a client may be gone
and its limit starts again; the windows of the example configuration are whole
minutes and hours), and `unseen` in the properties of `Lifecycle` (a signal
before the server exists closes the stores, and the server then comes up
without them). Two more were met while
modelling and have no run: two first requests with one empty-IP token are both
let through (`bindEmptyIPFirstUse` reads, then writes, although the token is
bound "to the IP of the FIRST request"), and in dry-run mode the REJECT and
TOO_MANY of the risk engine still deny (`runRiskEngine` returns without
`maybeDryRun`). `AuthService` has both as the code has them.

Every property of a passing run has a fault: an operator named `Fault...` next
to the definition it could replace, a plausible mistake in that code, under
which TLC finds the property violated.

**Fairness.** `FairSpec` of `PendingBlocker` assumes that time passes and that
each admitted request eventually runs its deferred `release`. `FairSpec` of
`AuthService` assumes that a goroutine whose next step is possible takes it
(Go's scheduler runs every runnable goroutine) and that a backend call answers
or fails (the clients of Postgres and Redis have timeouts, and the request
context is cancelled with its connection). Nothing is assumed of arrivals,
cleanup or Shutdown. `FairSpec` of `Lifecycle` assumes that `main`, the serving
goroutine, the handler and the cleanup loop run when they can. The loop's
return competes with its ticks in a `select`, which picks at random among what
is ready, and a tick is ready once per interval: hence strong fairness there.

## 4. What is proved

Every theorem holds for all values of the constants that the named assumptions
of the modules allow, where TLC checks one instance. Each proof has the same
shape: an inductive invariant, one lemma per action that it is preserved, and
the property as a consequence. The invariants were checked with TLC before they
were proved.

`PendingBlocker_proofs`, for every finite set of clients, spellings and
requests, every limit, TTL and interval. The limit and the block time are not
inductive alone: `BlockerInv` adds that an admitted request has an address,
that the count of an entry is the cardinality of its holders, and `BlockShape`,
which says where `autoBlockedUntil` lies relative to the last overflow so that
a tick keeps `BlockIsFixed`. Cardinality lemmas give the effect of one request
entering or leaving. From it: all safety properties of the run `pending`.

`UsageStore_proofs`, for every set of calls, ids, addresses and drivers.
`StoreInv` is inductive: a call does not outlive `MaxLag` (`LagKept`), a record
holds exactly the uses charged and an id without record has none while it can
still be charged (`RecordsExact`), and a running cleanup or a TTL stays behind
the grace period (`EvictionSafe`). From it `StoreCorrect`, and
`QuotaImplemented`, the refinement of `UsageQuota`: every step is a grant, a
forgetting, a tick or a stutter of the abstract quota. `AnswerInv` adds what an
answer in hand still says about the store (`Refused`), which gives
`RefusalsEarned` and `RecordsStay`. `FirstIPsStable` is an action property.

`AuthService_proofs`, for every configuration, set of tokens, clients and
requests. `AuthInv` joins the invariants of limiter and store with three facts
about each request: it holds a slot exactly while Verify works on it
(`SlotHeld`), its classification agrees with its token and the clock
(`TokenSound`), and its call of the store fits the step it is at (`CallFits`);
and with `Accounts`, honoured uses are charged uses. `ComponentSteps` shows that every
step of the service is a step or a stutter of the limiter and of the store, so
their invariants carry over by their own theorems: this is
`ComponentsRespected`, and `QuotaKept` is the abstract quota for the service as
a whole. From `AuthInv`: `TypeCorrect`, `HonouredInQuota`, `SlotsMatch`,
`InFlightIsBounded`, `AllowsJustified`. `LateArrivalsAreBound` needs a second
invariant, that a binding once answered stays on record until its token
expires, and holds for the memory driver; for the other two the run
`auth_unbound` shows the opposite.

`CounterStore_proofs`: a window is open (`Open`) for the lifetime of a bucket,
counted from its start. `CounterInv` says that an open bucket has counted
exactly (memory) or at least (redis) the acknowledged increments of its window,
and that no sweep or TTL reaches a bucket whose window is open: a command comes
after the start of the window its key names, so its TTL ends after the window's
open part. From it `TypeCorrect`, `CountsAreKept`, `ResidueIsBounded`. Where a
series lasts its window is open to the end (`LastingIsOpen`), and the series
that last are those of the memory driver and the redis windows of whole seconds
or less than one (`WholeSecondsLast`); of any other redis window only the whole
seconds at its start are covered.

`ConfigSecrets_proofs` has the lemmas about redaction, merge and diff as
operators, and `RoundTrip`: what `config edit` shows, saved unchanged, merges
back into the text it was made from. The hypothesis on `b` says that a text
holds no placeholder outside the secret paths. `ConfigStore_proofs` uses them:
`ConfigInv` says of every process which stage it is at and what it knows of the
files (`Stage`, `Content`), of the history which revisions are reported, in
progress or left over (`Ledger`). From it all eight properties of the run
`config`. Clean texts and a single process at a time (`SingleInstance`, what
`store.go:114` says of the store) are assumptions.

`RiskEngine_proofs`, for every rule set over typed rules, every counter
configuration and number of goroutines, in four parts.
*Search*: `SearchInv` says that the gray chains are exactly those on the stack
of visits until a cycle is reported, that each visit stands behind a JUMP to the
next, and that black chains jump to black chains only and hold no cycle among
them. At the end all chains are black, hence `CyclesAreFound`. After a report
the visits leave gray chains behind; all that is claimed then is that there is a
cycle. *Evaluation*: the frames of an evaluation are a path
of JUMPs (`Called`), and a path that met a chain twice would be a set of chains
each jumping into the set, which validation refused. So no chain is visited
twice (`Walk`), the depth limit never decides, and `EngineInv`, which joins this
with `SearchInv` and the invariant of `CounterStore_proofs`, is inductive:
`TypeCorrect`, `EvaluationsSound`. *Overshoot*: `OvershootBounded` is not
inductive. A request that read a counter under its limit owes it an increment
until the increment is done or fails (`Owes`); in an open window the requests
that got by are at most the increments acknowledged, those missed, and the
goroutines that owe one (`Owed`). A read sees at least the acknowledged
increments (`CountsAreKept`), so one under the limit leaves room for the
increments of the others only: `OvershootIsBounded`. The read must find the
bucket alive, so the bound is for counters that last (`Lasting`); the account of
who owes an increment needs no such condition. *Verdict*: without a cycle
every set of chains has one that does not jump into it (`Escapes`), which gives
existence and uniqueness of a solution of the equation of `Meaning`
(`SolutionAt`, `SolutionsAgree`) without an induction over data. `VerdictInv`
then says of an evaluation that lost no read that in each frame the rules passed
do not decide and the JUMP it waits at does, whatever counters are still to be
read (`Settled`), and that a decision in hand is the meaning of the chain it
comes from: `VerdictsAgree`.

`Lifecycle_proofs`: `LifecycleInv` says what exists at each step of `build`
(`BuiltAlone`) and what is already stopped at each step of `App.Shutdown`
(`Staged`). From it `TypeCorrect`, `StoresOutlive`, `StartsAsConfigured`.

The assumptions are named in the modules. The one a reader should question is
`LagAssumption` (in `AuthService` a conjunct of `StoreAssumption`):
`MaxLag <= Grace`, no call takes longer from validation to charge than the
grace period the store keeps a record. The code relies on it (default grace
against server and backend timeouts) and does not enforce it. The other
assumptions of `AuthService` are those of the two components, for the constants
it passes them.

Only model-checked: liveness (`Recovers`, `EveryRequestEnds`,
`SignalEndsProcess`), which needs fairness and ENABLED, beyond the prover.
`LateArrivalsBound` has no theorem for redis and postgres because it is false
there. Every other property of a passing run is a theorem.

## 5. What is not modelled

Path matching, token encoding, hashing and difficulty (pure functions of
strings, abstracted to their outcome); parsing and defaults of the
configuration and its per-field validation, except the rules `ConfigSecrets`
needs; comments, order and layout of a configuration text; environment
variables that override it; headers, traces, metrics and logs; the middleware
of the HTTP layer, whose recovery from a panic is an answer in `AuthService`;
deployment files. The draft API of the configuration store
(`SaveDraft`, `MarkDraftValidated`, `DiscardDraft`) is called by its tests
only. Two garmr processes at once are left out, because the store calls itself
single-instance (`store.go:114`); they would write the same revision number.
Several replicas on one backend appear only as what they do to it: a lost
reply, a record another caller charged.

## 6. Plan

Done: all the modules of section 2, and the proofs of section 4.

Left: the three hazards of `PROJECT.json` without a property (the id reported for
an empty-IP token, dry-run's exceptions, the width of a rate), which concern
header values the models leave out; the liveness properties stay with TLC.
