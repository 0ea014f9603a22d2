------------------------------ MODULE Lifecycle ------------------------------
(***************************************************************************)
(* The life of a service process: cmd/server's run, app.build, App.Start,  *)
(* App.Shutdown, the cleanup loop, and the echo Server they start and stop.*)
(*                                                                         *)
(* Goroutines: main, the one that Start spawns to serve, the one that      *)
(* waits for a signal and runs Shutdown, the cleanup loop, one per         *)
(* request.  The process ends when main returns, whatever the others do.   *)
(***************************************************************************)
EXTENDS Integers, FiniteSets

CONSTANTS
  Requests,    \* request goroutines
  Configs,     \* the configurations a process may be started with
  MaxSignals   \* bound: SIGINT and SIGTERM sent to the process

\* pending: the limiter is built, i.e. risk_control and its pending are on.
Config == [driver : {"memory", "postgres", "redis"}, counters : {"memory", "redis"},
           pending : BOOLEAN, cleanup : BOOLEAN]

ASSUME ConfigAssumption == Configs # {} /\ Configs \subseteq Config
ASSUME SignalAssumption == MaxSignals \in Nat

\* What build opens and Shutdown closes.
Resources == {"redis", "postgres", "usage", "counters", "pending"}

VARIABLES
  cfg,
  proc,      \* "running", or how the process ended
  main,      \* where main is
  res,       \* per resource: "absent", "open", "closed"
  counterDriver,  \* the counter store that was built
  server,    \* the serving goroutine; httpServer is nil up to "starting"
  closing,   \* has http.Server.Shutdown begun?
  errs,      \* the channel Start waits on
  sigCh,     \* signals in the channel of capacity 1
  sent,      \* signals sent so far
  handler,   \* the signal goroutine; at a resource, it is about to close it
  stop,      \* is the context of the cleanup loop cancelled?
  cleanup,   \* the cleanup loop; "refresh" and "cleaning" are store calls
  req,       \* per request goroutine, "idle" or "serving"
  timedOut,  \* history: the drain gave up on running requests
  unseen     \* history: Shutdown found no server to shut down

building == <<cfg, res, counterDriver>>
serving == <<server, closing, errs>>
stopping == <<sigCh, sent, handler>>
loop == <<stop, cleanup>>
drain == <<timedOut, unseen>>
vars == <<building, proc, main, serving, stopping, loop, req, drain>>

Running == proc = "running"

(***************************************************************************)
(* main: load, build, Start.                                               *)
(***************************************************************************)
\* Returning from main ends the process, with an exit code.
Return(how) == proc' = how /\ UNCHANGED main

Continue(pc) == main' = pc /\ UNCHANGED proc

\* A configuration that does not load is exit code 2.  The logger and the
\* path matchers are built before anything is open.
Load ==
  /\ Running /\ main = "load"
  /\ Return("badConfig") \/ Return("failed") \/ Continue("redis")
  /\ UNCHANGED <<building, serving, stopping, loop, req, drain>>

needRedis == "redis" \in {cfg.driver, cfg.counters}

\* Fault: a usage store on redis starts without it as the counters do.
FaultPingNotFatal ==
  /\ Running /\ main = "redis"
  /\ \/ Continue("stores") /\ UNCHANGED res
     \/ needRedis /\ Continue("stores") /\ res' = [res EXCEPT !["redis"] = "open"]
  /\ UNCHANGED <<cfg, counterDriver, serving, stopping, loop, req, drain>>

\* Redis is pinged.  Usage records are authoritative, so their store must
\* have it; counters do without.
DialRedis ==
  /\ Running /\ main = "redis"
  /\ \/ ~needRedis /\ Continue("stores") /\ UNCHANGED res
     \/ needRedis /\ Continue("stores") /\ res' = [res EXCEPT !["redis"] = "open"]
     \/ needRedis /\ cfg.driver # "redis" /\ Continue("stores") /\ UNCHANGED res
     \/ cfg.driver = "redis" /\ Return("failed") /\ UNCHANGED res
  /\ UNCHANGED <<cfg, counterDriver, serving, stopping, loop, req, drain>>

Close(r, S) == [x \in Resources |-> IF x \in S /\ r[x] = "open" THEN "closed" ELSE r[x]]

OpenStores ==
  /\ Running /\ main = "stores"
  /\ \/ /\ cfg.driver = "postgres"
        /\ res' = Close(res, {"redis"})
        /\ Return("failed")
        /\ UNCHANGED counterDriver
     \/ /\ res' = [x \in Resources |->
                     IF x \in {"usage", "counters"} \/ (x = "postgres" /\ cfg.driver = "postgres")
                       THEN "open" ELSE res[x]]
        /\ counterDriver' = IF res["redis"] = "open" THEN cfg.counters ELSE "memory"
        /\ Continue("services")
  /\ UNCHANGED <<cfg, serving, stopping, loop, req, drain>>

\* The limiter, the risk engine, the auth service; the cleanup loop starts.
\* A failure closes what was opened, except the redis client.
BuildServices ==
  /\ Running /\ main = "services"
  /\ \/ /\ Return("failed")
        /\ res' = Close(res, {"usage", "counters", "postgres"})
        /\ UNCHANGED cleanup
     \/ /\ Continue("notify")
        /\ res' = IF cfg.pending THEN [res EXCEPT !["pending"] = "open"] ELSE res
        /\ cleanup' = IF cfg.cleanup THEN "refresh" ELSE "none"
  /\ UNCHANGED <<cfg, counterDriver, serving, stopping, stop, req, drain>>

Notify ==
  /\ Running /\ main = "notify"
  /\ Continue("start")
  /\ handler' = "waiting"
  /\ UNCHANGED <<building, serving, sigCh, sent, loop, req, drain>>

Start ==
  /\ Running /\ main = "start"
  /\ Continue("wait")
  /\ server' = "starting"
  /\ UNCHANGED <<building, closing, errs, stopping, loop, req, drain>>

\* Start returns what the serving goroutine sent, and so does main.
MainReturns ==
  /\ Running /\ main = "wait"
  /\ errs # "empty"
  /\ Return(IF errs = "ErrServerClosed" THEN "ok" ELSE "failed")
  /\ UNCHANGED <<building, serving, stopping, loop, req, drain>>

(***************************************************************************)
(* The serving goroutine: Server.Start.                                    *)
(***************************************************************************)
CreateServer ==
  /\ Running /\ server = "starting"
  /\ server' = "created"
  /\ UNCHANGED <<building, proc, main, closing, errs, stopping, loop, req, drain>>

\* The address may be in use.
Listen ==
  /\ Running /\ server = "created"
  /\ \/ ~closing /\ server' = "listening" /\ UNCHANGED errs
     \/ ~closing /\ server' = "returned" /\ errs' = "error"
     \/ closing /\ server' = "returned" /\ errs' = "ErrServerClosed"
  /\ UNCHANGED <<building, proc, main, closing, stopping, loop, req, drain>>

\* ListenAndServe returns as soon as the listener is closed, which is the
\* first thing http.Server.Shutdown does.
ServeReturns ==
  /\ Running /\ server = "listening" /\ closing
  /\ server' = "returned" /\ errs' = "ErrServerClosed"
  /\ UNCHANGED <<building, proc, main, closing, stopping, loop, req, drain>>

Arrive(r) ==
  /\ Running /\ server = "listening" /\ ~closing
  /\ req[r] = "idle"
  /\ req' = [req EXCEPT ![r] = "serving"]
  /\ UNCHANGED <<building, proc, main, serving, stopping, loop, drain>>

Answer(r) ==
  /\ Running /\ req[r] = "serving"
  /\ req' = [req EXCEPT ![r] = "idle"]
  /\ UNCHANGED <<building, proc, main, serving, stopping, loop, drain>>

(***************************************************************************)
(* The cleanup loop.  Redis has no count to refresh: there "refresh" calls *)
(* nothing.                                                                *)
(***************************************************************************)
CleanupStep ==
  /\ Running
  /\ \/ cleanup = "idle" /\ cleanup' = "cleaning"
     \/ cleanup = "cleaning" /\ cleanup' \in {"refresh", "idle"}
     \/ cleanup = "refresh" /\ cleanup' = "idle"
  /\ UNCHANGED <<building, proc, main, serving, stopping, stop, req, drain>>

CleanupReturns ==
  /\ Running
  /\ cleanup = "idle" /\ stop
  /\ cleanup' = "stopped"
  /\ UNCHANGED <<building, proc, main, serving, stopping, stop, req, drain>>

(***************************************************************************)
(* Signals and Shutdown.                                                   *)
(***************************************************************************)
\* Fault: the channel keeps every signal.
FaultSignalsQueue ==
  /\ Running /\ sent < MaxSignals
  /\ sent' = sent + 1
  /\ IF handler = "none"
       THEN proc' = "killed" /\ UNCHANGED sigCh
       ELSE sigCh' = sigCh + 1 /\ UNCHANGED proc
  /\ UNCHANGED <<building, main, serving, handler, loop, req, drain>>

\* Before Notify a signal kills the process; after it, it goes into the
\* channel, or nowhere if the channel is full.
Signal ==
  /\ Running /\ sent < MaxSignals
  /\ sent' = sent + 1
  /\ IF handler = "none"
       THEN proc' = "killed" /\ UNCHANGED sigCh
       ELSE sigCh' = 1 /\ UNCHANGED proc
  /\ UNCHANGED <<building, main, serving, handler, loop, req, drain>>

\* Fault: Shutdown waits for the cleanup loop without telling it.
FaultLoopNotStopped ==
  /\ Running /\ handler = "waiting" /\ sigCh = 1
  /\ sigCh' = 0 /\ handler' = "cleanup"
  /\ UNCHANGED <<building, proc, main, serving, sent, loop, req, drain>>

\* The one signal that is read; the loop's context is cancelled.
TakeSignal ==
  /\ Running /\ handler = "waiting" /\ sigCh = 1
  /\ sigCh' = 0 /\ handler' = "cleanup"
  /\ stop' = TRUE
  /\ UNCHANGED <<building, proc, main, serving, sent, cleanup, req, drain>>

\* Fault: Shutdown goes on without the loop's WaitGroup.
FaultLoopNotAwaited ==
  /\ Running /\ handler = "cleanup"
  /\ handler' = "server"
  /\ UNCHANGED <<building, proc, main, serving, sigCh, sent, loop, req, drain>>

AwaitCleanup ==
  /\ Running /\ handler = "cleanup"
  /\ cleanup \in {"none", "stopped"}
  /\ handler' = "server"
  /\ UNCHANGED <<building, proc, main, serving, sigCh, sent, loop, req, drain>>

\* Server.Shutdown reads httpServer, which the serving goroutine writes
\* without a lock: nil before the write, either soon after it.
ShutdownServer ==
  /\ Running /\ handler = "server"
  /\ \/ /\ server \in {"none", "starting", "created"}
        /\ unseen' = TRUE
        /\ handler' = "pending"
        /\ UNCHANGED closing
     \/ /\ server \notin {"none", "starting"}
        /\ closing' = TRUE
        /\ handler' = "draining"
        /\ UNCHANGED unseen
  /\ UNCHANGED <<building, proc, main, server, errs, sigCh, sent, loop, req, timedOut>>

\* http.Server.Shutdown waits for the requests until shutdown_timeout.
Drain ==
  /\ Running /\ handler = "draining"
  /\ handler' = "pending"
  /\ timedOut' = \E r \in Requests : req[r] = "serving"
  /\ UNCHANGED <<building, proc, main, serving, sigCh, sent, loop, req, unseen>>

\* The order in which Shutdown closes: the limiter, then storageCloser, then
\* the redis client.  Errors are collected and stop nothing.
After == [pending |-> "usage", usage |-> "counters", counters |-> "postgres",
          postgres |-> "redis", redis |-> "done"]

CloseResource ==
  /\ Running /\ handler \in Resources
  /\ res' = Close(res, {handler})
  /\ handler' = After[handler]
  /\ UNCHANGED <<cfg, counterDriver, proc, main, serving, sigCh, sent, loop, req, drain>>

Ended == ~Running /\ UNCHANGED vars

-----------------------------------------------------------------------------
Init ==
  /\ cfg \in Configs
  /\ proc = "running" /\ main = "load"
  /\ res = [x \in Resources |-> "absent"]
  /\ counterDriver = "none"
  /\ server = "none" /\ closing = FALSE /\ errs = "empty"
  /\ sigCh = 0 /\ sent = 0 /\ handler = "none"
  /\ stop = FALSE /\ cleanup = "none"
  /\ req = [r \in Requests |-> "idle"]
  /\ timedOut = FALSE /\ unseen = FALSE

Main == Load \/ DialRedis \/ OpenStores \/ BuildServices \/ Notify \/ Start \/ MainReturns
Server == CreateServer \/ Listen \/ ServeReturns
Handler == TakeSignal \/ AwaitCleanup \/ ShutdownServer \/ Drain \/ CloseResource

Next ==
  \/ Main \/ Server \/ Handler
  \/ CleanupStep \/ CleanupReturns
  \/ \E r \in Requests : Arrive(r) \/ Answer(r)
  \/ Signal
  \/ Ended

Spec == Init /\ [][Next]_vars

\* Every goroutine that can run does.  The select of the cleanup loop picks
\* at random, and a tick is ready only once per interval: a cancelled context
\* is picked in the end.
FairSpec ==
  /\ Spec
  /\ WF_vars(Main) /\ WF_vars(Server) /\ WF_vars(Handler)
  /\ WF_vars(CleanupStep) /\ SF_vars(CleanupReturns)

-----------------------------------------------------------------------------
(***************************************************************************)
(* Properties.                                                             *)
(***************************************************************************)
TypeOK ==
  /\ cfg \in Configs
  /\ proc \in {"running", "badConfig", "failed", "ok", "killed"}
  /\ main \in {"load", "redis", "stores", "services", "notify", "start", "wait"}
  /\ res \in [Resources -> {"absent", "open", "closed"}]
  /\ counterDriver \in {"none", "memory", "redis"}
  /\ server \in {"none", "starting", "created", "listening", "returned"}
  /\ closing \in BOOLEAN
  /\ errs \in {"empty", "error", "ErrServerClosed"}
  /\ sigCh \in 0..1 /\ sent \in 0..MaxSignals
  /\ handler \in {"none", "waiting", "cleanup", "server", "draining", "done"} \union Resources
  /\ stop \in BOOLEAN
  /\ cleanup \in {"none", "refresh", "idle", "cleaning", "stopped"}
  /\ req \in [Requests -> {"idle", "serving"}]
  /\ timedOut \in BOOLEAN /\ unseen \in BOOLEAN

Closed == {x \in Resources : res[x] = "closed"}

\* Nobody meets a closed store: the cleanup loop never ("Stop cleanup loop
\* first so it doesn't race with storage close", app.go:204), a request only
\* if the drain ran into shutdown_timeout or Shutdown came before the server
\* was there and closed the stores of a service that was about to start.
StoresOutliveUsers ==
  /\ cleanup \in {"refresh", "cleaning"} => Closed = {}
  /\ (\E r \in Requests : req[r] = "serving") /\ Closed # {} => timedOut \/ unseen

\* A process that gets to serve has the usage store it was configured with
\* and its backend; only the counters fall back to memory, and only if redis
\* did not answer (app.go:351-358).
StartedAsConfigured ==
  main \in {"notify", "start", "wait"} =>
    /\ cfg.driver # "memory" => res[cfg.driver] # "absent"
    /\ counterDriver # cfg.counters =>
         counterDriver = "memory" /\ cfg.driver # "redis" /\ res["redis"] = "absent"

\* A signal that was read ends the process, unless Shutdown ran before the
\* server existed (server.go:80): it then closes the stores, the server comes
\* up without them, and no later signal is read.
SignalEndsProcess == handler = "cleanup" ~> ~Running \/ unseen

\* A signalled service that ends normally has let its requests finish or has
\* waited for them as long as shutdown_timeout says: "Graceful shutdown:
\* SIGTERM triggers the app's signal handler"
\* (deploy/systemd/mirrors-waf-backend.service:19).
ExitAfterDrain == proc = "ok" => timedOut \/ \A r \in Requests : req[r] = "idle"
=============================================================================
