--------------------------- MODULE Lifecycle_proofs ---------------------------
(***************************************************************************)
(* Lifecycle's safety for every set of requests, every set of              *)
(* configurations and any number of signals.  The argument: nothing is     *)
(* closed while the process is being built, the handler reaches the first  *)
(* resource only past the cleanup loop and the drain, and past the drain   *)
(* no request is running unless the drain gave up or saw no server.        *)
(***************************************************************************)
EXTENDS Lifecycle, TLAPS

\* Where main is before the signal handler exists.
Building == {"load", "redis", "stores", "services"}

\* While the process is built nothing else runs in it, and what a failed
\* build closes it closes with the process.
BuiltAlone ==
  /\ main \in Building \union {"notify"} => handler = "none"
  /\ main \in Building \union {"notify", "start"} => server = "none"
  /\ main \in Building => cleanup = "none"
  /\ server = "none" => \A r \in Requests : req[r] = "idle"
  /\ main \in Building /\ Running => Closed = {}

\* The stages of Shutdown, in their order.
Closing == Resources \union {"done"}

Staged ==
  /\ Closed # {} => handler \in Closing \/ main \in Building
  /\ handler \in {"server", "draining"} \union Closing => cleanup \in {"none", "stopped"}
  /\ handler = "draining" => closing
  /\ handler \in Closing =>
       unseen \/ timedOut \/ (closing /\ \A r \in Requests : req[r] = "idle")

\* What buildStorage has settled by the time it returns.
Opened ==
  /\ main \notin {"load", "redis"} /\ cfg.driver = "redis" => res["redis"] # "absent"
  /\ main \notin {"load", "redis", "stores"} =>
       /\ cfg.driver = "postgres" => res["postgres"] # "absent"
       /\ counterDriver = IF res["redis"] = "absent" THEN "memory" ELSE cfg.counters

LifecycleInv == TypeOK /\ BuiltAlone /\ Staged /\ Opened

\* The configuration in use has the fields of a configuration.
LEMMA CfgType == TypeOK => cfg \in Config
BY ConfigAssumption DEF TypeOK

\* Closing some resources makes none of them absent, and none open.
LEMMA CloseKeeps ==
  ASSUME NEW r \in [Resources -> {"absent", "open", "closed"}], NEW S
  PROVE  /\ Close(r, S) \in [Resources -> {"absent", "open", "closed"}]
         /\ \A x \in Resources : (Close(r, S)[x] = "absent") <=> (r[x] = "absent")
BY DEF Close

\* A process that has just started satisfies the invariant.
LEMMA InitInv == Init => LifecycleInv
<1> SUFFICES ASSUME Init PROVE LifecycleInv
  OBVIOUS
<1>1. closing \in BOOLEAN /\ stop \in BOOLEAN /\ timedOut \in BOOLEAN /\ unseen \in BOOLEAN
  BY DEF Init
<1>2. TypeOK
  BY <1>1, SignalAssumption DEF Init, TypeOK
<1>3. Closed = {}
  BY DEF Init, Closed
<1>4. BuiltAlone /\ Staged
  BY <1>3 DEF Init, BuiltAlone, Staged, Building, Closing, Resources
<1>5. Opened
  BY DEF Init, Opened
<1>. QED
  BY <1>2, <1>4, <1>5 DEF LifecycleInv

\* Every step of main keeps it.
LEMMA MainInv == LifecycleInv /\ Main => LifecycleInv'
<1> SUFFICES ASSUME LifecycleInv, Main PROVE LifecycleInv'
  OBVIOUS
<1> USE DEF LifecycleInv, building, serving, stopping, loop, drain, Running, Return, Continue
<1>0. cfg \in Config
  BY CfgType
<1>1. CASE Load
  BY <1>1 DEF Load, TypeOK, BuiltAlone, Staged, Opened, Closed, Closing, Building
<1>2. CASE DialRedis
  BY <1>2, <1>0 DEF DialRedis, needRedis, Config, TypeOK, BuiltAlone, Staged, Opened, Closed, Closing, Building, Resources
<1>3. CASE OpenStores
  BY <1>3, <1>0, CloseKeeps DEF OpenStores, Close, Config, TypeOK, BuiltAlone, Staged, Opened, Closed, Closing, Building, Resources
<1>4. CASE BuildServices
  BY <1>4, <1>0, CloseKeeps DEF BuildServices, Close, Config, TypeOK, BuiltAlone, Staged, Opened, Closed, Closing, Building, Resources
<1>5. CASE Notify
  BY <1>5 DEF Notify, TypeOK, BuiltAlone, Staged, Opened, Closed, Closing, Building, Resources
<1>6. CASE Start
  BY <1>6 DEF Start, TypeOK, BuiltAlone, Staged, Opened, Closed, Closing, Building, Resources
<1>7. CASE MainReturns
  BY <1>7 DEF MainReturns, TypeOK, BuiltAlone, Staged, Opened, Closed, Closing, Building, Resources
<1>. QED
  BY <1>1, <1>2, <1>3, <1>4, <1>5, <1>6, <1>7 DEF Main

\* The serving goroutine only moves from one state of the server to the next.
LEMMA ServerInv == LifecycleInv /\ Server => LifecycleInv'
<1> SUFFICES ASSUME LifecycleInv, Server PROVE LifecycleInv'
  OBVIOUS
<1> USE DEF LifecycleInv, building, stopping, loop, drain, Running
<1>1. UNCHANGED <<building, proc, main, closing, stopping, loop, req, drain>>
  BY DEF Server, CreateServer, Listen, ServeReturns
<1>2. /\ server # "none" /\ server' \in {"created", "listening", "returned"}
      /\ errs' \in {"empty", "error", "ErrServerClosed"}
  BY DEF Server, CreateServer, Listen, ServeReturns, TypeOK
<1>. QED
  BY <1>1, <1>2 DEF TypeOK, BuiltAlone, Staged, Opened, Closed

\* A request arrives only at a server that listens and is not closing.
LEMMA RequestInv ==
  ASSUME LifecycleInv, NEW r \in Requests, Arrive(r) \/ Answer(r)
  PROVE  LifecycleInv'
<1> USE DEF LifecycleInv, building, serving, stopping, loop, drain, Running
<1>1. CASE Arrive(r)
  BY <1>1 DEF Arrive, TypeOK, BuiltAlone, Staged, Opened, Closed
<1>2. CASE Answer(r)
  BY <1>2 DEF Answer, TypeOK, BuiltAlone, Staged, Opened, Closed
<1>. QED
  BY <1>1, <1>2

\* The cleanup loop runs only before Shutdown has awaited it.
LEMMA CleanupInv == LifecycleInv /\ (CleanupStep \/ CleanupReturns) => LifecycleInv'
<1> SUFFICES ASSUME LifecycleInv, CleanupStep \/ CleanupReturns PROVE LifecycleInv'
  OBVIOUS
<1> USE DEF LifecycleInv, building, serving, stopping, drain, Running
<1>1. /\ UNCHANGED <<building, proc, main, serving, stopping, stop, req, drain>>
      /\ cleanup \in {"idle", "cleaning", "refresh"}
      /\ cleanup' \in {"idle", "cleaning", "refresh", "stopped"}
  BY DEF CleanupStep, CleanupReturns
<1>. QED
  BY <1>1 DEF TypeOK, BuiltAlone, Staged, Opened, Closed

\* Every stage of the signal handler keeps the invariant.
LEMMA HandlerInv == LifecycleInv /\ Handler => LifecycleInv'
<1> SUFFICES ASSUME LifecycleInv, Handler PROVE LifecycleInv'
  OBVIOUS
<1> USE DEF LifecycleInv, building, serving, stopping, loop, drain, Running
<1>1. CASE TakeSignal
  BY <1>1 DEF TakeSignal, TypeOK, BuiltAlone, Staged, Opened, Closed, Closing, Resources
<1>2. CASE AwaitCleanup
  BY <1>2 DEF AwaitCleanup, TypeOK, BuiltAlone, Staged, Opened, Closed, Closing, Resources
<1>3. CASE ShutdownServer
  <2>1. /\ handler = "server" /\ handler' \in {"pending", "draining"}
        /\ UNCHANGED <<cfg, res, counterDriver, proc, main, server, errs, sigCh, sent,
                       stop, cleanup, req, timedOut>>
    BY <1>3 DEF ShutdownServer
  <2>2. closing' \in BOOLEAN /\ unseen' \in BOOLEAN
    BY <1>3, Zenon DEF ShutdownServer, TypeOK
  <2>3. (handler' = "pending" => unseen') /\ (handler' = "draining" => closing')
    BY <1>3 DEF ShutdownServer
  <2>4. TypeOK'
    BY <2>1, <2>2 DEF TypeOK, Resources
  <2>5. BuiltAlone' /\ Opened'
    BY <2>1 DEF BuiltAlone, Opened, Closed
  <2>6. Staged'
    BY <2>1, <2>3 DEF Staged, Closed, Closing, Resources
  <2>. QED
    BY <2>4, <2>5, <2>6
<1>4. CASE Drain
  <2>1. timedOut' \in BOOLEAN
    BY <1>4 DEF Drain
  <2>2. TypeOK'
    BY <1>4, <2>1 DEF Drain, TypeOK, Resources
  <2>3. timedOut' \/ \A r \in Requests : req'[r] = "idle"
    BY <1>4 DEF Drain, TypeOK
  <2>4. /\ handler = "draining" /\ handler' = "pending" /\ closing /\ closing'
        /\ UNCHANGED <<cfg, res, counterDriver, proc, main, server, cleanup, req, unseen>>
    BY <1>4 DEF Drain, Staged
  <2>5. BuiltAlone' /\ Opened'
    BY <2>4 DEF BuiltAlone, Opened, Closed
  <2>6. Staged'
    BY <2>3, <2>4 DEF Staged, Closed, Closing, Resources
  <2>. QED
    BY <2>2, <2>5, <2>6
<1>5. CASE CloseResource
  BY <1>5, CloseKeeps DEF CloseResource, After, TypeOK, BuiltAlone, Staged, Opened, Closed, Closing, Resources
<1>. QED
  BY <1>1, <1>2, <1>3, <1>4, <1>5 DEF Handler

\* A signal goes to the handler's channel or kills the process.
LEMMA SignalInv == LifecycleInv /\ Signal => LifecycleInv'
BY SignalAssumption
   DEF LifecycleInv, Signal, building, serving, loop, drain, Running,
       TypeOK, BuiltAlone, Staged, Opened, Closed

\* Every step keeps the invariant.
LEMMA StepInv == LifecycleInv /\ [Next]_vars => LifecycleInv'
<1> SUFFICES ASSUME LifecycleInv, [Next]_vars PROVE LifecycleInv'
  OBVIOUS
<1>1. CASE UNCHANGED vars
  BY <1>1 DEF vars, building, serving, stopping, loop, drain, LifecycleInv, Running,
              TypeOK, BuiltAlone, Staged, Opened, Closed
<1>. QED
  BY <1>1, MainInv, ServerInv, HandlerInv, CleanupInv, RequestInv, SignalInv DEF Next, Ended

\* The invariant holds of every reachable state.
LEMMA LifecycleCorrect == Spec => []LifecycleInv
BY InitInv, StepInv, PTL DEF Spec

\* The variables keep their types: in particular the signal channel never
\* holds more than the one signal it has room for.
THEOREM TypeCorrect == Spec => []TypeOK
BY LifecycleCorrect, PTL DEF LifecycleInv

\* App.Shutdown closes no store under the cleanup loop, and none under a
\* request unless the drain timed out or Shutdown found no server.
THEOREM StoresOutlive == Spec => []StoresOutliveUsers
<1>1. LifecycleInv => StoresOutliveUsers
  BY DEF LifecycleInv, BuiltAlone, Staged, StoresOutliveUsers, Closing, Building, TypeOK
<1>. QED
  BY <1>1, LifecycleCorrect, PTL

\* buildStorage either fails or opens the usage store that was configured;
\* only the counters fall back to memory, and only without redis.
THEOREM StartsAsConfigured == Spec => []StartedAsConfigured
<1>1. LifecycleInv => StartedAsConfigured
  <2> SUFFICES ASSUME LifecycleInv, main \in {"notify", "start", "wait"}
               PROVE  /\ cfg.driver # "memory" => res[cfg.driver] # "absent"
                      /\ counterDriver # cfg.counters =>
                           counterDriver = "memory" /\ cfg.driver # "redis" /\ res["redis"] = "absent"
    BY DEF StartedAsConfigured
  <2>1. cfg \in Config
    BY CfgType DEF LifecycleInv
  <2>. QED
    BY <2>1 DEF LifecycleInv, Opened, Config
<1>. QED
  BY <1>1, LifecycleCorrect, PTL
=============================================================================
