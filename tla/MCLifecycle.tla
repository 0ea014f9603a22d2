---------------------------- MODULE MCLifecycle -----------------------------
(* One process under every combination of drivers, with and without the    *)
(* limiter and the cleanup loop, two requests, two signals.                *)
EXTENDS Lifecycle

CONSTANTS r1, r2

MCRequests == {r1, r2}
MCConfigs == Config
=============================================================================
