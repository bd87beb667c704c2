---------------------------- MODULE CaddyRoutes ----------------------------
(***************************************************************************)
(* caddy/manager.py: the routes Caddy has for the web UIs of service apps. *)
(*                                                                         *)
(* After a change a handler runs _regenerate_and_reload on a thread of its *)
(* own.  Threads take turns by a lock, which one holds from the first read *)
(* of the registry until Caddy has answered; the event loop goes on        *)
(* changing the registry meanwhile.  A route is its app and a port: the    *)
(* rest of the Caddyfile does not change while the platform runs.          *)
(***************************************************************************)
EXTENDS PortPool

CONSTANTS
    WebApps,    \* service apps with has_web_ui
    MaxJobs     \* bound: the threads that wait for the lock

ASSUME CaddyAssumption == WebApps \subseteq Apps /\ MaxJobs \in Nat

VARIABLES
    caddy,      \* app -> the port Caddy sends its requests to, or NoPort
    jobs,       \* threads that wait for the lock
    regen,      \* the thread that has it: apps it has to read yet, ports it has read
    stale       \* history: something changed or failed without a regeneration after it

caddyvars == <<caddy, jobs, regen, stale>>

NoRoutes == [a \in WebApps |-> NoPort]
NoRegen  == [busy |-> FALSE, todo |-> {}, found |-> NoRoutes]

CaddyInit == caddy = NoRoutes /\ jobs = 0 /\ regen = NoRegen /\ stale = FALSE

OneIsEnough(n) == IF regen.busy THEN n ELSE n + 1                    \* mutant

OneMore(n) == n + 1

\* asyncio.to_thread(caddy_manager.on_app_registered or on_app_deregistered)
request_regeneration ==
    /\ jobs < MaxJobs
    /\ jobs' = OneMore(jobs)
    /\ UNCHANGED <<caddy, regen, stale>>

\* What goes wrong after a change of the registry, so that none is requested.
skip_regeneration == stale' = TRUE /\ UNCHANGED <<caddy, jobs, regen>>

take_lock ==
    /\ jobs > 0 /\ ~ regen.busy
    /\ jobs' = jobs - 1
    /\ regen' = [busy |-> TRUE, todo |-> WebApps, found |-> NoRoutes]
    /\ stale' = FALSE
    /\ UNCHANGED caddy

\* _web_ui_apps gets to a, which shows that port now.
read_app(a, port) ==
    /\ a \in regen.todo
    /\ regen' = [regen EXCEPT !.todo = @ \ {a}, !.found[a] = port]
    /\ UNCHANGED <<caddy, jobs, stale>>

\* The Caddyfile is written and loaded, or something in it fails.
reload ==
    /\ regen.busy /\ regen.todo = {}
    /\ \/ caddy' = regen.found /\ UNCHANGED stale
       \/ stale' = TRUE /\ UNCHANGED caddy
    /\ regen' = NoRegen
    /\ UNCHANGED jobs

\* The platform starts: its threads are gone, and it generates and loads routes itself.
caddy_boot(routes) ==
    /\ jobs' = 0 /\ regen' = NoRegen
    /\ \/ caddy' = routes /\ stale' = FALSE
       \/ UNCHANGED caddy /\ stale' = TRUE
=============================================================================
