----------------------------- MODULE Launchers -----------------------------
(***************************************************************************)
(* managers/subprocess_launcher.py, which runs service apps where there is *)
(* no systemd, and managers/streamlit_manager.py, which runs Streamlit     *)
(* apps and stops idle ones from a thread; with the handlers of main.py    *)
(* that call them, the port pools they share, and the routes of Caddy.     *)
(*                                                                         *)
(* A launcher's method is atomic: it blocks the event loop, and the TTL    *)
(* thread holds the Streamlit manager's lock throughout.  Handlers await   *)
(* the MCP gateway between a start and the regeneration of the routes.  A  *)
(* process listens on its ports from start to end, and outlives a crash of *)
(* the platform.  Left out: statuses, and the auto-start, which            *)
(* ServiceManager has.                                                     *)
(***************************************************************************)
EXTENDS CaddyRoutes, FiniteSets, Integers

CONSTANTS
    Services, StreamlitApps,    \* the types of the apps
    McpApps,                    \* service apps with an MCP server
    RestPorts, McpPorts,
    MaxWaiting                  \* bound: handlers that await the gateway at a time

ASSUME LaunchersAssumption ==
    /\ Apps = Services \cup StreamlitApps /\ Services \cap StreamlitApps = {}
    /\ WebApps \subseteq Services /\ McpApps \subseteq Services
    /\ RestPorts \subseteq Nat /\ McpPorts \subseteq Nat
    /\ MaxWaiting \in Nat

VARIABLES
    rest, mcp,      \* the pools of PortManager
    tracked,        \* app -> its row of processes, of either launcher
    registered,     \* apps in the registry
    port, mcp_port, \* app -> assigned_port and mcp_info.mcp_port
    idle,           \* Streamlit apps not accessed for default_ttl
    waiting,        \* handlers that await the gateway
    orphans         \* ports of live processes that no row of processes tells of

launchvars == <<rest, mcp, tracked, port, mcp_port>>
vars == <<launchvars, caddyvars, registered, idle, waiting, orphans>>

NotTracked == [port |-> NoPort, mcp |-> NoPort, alive |-> FALSE]
NoPorts == [a \in Apps |-> NoPort]

Init ==
    /\ CaddyInit
    /\ rest = EmptyPool(RestPorts) /\ mcp = EmptyPool(McpPorts)
    /\ tracked = [a \in Apps |-> NotTracked]
    /\ registered = {}
    /\ port = NoPorts /\ mcp_port = NoPorts
    /\ idle = {} /\ waiting = {} /\ orphans = {}

Tracked == {a \in Apps : tracked[a] # NotTracked}
Alive == {a \in Apps : tracked[a].alive}
PortsOf(S) == {tracked[a].port : a \in S} \cup ({tracked[a].mcp : a \in S} \ {NoPort})
bound == PortsOf(Alive) \cup orphans

\* What the launchers change, as one value.
Now == [rest |-> rest, mcp |-> mcp, tracked |-> tracked, port |-> port, mcp_port |-> mcp_port]

Becomes(s) ==
    /\ rest' = s.rest /\ mcp' = s.mcp /\ tracked' = s.tracked
    /\ port' = s.port /\ mcp_port' = s.mcp_port

Clear(f, S) == [a \in Apps |-> IF a \in S THEN NoPort ELSE f[a]]

KeepsMcpPort(s, S) ==                                                \* mutant
    [s EXCEPT !.rest = ReleaseAll(@, S)]

ReleasePorts(s, S) ==
    [s EXCEPT !.rest = ReleaseAll(@, S), !.mcp = ReleaseAll(@, S)]

\* stop_service of the one launcher, _cleanup_app of the other, for each app of S that
\* it tracks.  A signal to a child never fails.
StopAll(s, S) ==
    LET T == {a \in S : s.tracked[a] # NotTracked} IN
    [ReleasePorts(s, T) EXCEPT
        !.tracked = [a \in Apps |-> IF a \in T THEN NotTracked ELSE @[a]],
        !.port = Clear(@, T), !.mcp_port = Clear(@, T)]

-----------------------------------------------------------------------------
(* Starting a service app: what start_service may answer, and leave. *)

Answer(ok, s) == [ok |-> ok, s |-> s]

Bound(s) ==
    {s.tracked[a].port : a \in {a \in Apps : s.tracked[a].alive}}
    \cup ({s.tracked[a].mcp : a \in {a \in Apps : s.tracked[a].alive}} \ {NoPort}) \cup orphans

RestOf(s, a) == Allocate(s.rest, a, NoPort, Bound(s))
McpOf(s, a) == IF a \in McpApps THEN Allocate(s.mcp, a, NoPort, Bound(s))
               ELSE [port |-> NoPort, pool |-> s.mcp]

ForgetsRestPort(s, a) ==                                             \* mutant
    [s EXCEPT !.rest = RestOf(s, a).pool, !.mcp = McpOf(s, a).pool]

\* No MCP port: the REST port goes back.
WithoutMcpPort(s, a) ==
    [s EXCEPT !.rest = Release(RestOf(s, a).pool, a), !.mcp = McpOf(s, a).pool]

HidesMcpPort(s, a) ==                                                \* mutant
    [s EXCEPT !.rest = RestOf(s, a).pool, !.mcp = McpOf(s, a).pool,
              !.tracked[a] = [port |-> RestOf(s, a).port, mcp |-> McpOf(s, a).port,
                              alive |-> TRUE],
              !.port[a] = RestOf(s, a).port]

Launched(s, a) ==
    [s EXCEPT !.rest = RestOf(s, a).pool, !.mcp = McpOf(s, a).pool,
              !.tracked[a] = [port |-> RestOf(s, a).port, mcp |-> McpOf(s, a).port,
                              alive |-> TRUE],
              !.port[a] = RestOf(s, a).port,
              !.mcp_port[a] = IF a \in McpApps THEN McpOf(s, a).port ELSE @]

\* Something raises, maybe before start_service has looked whether the app runs:
\* get_filtered_env reads the secrets twice and fails when one is gone at the second.
Raised(s, a) ==
    [ReleasePorts(s, {a}) EXCEPT !.tracked[a] = NotTracked]

\* The row is of no live process: no port, no main file, no MCP port, or a new process.
LaunchAnswers(s, a) ==
    IF RestOf(s, a).port = NoPort
    THEN {Answer(FALSE, [s EXCEPT !.rest = RestOf(s, a).pool])}
    ELSE {Answer(FALSE, [s EXCEPT !.rest = Release(RestOf(s, a).pool, a)]),
          IF a \in McpApps /\ McpOf(s, a).port = NoPort
          THEN Answer(FALSE, WithoutMcpPort(s, a))
          ELSE Answer(TRUE, Launched(s, a))}

\* A secret is missing, something raises, or the steps in the order of the code.  A dead
\* child keeps its PID until somebody reaps it, and seems to run.
StartAnswers(s, a) ==
    {Answer(FALSE, s), Answer(FALSE, Raised(s, a))}
    \cup (IF s.tracked[a] = NotTracked THEN {} ELSE {Answer(TRUE, s)})
    \cup (IF s.tracked[a].alive THEN {} ELSE LaunchAnswers(s, a))

\* A live process whose row Raised has dropped.
Lost(s, t) == UNION {{s.tracked[a].port, s.tracked[a].mcp} \ {NoPort} :
                     a \in {a \in Apps : s.tracked[a].alive /\ t.tracked[a] = NotTracked}}

-----------------------------------------------------------------------------
(* The handlers of service apps. *)

Wait(kind, a) ==
    /\ <<kind, a>> \notin waiting /\ Cardinality(waiting) < MaxWaiting
    /\ waiting' = waiting \cup {<<kind, a>>}
    /\ UNCHANGED caddyvars

start(a) ==
    /\ a \in registered
    /\ \E r \in StartAnswers(Now, a) :
          /\ Becomes(r.s)
          /\ orphans' = orphans \cup Lost(Now, r.s)
          /\ IF r.ok THEN Wait("started", a)
             ELSE UNCHANGED <<waiting, caddyvars>>
    /\ UNCHANGED <<registered, idle>>

stop(a) ==
    /\ a \in registered \cap Tracked
    /\ Becomes(StopAll(Now, {a}))
    /\ Wait("stopped", a)
    /\ UNCHANGED <<registered, idle, orphans>>

\* A restart that ends in a stop returns before the routes are regenerated.
restart(a) ==
    /\ a \in registered
    /\ LET s == StopAll(Now, {a}) IN
       \E r \in StartAnswers(s, a) :
          /\ Becomes(r.s)
          /\ IF r.ok THEN Wait("started", a)
             ELSE skip_regeneration /\ UNCHANGED waiting
    /\ UNCHANGED <<registered, idle, orphans>>

gateway_answers(kind, a) ==
    /\ <<kind, a>> \in waiting
    /\ waiting' = waiting \ {<<kind, a>>}
    /\ \/ request_regeneration /\ UNCHANGED launchvars
       \* An incompatible tool list: the app is stopped, and the routes stay.
       \/ /\ kind = "started" /\ a \in McpApps
          /\ Becomes(StopAll(Now, {a}))
          /\ skip_regeneration
    /\ UNCHANGED <<registered, idle, orphans>>

\* Unregistering raises when Redis is away.
delete_app(a) ==
    /\ a \in registered
    /\ Becomes(ReleasePorts(StopAll(Now, {a}), {a}))
    /\ \/ registered' = registered \ {a} /\ request_regeneration
       \/ UNCHANGED registered /\ skip_regeneration
    /\ idle' = idle \ {a}
    /\ UNCHANGED <<waiting, orphans>>

\* Finds the apps F, and those of G without a folder; a new entry has no ports.
\* In this model a scan finds one change of the folders.
discover_apps(F, G) ==
    /\ Cardinality(F \cup G) <= 1
    /\ F \cap registered = {} /\ G \subseteq registered
    /\ registered' = (registered \cup F) \ G
    /\ LET s == ReleasePorts(StopAll(Now, G), G) IN
       Becomes([s EXCEPT !.port = Clear(@, F), !.mcp_port = Clear(@, F)])
    /\ idle' = idle \ G
    /\ request_regeneration
    /\ UNCHANGED <<waiting, orphans>>

-----------------------------------------------------------------------------
(* Streamlit apps. *)

\* launch_streamlit_app: the row of a dead process is cleaned up first, unless it looks
\* alive.
launch(a) ==
    /\ a \in registered
    /\ \/ a \in Tracked /\ UNCHANGED launchvars
       \/ /\ a \notin Alive
          /\ LET s == StopAll(Now, {a}) IN
             \/ Becomes(s)          \* nothing to launch, or an error afterwards
             \/ RestOf(s, a).port # NoPort /\ Becomes(Launched(s, a))
    /\ idle' = idle \ {a}
    /\ UNCHANGED <<caddyvars, registered, waiting, orphans>>

StopKeepsAccessTime(a) ==                                            \* mutant
    /\ a \in Tracked
    /\ Becomes(StopAll(Now, {a}))
    /\ UNCHANGED <<idle, caddyvars, registered, waiting, orphans>>

stop_streamlit_app(a) ==
    /\ a \in Tracked
    /\ Becomes(StopAll(Now, {a}))
    /\ idle' = idle \ {a}
    /\ UNCHANGED <<caddyvars, registered, waiting, orphans>>

touch_app(a) ==
    /\ a \in Tracked /\ a \in idle
    /\ idle' = idle \ {a}
    /\ UNCHANGED <<launchvars, caddyvars, registered, waiting, orphans>>

NothingIdle == {}                                                    \* mutant

Idle == Tracked \cap idle

\* One round of _cleanup_loop.
cleanup_loop ==
    /\ Idle # {}
    /\ Becomes(StopAll(Now, Idle))
    /\ idle' = idle \ Idle
    /\ UNCHANGED <<caddyvars, registered, waiting, orphans>>

ttl_passes(a) ==
    /\ a \in Tracked \ idle
    /\ idle' = idle \cup {a}
    /\ UNCHANGED <<launchvars, caddyvars, registered, waiting, orphans>>

-----------------------------------------------------------------------------
(* Processes and the platform. *)

process_dies(a) ==
    /\ a \in Alive
    /\ tracked' = [tracked EXCEPT ![a].alive = FALSE]
    /\ UNCHANGED <<rest, mcp, port, mcp_port, caddyvars, registered, idle, waiting, orphans>>

orphan_dies(p) ==
    /\ p \in orphans
    /\ orphans' = orphans \ {p}
    /\ UNCHANGED <<launchvars, caddyvars, registered, idle, waiting>>

\* The platform starts again: everything is found anew, and nothing runs that it knows of.
Boot(left) ==
    /\ rest' = EmptyPool(RestPorts) /\ mcp' = EmptyPool(McpPorts)
    /\ tracked' = [a \in Apps |-> NotTracked]
    /\ registered' = Apps /\ port' = NoPorts /\ mcp_port' = NoPorts
    /\ idle' = {} /\ waiting' = {} /\ orphans' = left
    /\ caddy_boot(NoRoutes)

crash == Boot(bound)

\* stop_all of both launchers.
shutdown == Boot(orphans)

-----------------------------------------------------------------------------
read_registry ==
    /\ \E a \in WebApps : read_app(a, IF a \in registered THEN port[a] ELSE NoPort)
    /\ UNCHANGED <<launchvars, registered, idle, waiting, orphans>>

regenerate ==
    /\ take_lock \/ reload
    /\ UNCHANGED <<launchvars, registered, idle, waiting, orphans>>

Next ==
    \/ \E a \in Services : \/ start(a) \/ stop(a) \/ restart(a)
                           \/ \E kind \in {"started", "stopped"} : gateway_answers(kind, a)
    \/ \E a \in StreamlitApps : \/ launch(a) \/ stop_streamlit_app(a) \/ touch_app(a)
                                \/ ttl_passes(a)
    \/ \E a \in Apps : delete_app(a) \/ process_dies(a)
    \/ \E F, G \in SUBSET Apps : discover_apps(F, G)
    \/ \E p \in orphans : orphan_dies(p)
    \/ cleanup_loop \/ read_registry \/ regenerate \/ crash \/ shutdown

\* The TTL thread runs for as long as the platform does.
Spec == Init /\ [][Next]_vars /\ WF_vars(cleanup_loop)

-----------------------------------------------------------------------------
(* Properties *)

TypeOK ==
    /\ rest \in Pools(RestPorts) /\ mcp \in Pools(McpPorts)
    /\ tracked \in [Apps -> [port : RestPorts \cup {NoPort}, mcp : McpPorts \cup {NoPort},
                             alive : BOOLEAN]]
    /\ registered \subseteq Apps
    /\ port \in [Apps -> RestPorts \cup {NoPort}]
    /\ mcp_port \in [Apps -> McpPorts \cup {NoPort}]
    /\ idle \subseteq StreamlitApps \cap Tracked
    /\ waiting \subseteq {"started", "stopped"} \X Services
    /\ orphans \subseteq RestPorts \cup McpPorts
    /\ caddy \in [WebApps -> RestPorts \cup {NoPort}] /\ jobs \in 0 .. MaxJobs
    /\ regen \in [busy : BOOLEAN, todo : SUBSET WebApps,
                  found : [WebApps -> RestPorts \cup {NoPort}]]
    /\ stale \in BOOLEAN

\* No port is kept for nobody, and none is given back under a process the launchers
\* know to be alive: through failed starts, deaths, deletions, the TTL and restarts.
PortsFollowProcesses ==
    /\ \A a \in Apps \ Tracked : rest.app_ports[a] = NoPort /\ mcp.app_ports[a] = NoPort
    /\ \A a \in Alive :
          /\ rest.app_ports[a] = tracked[a].port
          /\ mcp.app_ports[a] = tracked[a].mcp

\* A live process is that of a registered app, whose entry shows the ports it has.
RegistryShowsPorts ==
    \A a \in Alive :
        a \in registered /\ port[a] = tracked[a].port /\ mcp_port[a] = tracked[a].mcp

\* "Always reflects current registry state": when no regeneration runs or waits, and
\* none has failed or been skipped, Caddy's routes are those of the registry, although
\* a regeneration reads one app after the other while the registry changes.
RoutesFollowRegistry ==
    waiting = {} /\ jobs = 0 /\ ~ regen.busy /\ ~ stale
        => \A a \in WebApps : caddy[a] = (IF a \in registered THEN port[a] ELSE NoPort)

\* A Streamlit app nobody accesses any more is stopped.
IdleAppIsStopped == \A a \in StreamlitApps : a \in Idle ~> a \notin Idle
=============================================================================
