----------------------------- MODULE MCPGateway -----------------------------
(***************************************************************************)
(* managers/mcp_gateway.py: the index of the tools of all apps that the    *)
(* platform offers to MCP clients, beside the registry it must agree with. *)
(* A request that starts or restarts an app awaits the list of tools from  *)
(* the app's own MCP server; meanwhile other requests stop, delete or      *)
(* restart the same app, and the health monitor probes it.                 *)
(*                                                                         *)
(* Registry entries and their MCPInfo are objects: a task keeps the entry  *)
(* it looked up before its await, and update_app puts the MCPInfo of that  *)
(* entry into whatever entry has the app's id by then.  entry and info     *)
(* below are such references.                                              *)
(*                                                                         *)
(* Apps here are the apps with an MCP server and an MCP port (the others   *)
(* pass through without a change); a failed start is ServiceManager's.     *)
(* Left out: tokens and roles, the call of a tool, which changes no state  *)
(* of the platform, and on_app_version_bump, which nothing calls.          *)
(***************************************************************************)
EXTENDS Integers

CONSTANTS
    Apps,
    Tools,          \* names of tools
    Requests,       \* the start and restart requests that can be in flight
    NoApp,          \* the app of no request
    MaxEntries,     \* bound: registrations of an app while the platform runs
    MaxBoots        \* bound: restarts of the platform

ASSUME GatewayAssumption ==
    /\ MaxEntries \in Nat \ {0} /\ MaxBoots \in Nat
    /\ NoApp \notin Apps

VARIABLES
    entry,      \* app -> its registry entry, 0 when it is not registered
    made,       \* app -> the number of entries made for it
    info,       \* app -> entry -> the MCPInfo the entry refers to
    healthy,    \* app -> MCPInfo -> its healthy
    registered_tools,   \* app -> MCPInfo -> its registered_tools
    running,    \* apps whose status is RUNNING
    tool_index, \* app -> the names of its tools in _tool_index
    offers,     \* app -> what its MCP server lists, {} while it does not answer
    active,     \* apps whose unit is active
    request,    \* the on_app_started in flight for each request
    probe,      \* app -> the entry a health probe holds, 0 when there is none
    boots

registry == <<entry, made, info>>
mcp_info == <<healthy, registered_tools>>
units    == <<running, offers, active>>
vars     == <<registry, mcp_info, units, tool_index, request, probe, boots>>

Entries == 1 .. MaxEntries

NoRequest == [app |-> NoApp, entry |-> 0, pc |-> "none", old_tools |-> {}, fetched |-> {}]

Fresh(S) == [a \in Apps |-> IF a \in S THEN 1 ELSE 0]

FreshInfo ==
    /\ info' = [a \in Apps |-> [e \in Entries |-> e]]
    /\ healthy' = [a \in Apps |-> [e \in Entries |-> FALSE]]
    /\ registered_tools' = [a \in Apps |-> [e \in Entries |-> {}]]

Init ==
    /\ entry = Fresh(Apps) /\ made = Fresh(Apps)
    /\ info = [a \in Apps |-> [e \in Entries |-> e]]
    /\ healthy = [a \in Apps |-> [e \in Entries |-> FALSE]]
    /\ registered_tools = [a \in Apps |-> [e \in Entries |-> {}]]
    /\ running = {} /\ active = {}
    /\ tool_index = [a \in Apps |-> {}]
    /\ offers = [a \in Apps |-> {}]
    /\ request = [r \in Requests |-> NoRequest]
    /\ probe = [a \in Apps |-> 0]
    /\ boots = 0

registered == {a \in Apps : entry[a] # 0}

\* The MCPInfo of the entry the registry has now.
Healthy(a) == healthy[a][info[a][entry[a]]]
RegisteredTools(a) == registered_tools[a][info[a][entry[a]]]

\* registry.update_app(app_id, mcp_info=m): the current entry refers to m.
UpdateInfo(a, m) ==
    info' = IF a \in registered THEN [info EXCEPT ![a][entry[a]] = m] ELSE info

SetRunning(a)   == running' = IF a \in registered THEN running \cup {a} ELSE running
Halt(a)         == active' = active \ {a} /\ offers' = [offers EXCEPT ![a] = {}]
stop_service(a) == running' = running \ {a} /\ Halt(a)

-----------------------------------------------------------------------------
(* Requests.                                                               *)

\* on_app_started, up to the await in _fetch_tools_from_app.
Fetch(r, a) ==
    request' = [request EXCEPT ![r] =
        [app |-> a, entry |-> entry[a], pc |-> "fetching",
         old_tools |-> RegisteredTools(a), fetched |-> {}]]

\* start_service worked.  A unit that was already active is left as it is.
start(r, a) ==
    /\ request[r] = NoRequest /\ a \in registered
    /\ SetRunning(a) /\ active' = active \cup {a}
    /\ Fetch(r, a)
    /\ UNCHANGED <<registry, mcp_info, offers, tool_index, probe, boots>>

restart(r, a) ==
    /\ request[r] = NoRequest /\ a \in registered
    /\ SetRunning(a) /\ active' = active \cup {a}
    /\ offers' = [offers EXCEPT ![a] = {}]
    /\ Fetch(r, a)
    /\ UNCHANGED <<registry, mcp_info, tool_index, probe, boots>>

\* The server answers, or the last of three attempts has found none.
fetch_ends(r) ==
    /\ request[r].pc = "fetching"
    /\ \E tools \in {{}, offers[request[r].app]} :
          request' = [request EXCEPT ![r].pc = "fetched", ![r].fetched = tools]
    /\ UNCHANGED <<registry, mcp_info, units, tool_index, probe, boots>>

EndRequest(r) == request' = [request EXCEPT ![r] = NoRequest]

AcceptsAnything(old_tools, new_tools) == old_tools = old_tools            \* mutant

check_backward_compatibility(old_tools, new_tools) == old_tools \subseteq new_tools

\* No tools: the index stays as it is.
NothingFetched(r) ==
    /\ request[r].fetched = {}
    /\ UNCHANGED <<info, mcp_info, units, tool_index>>

RejectedAfterIndexing(r) ==                                          \* mutant
    LET a == request[r].app
        m == info[a][request[r].entry]
    IN  /\ request[r].fetched # {}
        /\ ~ check_backward_compatibility(request[r].old_tools, request[r].fetched)
        /\ tool_index' = [tool_index EXCEPT ![a] = request[r].fetched]
        /\ healthy' = [healthy EXCEPT ![a][m] = FALSE]
        /\ UpdateInfo(a, m)
        /\ stop_service(a)
        /\ UNCHANGED registered_tools

\* A tool is missing: the app is stopped, its entries in the index stay.
Rejected(r) ==
    LET a == request[r].app
        m == info[a][request[r].entry]
    IN  /\ request[r].fetched # {}
        /\ ~ check_backward_compatibility(request[r].old_tools, request[r].fetched)
        /\ healthy' = [healthy EXCEPT ![a][m] = FALSE]
        /\ UpdateInfo(a, m)
        /\ stop_service(a)
        /\ UNCHANGED <<registered_tools, tool_index>>

Accepted(r) ==
    LET a == request[r].app
        m == info[a][request[r].entry]
    IN  /\ request[r].fetched # {}
        /\ check_backward_compatibility(request[r].old_tools, request[r].fetched)
        /\ tool_index' = [tool_index EXCEPT ![a] = request[r].fetched]
        /\ healthy' = [healthy EXCEPT ![a][m] = TRUE]
        /\ registered_tools' = [registered_tools EXCEPT ![a][m] = request[r].fetched]
        /\ UpdateInfo(a, m)
        /\ UNCHANGED units

\* on_app_started goes on; the handler stops an app that was rejected.
on_app_started(r) ==
    /\ request[r].pc = "fetched"
    /\ NothingFetched(r) \/ Rejected(r) \/ Accepted(r)
    /\ EndRequest(r)
    /\ UNCHANGED <<entry, made, probe, boots>>

\* The stop request, with on_app_stopped, which awaits nothing.
on_app_stopped(a) ==
    /\ stop_service(a)
    /\ tool_index' = [tool_index EXCEPT ![a] = {}]
    /\ UNCHANGED <<registry, mcp_info, request, probe, boots>>

DeleteWithoutStop(a) ==                                              \* mutant
    /\ a \in registered
    /\ entry' = [entry EXCEPT ![a] = 0]
    /\ UNCHANGED <<made, info, mcp_info, units, tool_index, request, probe, boots>>

\* Deletion and the cleanup of orphans do not tell the gateway.
delete_app(a) ==
    /\ a \in registered
    /\ entry' = [entry EXCEPT ![a] = 0]
    /\ stop_service(a)
    /\ UNCHANGED <<made, info, mcp_info, tool_index, request, probe, boots>>

register_app(a) ==
    /\ a \notin registered /\ made[a] < MaxEntries
    /\ entry' = [entry EXCEPT ![a] = made[a] + 1]
    /\ made' = [made EXCEPT ![a] = made[a] + 1]
    /\ UNCHANGED <<info, mcp_info, units, tool_index, request, probe, boots>>

\* A version bump makes a running app DISCOVERED; failed health checks, ERROR.
status_lost(a) ==
    /\ a \in running /\ running' = running \ {a}
    /\ UNCHANGED <<registry, mcp_info, offers, active, tool_index, request, probe, boots>>

-----------------------------------------------------------------------------
(* The probe of the health monitor, after /health of a running app.        *)

probe_mcp(a) ==
    /\ a \in running /\ probe[a] = 0
    /\ probe' = [probe EXCEPT ![a] = entry[a]]
    /\ UNCHANGED <<registry, mcp_info, units, tool_index, request, boots>>

probe_ends(a) ==
    /\ probe[a] # 0
    /\ LET m == info[a][probe[a]]
       IN  /\ \E ok \in {FALSE, offers[a] # {}} : healthy' = [healthy EXCEPT ![a][m] = ok]
           /\ UpdateInfo(a, m)
    /\ probe' = [probe EXCEPT ![a] = 0]
    /\ UNCHANGED <<entry, made, registered_tools, units, tool_index, request, boots>>

-----------------------------------------------------------------------------
(* The platform starts again: a new registry, in which the apps with an    *)
(* active unit are RUNNING; then initialize and the loop of lifespan fetch *)
(* the tools of the apps that are healthy.                                 *)

\* No MCPInfo of a new registry is healthy: nothing has probed it.
SyncedAtStartup == {a \in registered : healthy'[a][info'[a][entry'[a]]]}

reboot ==
    /\ boots < MaxBoots /\ boots' = boots + 1
    /\ entry' = Fresh(registered) /\ made' = Fresh(registered)
    /\ FreshInfo
    /\ running' = active \cap registered
    /\ tool_index' = [a \in Apps |-> IF a \in SyncedAtStartup THEN offers[a] ELSE {}]
    /\ request' = [r \in Requests |-> NoRequest]
    /\ probe' = [a \in Apps |-> 0]
    /\ UNCHANGED <<offers, active>>

-----------------------------------------------------------------------------
(* The apps: a new process may come from a new version of the code.        *)

serves(a) ==
    /\ a \in active /\ offers[a] = {}
    /\ \E tools \in SUBSET Tools \ {{}} : offers' = [offers EXCEPT ![a] = tools]
    /\ UNCHANGED <<registry, mcp_info, running, active, tool_index, request, probe, boots>>

\* It dies and stays down, or systemd starts it again.
dies(a) ==
    /\ a \in active /\ active' \in {active, active \ {a}}
    /\ offers' = [offers EXCEPT ![a] = {}]
    /\ UNCHANGED <<registry, mcp_info, running, tool_index, request, probe, boots>>

Next ==
    \/ \E r \in Requests :
          \/ \E a \in Apps : start(r, a) \/ restart(r, a)
          \/ fetch_ends(r)
          \/ on_app_started(r)
    \/ \E a \in Apps :
          \/ on_app_stopped(a)
          \/ delete_app(a)
          \/ register_app(a)
          \/ status_lost(a)
          \/ probe_mcp(a)
          \/ probe_ends(a)
          \/ serves(a)
          \/ dies(a)
    \/ reboot

\* The event loop resumes a task that is ready; an answer or the end of the third
\* attempt comes in bounded time.
Fairness ==
    /\ \A r \in Requests : WF_vars(fetch_ends(r)) /\ WF_vars(on_app_started(r))
    /\ \A a \in Apps : WF_vars(probe_ends(a))

Spec == Init /\ [][Next]_vars /\ Fairness

-----------------------------------------------------------------------------
(* Properties *)

TypeOK ==
    /\ entry \in [Apps -> Entries \cup {0}]
    /\ made \in [Apps -> Entries \cup {0}]
    /\ \A a \in Apps : entry[a] \in {0, made[a]}
    /\ info \in [Apps -> [Entries -> Entries]]
    /\ healthy \in [Apps -> [Entries -> BOOLEAN]]
    /\ registered_tools \in [Apps -> [Entries -> SUBSET Tools]]
    /\ running \subseteq registered /\ active \subseteq Apps
    /\ tool_index \in [Apps -> SUBSET Tools] /\ offers \in [Apps -> SUBSET Tools]
    /\ request \in [Requests -> [app : Apps \cup {NoApp}, entry : Entries \cup {0},
                                 pc : {"none", "fetching", "fetched"},
                                 old_tools : SUBSET Tools, fetched : SUBSET Tools]]
    /\ probe \in [Apps -> Entries \cup {0}]
    /\ boots \in 0 .. MaxBoots

NeverDeleted(a) == a \in registered /\ made[a] = 1

\* However requests, stops and probes of an app overlap, clients are offered all of
\* the tools the registry holds the app to, or none of them - unless the app has
\* been deleted in between, which leaves its tools in the index.
IndexAgreesWithRegistry ==
    \A a \in Apps : NeverDeleted(a) => tool_index[a] \in {{}, RegisteredTools(a)}

\* "Check that all previously registered tool names are still present": what a
\* registered app has once offered it goes on being held to, through stops,
\* restarts with new code and rejected versions, as long as one request for it is
\* handled at a time.
RegisteredToolsStay ==
    [][\A a \in Apps : NeverDeleted(a) /\ boots' = boots /\ entry'[a] = entry[a]
          => RegisteredTools(a) \subseteq RegisteredTools(a)']_vars

-----------------------------------------------------------------------------
(* What a document of the project says and the code does not do. *)

\* An MCP client "receives a tool listing containing all tools from all healthy
\* MCP-enabled apps": an app that stays running, answering and healthy is listed.
HealthyAppIsListed ==
    \A a \in Apps :
        ~ <>[](a \in running /\ offers[a] # {} /\ Healthy(a) /\ tool_index[a] = {})
=============================================================================
