--------------------------- MODULE ServiceManager ---------------------------
(***************************************************************************)
(* The life of service apps on Linux: the app registry and the port        *)
(* allocator of the platform process, which lose everything when it stops, *)
(* beside what survives it - app folders, unit files and running units.    *)
(*                                                                         *)
(*   managers/service_manager.py   start, stop, restart, create, remove,   *)
(*                                 reconciliation after a platform restart *)
(*   managers/app_manager.py       discovery, version bump, prepare        *)
(*   managers/port_manager.py      through PortPool                        *)
(*   main.py                       lifespan, discover, delete, cleanup     *)
(*                                                                         *)
(* Every handler runs on one event loop and none of the calls below awaits *)
(* between its first and its last state change, so each is one action; the *)
(* machine (processes that bind, die and are restarted by systemd, folders *)
(* that appear and vanish, the platform being killed) moves between them.  *)
(*                                                                         *)
(* Left out: the MCP and Caddy calls that follow an await (see MCPGateway),*)
(* health checks (HealthMonitor), databases and streams of an app, enable  *)
(* and disable (a boot of the machine is not modelled), and systemctl      *)
(* itself being unavailable: daemon-reload works, so what systemd has      *)
(* loaded is what the unit files say; start fails only for a unit that is  *)
(* not active, and stop only for one that systemd does not know.           *)
(***************************************************************************)
EXTENDS PortPool

CONSTANTS
    RestPorts, McpPorts,    \* the two configured ranges
    McpApps,                \* apps whose manifest declares mcp_server
    AutoStart,              \* apps whose manifest declares auto_start
    Removable,              \* bound: apps whose folder comes and goes
    NoUnit                  \* no unit file, no process

ASSUME ServicesAssumption ==
    /\ RestPorts \subseteq Nat
    /\ McpPorts \subseteq Nat
    /\ McpApps \subseteq Apps
    /\ AutoStart \subseteq Apps
    /\ Removable \subseteq Apps

VARIABLES
    platform,       \* "down", "booting" (the auto-start loop), "up", or
                    \* "cleaning" (the loop over orphaned apps)
    queue,          \* apps the loop of "booting" or "cleaning" has still to do
    status,         \* registry: app -> AppStatus, "absent" when not registered
    assigned_port,  \* registry: runtime_info.assigned_port
    mcp_port,       \* registry: mcp_info.mcp_port
    rest, mcp,      \* the two pools of PortManager
    folder,         \* apps that have a folder under apps/
    unit_file,      \* the ports in the ExecStart of the unit file on disk
    unit,           \* the ports a running unit's process was started with
    listening       \* apps whose process has bound its ports

memory  == <<queue, status, assigned_port, mcp_port, rest, mcp>>
systemd == <<unit_file, unit, listening>>
vars    == <<platform, memory, folder, systemd>>

\* The AppStatus of an entry.  No call below treats DISCOVERED, ERROR and STOPPED
\* differently: the three are "idle".
Statuses == {"absent", "idle", "ready", "running"}
Ports(range) == range \cup {NoPort}
UnitSpecs == [port : RestPorts, mcp_port : Ports(McpPorts)]

ASSUME UnitAssumption == NoUnit \notin UnitSpecs

registered == {a \in Apps : status[a] # "absent"}
active     == {a \in Apps : unit[a] # NoUnit}
bound      == UNION {{unit[a].port, unit[a].mcp_port} : a \in listening} \ {NoPort}

Init ==
    /\ platform = "down" /\ queue = {}
    /\ status = [a \in Apps |-> "absent"]
    /\ assigned_port = [a \in Apps |-> NoPort]
    /\ mcp_port = [a \in Apps |-> NoPort]
    /\ rest = EmptyPool(RestPorts) /\ mcp = EmptyPool(McpPorts)
    /\ folder = Apps
    /\ unit_file = [a \in Apps |-> NoUnit]
    /\ unit = [a \in Apps |-> NoUnit]
    /\ listening = {}

-----------------------------------------------------------------------------
(* start_service                                                           *)

\* What one call allocates before it writes the unit file.  Nothing when the
\* app already has a port: then the MCP port is not looked at either.
FreshStart(a) == assigned_port[a] = NoPort

RestAnswer(a) ==
    IF FreshStart(a)
    THEN Allocate(rest, a, NoPort, bound)
    ELSE [port |-> assigned_port[a], pool |-> rest]

WantsMcpPort(a) ==
    /\ FreshStart(a) /\ RestAnswer(a).port # NoPort
    /\ a \in McpApps /\ mcp_port[a] = NoPort

McpAnswer(a) ==
    IF WantsMcpPort(a)
    THEN Allocate(mcp, a, NoPort, bound)
    ELSE [port |-> mcp_port[a], pool |-> mcp]

GoesOnWithoutPort(a) ==                                              \* mutant
    WantsMcpPort(a) => McpAnswer(a).port # NoPort

Allocated(a) ==
    /\ RestAnswer(a).port # NoPort
    /\ WantsMcpPort(a) => McpAnswer(a).port # NoPort

UnitFor(a, port, mport) ==
    [port |-> port, mcp_port |-> IF a \in McpApps THEN mport ELSE NoPort]

StartedUnit(a) == UnitFor(a, RestAnswer(a).port, McpAnswer(a).port)

NoStart == UNCHANGED <<status, systemd>>

\* The registry and the pools as the allocation leaves them.
KeepPorts(a) ==
    /\ assigned_port' = [assigned_port EXCEPT ![a] = RestAnswer(a).port]
    /\ mcp_port' = [mcp_port EXCEPT ![a] = McpAnswer(a).port]
    /\ rest' = RestAnswer(a).pool
    /\ mcp' = McpAnswer(a).pool

KeepMcpPort(a) ==                                                    \* mutant
    /\ assigned_port' = IF FreshStart(a) THEN [assigned_port EXCEPT ![a] = NoPort] ELSE assigned_port
    /\ mcp_port' = [mcp_port EXCEPT ![a] = McpAnswer(a).port]
    /\ rest' = IF FreshStart(a) THEN Release(RestAnswer(a).pool, a) ELSE rest
    /\ mcp' = McpAnswer(a).pool

ForgetToRelease(a) ==                                                \* mutant
    /\ assigned_port' = IF FreshStart(a) THEN [assigned_port EXCEPT ![a] = NoPort] ELSE assigned_port
    /\ mcp_port' = IF WantsMcpPort(a) THEN [mcp_port EXCEPT ![a] = NoPort] ELSE mcp_port
    /\ rest' = RestAnswer(a).pool
    /\ mcp' = IF WantsMcpPort(a) THEN Release(McpAnswer(a).pool, a) ELSE mcp

RollBackByHand(a) ==                                                 \* mutant
    /\ assigned_port' = IF FreshStart(a) THEN [assigned_port EXCEPT ![a] = NoPort] ELSE assigned_port
    /\ mcp_port' = IF WantsMcpPort(a) THEN [mcp_port EXCEPT ![a] = NoPort] ELSE mcp_port
    /\ rest' = IF FreshStart(a) THEN ReleaseForgetsAllocation(RestAnswer(a).pool, a) ELSE rest
    /\ mcp' = IF WantsMcpPort(a) THEN Release(McpAnswer(a).pool, a) ELSE mcp

\* The rollback: whatever this call allocated is given back.
RollBack(a) ==
    /\ assigned_port' = IF FreshStart(a) THEN [assigned_port EXCEPT ![a] = NoPort] ELSE assigned_port
    /\ mcp_port' = IF WantsMcpPort(a) THEN [mcp_port EXCEPT ![a] = NoPort] ELSE mcp_port
    /\ rest' = IF FreshStart(a) THEN Release(RestAnswer(a).pool, a) ELSE rest
    /\ mcp' = IF WantsMcpPort(a) THEN Release(McpAnswer(a).pool, a) ELSE mcp

SetStatus(a, s) == status' = [status EXCEPT ![a] = s]

WriteUnitFile(a, spec) == unit_file' = [unit_file EXCEPT ![a] = spec]

\* A required secret is missing: refused before any port is allocated.
StartRefused(a) ==
    /\ SetStatus(a, "idle")
    /\ UNCHANGED <<assigned_port, mcp_port, rest, mcp, systemd>>

\* No port, or a REST port but no MCP port: the REST port goes back.
StartWithoutPorts(a) ==
    /\ ~ Allocated(a)
    /\ RollBack(a)
    /\ NoStart

\* create_service_file fails, before or after the file has been written.
StartFileFails(a) ==
    /\ Allocated(a)
    /\ RollBack(a)
    /\ unit_file' \in {unit_file, [unit_file EXCEPT ![a] = StartedUnit(a)]}
    /\ UNCHANGED <<status, unit, listening>>

\* The per-app secrets file cannot be written.
StartSecretsFail(a) ==
    /\ Allocated(a)
    /\ RollBack(a)
    /\ WriteUnitFile(a, StartedUnit(a))
    /\ UNCHANGED <<status, unit, listening>>

\* An exception after the allocation: status ERROR and nothing is given back.
StartRaises(a) ==
    /\ Allocated(a)
    /\ KeepPorts(a)
    /\ SetStatus(a, "idle")
    /\ WriteUnitFile(a, StartedUnit(a))
    /\ UNCHANGED <<unit, listening>>

\* systemctl start fails; it does nothing to a unit that is already active.
StartUnitFails(a) ==
    /\ Allocated(a)
    /\ unit[a] = NoUnit
    /\ RollBack(a)
    /\ SetStatus(a, "idle")
    /\ WriteUnitFile(a, StartedUnit(a))
    /\ UNCHANGED <<unit, listening>>

StartWorks(a) ==
    /\ Allocated(a)
    /\ KeepPorts(a)
    /\ SetStatus(a, "running")
    /\ WriteUnitFile(a, StartedUnit(a))
    /\ unit' = IF unit[a] = NoUnit THEN [unit EXCEPT ![a] = StartedUnit(a)] ELSE unit
    /\ UNCHANGED listening

start_service(a) ==
    /\ a \in registered
    /\ \/ StartRefused(a)
       \/ StartWithoutPorts(a)
       \/ StartFileFails(a)
       \/ StartSecretsFail(a)
       \/ StartRaises(a)
       \/ StartUnitFails(a)
       \/ StartWorks(a)
    /\ UNCHANGED folder
-----------------------------------------------------------------------------
(* The other calls on one unit.  stop, restart and remove take any id: the *)
(* unit of an app that is not registered is stopped or started all the     *)
(* same, and update_app then finds no entry to change.                     *)

UpdateStatus(a, s) == IF a \in registered THEN SetStatus(a, s) ELSE UNCHANGED status

Known(a) == unit_file[a] # NoUnit \/ unit[a] # NoUnit

StopUnits(S) ==
    /\ unit' = [a \in Apps |-> IF a \in S THEN NoUnit ELSE unit[a]]
    /\ listening' = listening \ S

PoolsUnchanged == UNCHANGED <<rest, mcp, assigned_port, mcp_port>>

\* Neither the ports nor assigned_port are given up.
stop_service(a) ==
    /\ Known(a)
    /\ StopUnits({a})
    /\ UpdateStatus(a, "idle")
    /\ PoolsUnchanged /\ UNCHANGED <<unit_file, folder>>

\* systemctl restart uses the unit file as it is; no unit file is written and
\* no port is allocated.  When the new process cannot be started the unit is
\* left stopped and the registry unchanged.
restart_service(a) ==
    /\ unit_file[a] # NoUnit
    /\ \/ unit' = [unit EXCEPT ![a] = unit_file[a]] /\ UpdateStatus(a, "running")
       \/ unit' = [unit EXCEPT ![a] = NoUnit] /\ UNCHANGED status
    /\ listening' = listening \ {a}
    /\ PoolsUnchanged /\ UNCHANGED <<unit_file, folder>>

create_service_file(a) ==
    /\ a \in registered /\ assigned_port[a] # NoPort
    /\ WriteUnitFile(a, UnitFor(a, assigned_port[a], mcp_port[a]))
    /\ PoolsUnchanged /\ UNCHANGED <<status, unit, listening, folder>>

\* Stop, disable, unlink, reload, for every app of S.
RemoveUnits(S) ==
    /\ StopUnits(S)
    /\ unit_file' = [a \in Apps |-> IF a \in S THEN NoUnit ELSE unit_file[a]]

RemoveKeepsStatus(a) ==                                              \* mutant
    RemoveUnits({a}) /\ PoolsUnchanged /\ UNCHANGED <<status, folder>>

remove_service(a) ==
    /\ RemoveUnits({a})
    /\ IF Known(a) THEN UpdateStatus(a, "idle") ELSE UNCHANGED status
    /\ PoolsUnchanged /\ UNCHANGED folder

-----------------------------------------------------------------------------
(* Deleting an app: its unit is removed, the two ports the registry shows  *)
(* are released, the entry is dropped.                                     *)

RestRaises(a) == assigned_port[a] # NoPort /\ Dangling(rest, a)
McpRaises(a)  == mcp_port[a] # NoPort /\ Dangling(mcp, a)

DropKeepsMcpPort(a) ==                                               \* mutant
    /\ rest' = IF assigned_port[a] # NoPort THEN Release(rest, a) ELSE rest
    /\ mcp' = mcp
    /\ SetStatus(a, "absent")
    /\ assigned_port' = [assigned_port EXCEPT ![a] = NoPort]
    /\ mcp_port' = [mcp_port EXCEPT ![a] = NoPort]

DropEntry(a) ==
    /\ rest' = IF assigned_port[a] # NoPort THEN Release(rest, a) ELSE rest
    /\ mcp' = IF mcp_port[a] # NoPort THEN Release(mcp, a) ELSE mcp
    /\ SetStatus(a, "absent")
    /\ assigned_port' = [assigned_port EXCEPT ![a] = NoPort]
    /\ mcp_port' = [mcp_port EXCEPT ![a] = NoPort]

AppDropped(a) == ~ RestRaises(a) /\ ~ McpRaises(a) /\ DropEntry(a)

\* A KeyError in release_port or release_mcp_port: the unit is gone, the entry
\* is not, and the REST port has been released when the MCP lookup raised.
DropRaises(a) ==
    /\ RestRaises(a) \/ McpRaises(a)
    /\ rest' = IF ~ RestRaises(a) /\ assigned_port[a] # NoPort THEN Release(rest, a) ELSE rest
    /\ IF Known(a) THEN SetStatus(a, "idle") ELSE UNCHANGED status
    /\ UNCHANGED <<mcp, assigned_port, mcp_port>>

\* DELETE /api/apps/{app_id}, with or without delete_folder.
delete_app(a) ==
    /\ a \in registered
    /\ RemoveUnits({a})
    /\ \/ AppDropped(a) /\ folder' \in {folder, folder \ ({a} \cap Removable)}
       \/ DropRaises(a) /\ UNCHANGED folder

-----------------------------------------------------------------------------
(* The other handlers.                                                     *)

\* prepare_app.  An app that is READY is left alone; a running one is not, and
\* its own listening port is then given back and another one allocated.
prepare_app(a) ==
    /\ a \in registered /\ status[a] # "ready"
    /\ LET answer == Allocate(rest, a, NoPort, bound)
       IN  \/ SetStatus(a, "idle") /\ UNCHANGED <<rest, assigned_port>>
          \/ /\ ~ Dangling(rest, a)
             /\ rest' = answer.pool
             /\ IF answer.port # NoPort
                THEN /\ SetStatus(a, "ready")
                     /\ assigned_port' = [assigned_port EXCEPT ![a] = answer.port]
                ELSE SetStatus(a, "idle") /\ UNCHANGED assigned_port
          \/ /\ Dangling(rest, a)      \* KeyError, after pip install set READY
             /\ SetStatus(a, "ready") \/ UNCHANGED status
             /\ UNCHANGED <<rest, assigned_port>>
    /\ UNCHANGED <<mcp, mcp_port, folder, systemd>>

\* POST /api/ports/cleanup.  Time is not modelled: old are the apps whose
\* allocation, never marked in_use by the platform, happens to be older than an
\* hour.  A dangling mapping raises before anything is released; two stale apps
\* on one port raise half way.
cleanup_stale_ports ==
    /\ \A a \in Apps : ~ Dangling(rest, a)
    /\ \E old \in SUBSET {a \in Apps : rest.app_ports[a] \notin bound \cup {NoPort}} :
       \E done \in SUBSET old :
          /\ Served(rest, old, done)
          /\ rest' = ReleaseAll(rest, done)
    /\ UNCHANGED <<status, assigned_port, mcp, mcp_port, folder, systemd>>

\* What discover_apps does to the registry: the new folders whose dependencies,
\* database and streams could be set up (found) are registered, and an app whose
\* manifest has another version (bumped) becomes DISCOVERED again, or ERROR when
\* its migrations fail, whatever its unit is doing.
Discovered(found, bumped) ==
    [a \in Apps |-> IF a \in found \cup bumped THEN "idle" ELSE status[a]]

\* POST /api/apps/discover, up to the loop over the orphaned apps.
discover_apps ==
    /\ platform = "up"
    /\ \E found \in SUBSET (folder \ registered), bumped \in SUBSET (folder \cap registered) :
          status' = Discovered(found, bumped)
    /\ queue' = registered \ folder
    /\ platform' = IF registered \subseteq folder THEN "up" ELSE "cleaning"
    /\ PoolsUnchanged /\ UNCHANGED <<folder, systemd>>

\* One round of _cleanup_orphaned_apps; a KeyError ends the loop.
cleanup_orphan(a) ==
    /\ platform = "cleaning" /\ a \in queue
    /\ RemoveUnits({a})
    /\ \/ AppDropped(a) /\ queue' = queue \ {a}
       \/ DropRaises(a) /\ queue' = {}
    /\ platform' = IF queue' = {} THEN "up" ELSE "cleaning"
    /\ UNCHANGED folder
-----------------------------------------------------------------------------
(* Starting the platform: discovery over an empty registry, the orphans of *)
(* that registry (there are none: every entry comes from a folder),        *)
(* reconciliation, then the auto-start loop.                               *)

\* reconcile_running_units looks at the units systemd reports as active whose
\* file exists and whose app has just been discovered, and believes the file.
Reconciled(found) == {a \in active \cap found : unit_file[a] # NoUnit}

WithMcpPort(S) == {a \in S \cap McpApps : unit_file[a].mcp_port # NoPort}

PortsInFiles(S)    == [a \in Apps |-> IF a \in S THEN unit_file[a].port ELSE NoPort]
McpPortsInFiles(S) == [a \in Apps |-> IF a \in S THEN unit_file[a].mcp_port ELSE NoPort]

\* The pools after claim_port for every app with a port in portOf.  Two units may
\* name one port: it is the allocation of the one claimed last.
Claimed(range, portOf) ==
    LET claims(p) == {a \in Apps : portOf[a] = p}
    IN  {pool \in Pools(range) :
            /\ pool.app_ports = portOf
            /\ \A p \in range : IF claims(p) = {}
                                 THEN pool.allocations[p] = NoAllocation
                                 ELSE \E a \in claims(p) : pool.allocations[p] = NewAllocation(a)}

boot ==
    /\ platform = "down" /\ platform' = "booting"
    /\ \E found \in SUBSET folder :
          /\ queue' = found \cap AutoStart
          /\ status' = [a \in Apps |-> CASE a \in Reconciled(found) -> "running"
                                        [] a \in found \ Reconciled(found) -> "idle"
                                        [] OTHER -> "absent"]
          /\ assigned_port' = PortsInFiles(Reconciled(found))
          /\ mcp_port' = McpPortsInFiles(WithMcpPort(Reconciled(found)))
    /\ rest' \in Claimed(RestPorts, assigned_port')
    /\ mcp' \in Claimed(McpPorts, mcp_port')
    /\ UNCHANGED <<folder, systemd>>

\* One round of the auto-start loop.  An app that is already RUNNING is skipped;
\* so is one whose Redis or Postgres is not there.
auto_start(a) ==
    /\ platform = "booting" /\ a \in queue /\ queue' = queue \ {a}
    /\ UNCHANGED platform
    /\ \/ status[a] # "running" /\ start_service(a)
       \/ PoolsUnchanged /\ UNCHANGED <<status, folder, systemd>>

boot_done ==
    /\ platform = "booting" /\ queue = {} /\ platform' = "up"
    /\ UNCHANGED <<memory, folder, systemd>>

\* The process ends, killed or shut down: the memory is lost, units go on.
Forget ==
    /\ platform' = "down" /\ queue' = {}
    /\ status' = [a \in Apps |-> "absent"]
    /\ assigned_port' = [a \in Apps |-> NoPort]
    /\ mcp_port' = [a \in Apps |-> NoPort]
    /\ rest' = EmptyPool(RestPorts) /\ mcp' = EmptyPool(McpPorts)
    /\ UNCHANGED folder

crash == platform # "down" /\ Forget /\ UNCHANGED systemd

\* Killed inside start_service, between writing the unit file and starting it.
crash_in_start(a) ==
    /\ platform = "up" /\ a \in registered /\ Allocated(a)
    /\ Forget
    /\ WriteUnitFile(a, StartedUnit(a))
    /\ UNCHANGED <<unit, listening>>

-----------------------------------------------------------------------------
(* The machine.                                                            *)

MachineStep == UNCHANGED <<platform, memory>>

\* The process of a unit binds its ports.
process_listens(a) ==
    /\ a \in active \ listening
    /\ {unit[a].port, unit[a].mcp_port} \cap bound = {}
    /\ listening' = listening \cup {a}
    /\ MachineStep /\ UNCHANGED <<folder, unit, unit_file>>

\* It dies.  systemd starts it again from the unit file of now, or, when there is
\* none or Restart= says no, leaves the unit inactive.
process_dies(a) ==
    /\ a \in active
    /\ unit' \in {[unit EXCEPT ![a] = NoUnit], [unit EXCEPT ![a] = unit_file[a]]}
    /\ listening' = listening \ {a}
    /\ MachineStep /\ UNCHANGED <<folder, unit_file>>

folder_changes(a) ==
    /\ folder' = IF a \in folder THEN folder \ {a} ELSE folder \cup {a}
    /\ MachineStep /\ UNCHANGED systemd

-----------------------------------------------------------------------------

handler(a) ==
    /\ platform = "up" /\ UNCHANGED <<platform, queue>>
    /\ \/ start_service(a)
       \/ stop_service(a)
       \/ restart_service(a)
       \/ create_service_file(a)
       \/ remove_service(a)
       \/ delete_app(a)
       \/ prepare_app(a)

Next ==
    \/ \E a \in Apps : handler(a)
    \/ platform = "up" /\ UNCHANGED <<platform, queue>> /\ cleanup_stale_ports
    \/ discover_apps
    \/ \E a \in Apps : cleanup_orphan(a)
    \/ boot
    \/ \E a \in Apps : auto_start(a)
    \/ boot_done
    \/ crash
    \/ \E a \in Apps : crash_in_start(a)
    \/ \E a \in Apps : process_listens(a) \/ process_dies(a)
    \/ \E a \in Removable : folder_changes(a)

Spec == Init /\ [][Next]_vars

-----------------------------------------------------------------------------
(* Properties *)

TypeOK ==
    /\ platform \in {"down", "booting", "up", "cleaning"}
    /\ queue \subseteq Apps
    /\ status \in [Apps -> Statuses]
    /\ assigned_port \in [Apps -> Ports(RestPorts)]
    /\ mcp_port \in [Apps -> Ports(McpPorts)]
    /\ rest \in Pools(RestPorts) /\ mcp \in Pools(McpPorts)
    /\ folder \subseteq Apps
    /\ unit_file \in [Apps -> UnitSpecs \cup {NoUnit}]
    /\ unit \in [Apps -> UnitSpecs \cup {NoUnit}]
    /\ listening \subseteq active

\* A port is given back exactly when the registry forgets it: no start that fails
\* half way, delete, cleanup, version bump or reconciliation leaves the allocator
\* holding a port for an app that is not registered or that the registry gives
\* another port.  Otherwise the port is lost until the platform restarts.
RegistryOwnsPorts ==
    \A a \in Apps :
        /\ rest.app_ports[a] # NoPort => a \in registered /\ assigned_port[a] = rest.app_ports[a]
        /\ mcp.app_ports[a] # NoPort => a \in registered /\ mcp_port[a] = mcp.app_ports[a]

\* The contract in claim_port's docstring is kept by reconciliation: no entry of
\* allocations is ever orphaned, even when two unit files name one port.
NotOrphaned(pool) ==
    \A p \in DOMAIN pool.allocations :
        pool.allocations[p] # NoAllocation => pool.app_ports[pool.allocations[p].app_id] = p

NoOrphanedEntry == NotOrphaned(rest) /\ NotOrphaned(mcp)

\* An app that the registry shows as running has a unit file, so a platform
\* restart will find its port again, whatever was removed, deleted or cleaned up
\* since it was started.
RunningHasUnitFile == \A a \in Apps : status[a] = "running" => unit_file[a] # NoUnit

\* When an app leaves the registry of a living platform (deleted, or orphaned by
\* its folder) nothing of it is left that a later start could trip over: no
\* unit, no unit file, no port in either pool.
DeletionIsComplete ==
    [][\A a \in Apps :
          a \in registered /\ status'[a] = "absent" /\ platform' # "down"
             => /\ unit'[a] = NoUnit /\ unit_file'[a] = NoUnit /\ a \notin listening'
                /\ rest'.app_ports[a] = NoPort /\ mcp'.app_ports[a] = NoPort]_vars

\* A start that fails gives back both ports or neither, so the MCP port of an app
\* without a REST port is never left behind for a deletion to miss.
McpNeverAlone == \A a \in Apps : mcp_port[a] # NoPort => assigned_port[a] # NoPort
-----------------------------------------------------------------------------
(* What comments of the code say and the code does not do. *)

\* claim_port: "used during startup reconciliation when a per-app systemd unit is
\* already active on `port` - we know the port is in use by us".
ClaimedPortIsTheUnits ==
    platform = "booting" =>
        \A a \in active : status[a] = "running" => rest.app_ports[a] = unit[a].port

\* "start_service auto-allocates REST and MCP ports": an MCP app that it has
\* started has an MCP port.
StartedMcpAppHasMcpPort ==
    [][\A a \in McpApps : StartWorks(a) => mcp_port'[a] # NoPort]_vars

\* "Clean up apps whose folders were deleted since last run": once the platform
\* has started, an app without a folder has no unit and no unit file.
StartupCleansOrphans ==
    [][platform = "down" /\ platform' = "booting"
          => \A a \in Apps \ folder : unit'[a] = NoUnit /\ unit_file'[a] = NoUnit]_vars
=============================================================================
