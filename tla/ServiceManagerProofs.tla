------------------------ MODULE ServiceManagerProofs ------------------------
(***************************************************************************)
(* Proofs about ServiceManager for every set of apps and every two port    *)
(* ranges.  The invariant has two halves that hardly touch: Books, what    *)
(* the registry and the pools say of ports, and Machinery, what it says of *)
(* units and unit files.                                                   *)
(***************************************************************************)
EXTENDS ServiceManager, PortPoolProofs

\* Every allocation of a port is the registry's, and no MCP port stands alone.
Books ==
    /\ status \in [Apps -> Statuses]
    /\ assigned_port \in [Apps -> Ports(RestPorts)]
    /\ mcp_port \in [Apps -> Ports(McpPorts)]
    /\ Owned(rest, RestPorts)
    /\ Owned(mcp, McpPorts)
    /\ RegistryOwnsPorts
    /\ McpNeverAlone

Machinery ==
    /\ platform \in {"down", "booting", "up", "cleaning"}
    /\ queue \subseteq Apps
    /\ folder \subseteq Apps
    /\ unit_file \in [Apps -> UnitSpecs \cup {NoUnit}]
    /\ unit \in [Apps -> UnitSpecs \cup {NoUnit}]
    /\ listening \subseteq active
    /\ RunningHasUnitFile
    /\ platform = "down" => registered = {}

IInv == Books /\ Machinery

LEMMA PortsAreNat == NoPort \notin RestPorts /\ NoPort \notin McpPorts
BY AppsAssumption, ServicesAssumption

\* What one answer of the REST pool inside start_service is.
LEMMA RestAnswerIsOwned ==
    ASSUME Books, NEW a \in Apps
    PROVE  /\ Owned(RestAnswer(a).pool, RestPorts)
           /\ RestAnswer(a).port \in Ports(RestPorts)
           /\ ~ FreshStart(a) => RestAnswer(a).port = assigned_port[a] /\ RestAnswer(a).pool = rest
           /\ FreshStart(a) => RestAnswer(a).pool.app_ports
                                 = [rest.app_ports EXCEPT ![a] = RestAnswer(a).port]
<1>1. CASE ~ FreshStart(a)
    BY <1>1 DEF RestAnswer, Books
<1>2. CASE FreshStart(a)
    <2>1. rest.app_ports[a] = NoPort
        BY <1>2 DEF Books, RegistryOwnsPorts, FreshStart
    <2>2. ~ Dangling(rest, a) /\ Owned(rest, RestPorts) /\ RestPorts \in SUBSET Nat
        BY <2>1, ServicesAssumption DEF Dangling, Books
    <2>3. RestAnswer(a) = Allocate(rest, a, NoPort, bound)
        BY <1>2 DEF RestAnswer
    <2> QED
        BY <1>2, <2>2, <2>3, AllocateIsOwned DEF Ports
<1> QED
    BY <1>1, <1>2

LEMMA McpAnswerIsOwned ==
    ASSUME Books, NEW a \in Apps
    PROVE  /\ Owned(McpAnswer(a).pool, McpPorts)
           /\ McpAnswer(a).port \in Ports(McpPorts)
           /\ ~ WantsMcpPort(a) => McpAnswer(a).port = mcp_port[a] /\ McpAnswer(a).pool = mcp
           /\ WantsMcpPort(a) => McpAnswer(a).pool.app_ports
                                   = [mcp.app_ports EXCEPT ![a] = McpAnswer(a).port]
<1>1. CASE ~ WantsMcpPort(a)
    BY <1>1 DEF McpAnswer, Books
<1>2. CASE WantsMcpPort(a)
    <2>1. mcp.app_ports[a] = NoPort
        BY <1>2 DEF Books, RegistryOwnsPorts, WantsMcpPort
    <2>2. ~ Dangling(mcp, a) /\ Owned(mcp, McpPorts) /\ McpPorts \in SUBSET Nat
        BY <2>1, ServicesAssumption DEF Dangling, Books
    <2>3. McpAnswer(a) = Allocate(mcp, a, NoPort, bound)
        BY <1>2 DEF McpAnswer
    <2> QED
        BY <1>2, <2>2, <2>3, AllocateIsOwned DEF Ports
<1> QED
    BY <1>1, <1>2

LEMMA MappingsHaveTypes ==
    ASSUME NEW range, NEW pool, Owned(pool, range)
    PROVE  pool.app_ports \in [Apps -> range \cup {NoPort}]
BY DEF Owned, OwnedMaps

\* No entry is lost: what holds of all calls but a deletion and a crash.
KeepsEntries == \A b \in Apps : status[b] # "absent" => status'[b] # "absent"

\* A start that keeps what it has allocated.
LEMMA KeepPortsKeepsBooks ==
    ASSUME Books, NEW a \in Apps, status[a] # "absent", Allocated(a), KeepPorts(a),
           status' \in [Apps -> Statuses], KeepsEntries
    PROVE  Books'
<1> DEFINE answer == RestAnswer(a)
           mcp_answer == McpAnswer(a)
<1>1. /\ answer.port # NoPort /\ answer.port \in Ports(RestPorts)
      /\ mcp_answer.port \in Ports(McpPorts)
      /\ Owned(answer.pool, RestPorts) /\ Owned(mcp_answer.pool, McpPorts)
    BY RestAnswerIsOwned, McpAnswerIsOwned DEF Allocated
<1>2. /\ rest.app_ports \in [Apps -> RestPorts \cup {NoPort}]
      /\ mcp.app_ports \in [Apps -> McpPorts \cup {NoPort}]
    BY MappingsHaveTypes DEF Books
<1>3. /\ ~ FreshStart(a) => answer.port = assigned_port[a] /\ answer.pool = rest
      /\ FreshStart(a) => answer.pool.app_ports = [rest.app_ports EXCEPT ![a] = answer.port]
    BY RestAnswerIsOwned
<1>4. /\ ~ WantsMcpPort(a) => mcp_answer.port = mcp_port[a] /\ mcp_answer.pool = mcp
      /\ WantsMcpPort(a) => mcp_answer.pool.app_ports = [mcp.app_ports EXCEPT ![a] = mcp_answer.port]
    BY McpAnswerIsOwned
<1> HIDE DEF answer, mcp_answer
<1>5. \A b \in Apps :
          /\ answer.pool.app_ports[b] =
                IF b = a /\ FreshStart(a) THEN answer.port ELSE rest.app_ports[b]
          /\ mcp_answer.pool.app_ports[b] =
                IF b = a /\ WantsMcpPort(a) THEN mcp_answer.port ELSE mcp.app_ports[b]
    BY <1>2, <1>3, <1>4
<1>6. /\ assigned_port' = [assigned_port EXCEPT ![a] = answer.port]
      /\ mcp_port' = [mcp_port EXCEPT ![a] = mcp_answer.port]
      /\ rest' = answer.pool /\ mcp' = mcp_answer.pool
    BY DEF KeepPorts, answer, mcp_answer
<1>7. /\ assigned_port' \in [Apps -> Ports(RestPorts)]
      /\ mcp_port' \in [Apps -> Ports(McpPorts)]
    BY <1>1, <1>6 DEF Books
<1>8. RegistryOwnsPorts'
    BY <1>1, <1>3, <1>4, <1>5, <1>6 DEF Books, RegistryOwnsPorts, registered, KeepsEntries
<1>9. McpNeverAlone'
    BY <1>1, <1>6 DEF Books, McpNeverAlone
<1> QED
    BY <1>1, <1>6, <1>7, <1>8, <1>9 DEF Books

\* A start that gives back what it has allocated.
LEMMA RollBackKeepsBooks ==
    ASSUME Books, NEW a \in Apps, RollBack(a),
           status' \in [Apps -> Statuses], KeepsEntries
    PROVE  Books'
<1> DEFINE answer == RestAnswer(a)
           mcp_answer == McpAnswer(a)
<1>1. Owned(answer.pool, RestPorts) /\ Owned(mcp_answer.pool, McpPorts)
    BY RestAnswerIsOwned, McpAnswerIsOwned
<1>2. /\ rest.app_ports \in [Apps -> RestPorts \cup {NoPort}]
      /\ mcp.app_ports \in [Apps -> McpPorts \cup {NoPort}]
    BY MappingsHaveTypes DEF Books
<1>3. /\ FreshStart(a) => answer.pool.app_ports = [rest.app_ports EXCEPT ![a] = answer.port]
      /\ WantsMcpPort(a) => mcp_answer.pool.app_ports = [mcp.app_ports EXCEPT ![a] = mcp_answer.port]
    BY RestAnswerIsOwned, McpAnswerIsOwned
<1>4. /\ Owned(Release(answer.pool, a), RestPorts)
      /\ Release(answer.pool, a).app_ports = [answer.pool.app_ports EXCEPT ![a] = NoPort]
    BY <1>1, ReleaseIsOwned, ServicesAssumption
<1>5. /\ Owned(Release(mcp_answer.pool, a), McpPorts)
      /\ Release(mcp_answer.pool, a).app_ports = [mcp_answer.pool.app_ports EXCEPT ![a] = NoPort]
    BY <1>1, ReleaseIsOwned, ServicesAssumption
<1> HIDE DEF answer, mcp_answer
<1>6. /\ assigned_port' = IF FreshStart(a) THEN [assigned_port EXCEPT ![a] = NoPort] ELSE assigned_port
      /\ mcp_port' = IF WantsMcpPort(a) THEN [mcp_port EXCEPT ![a] = NoPort] ELSE mcp_port
      /\ rest' = IF FreshStart(a) THEN Release(answer.pool, a) ELSE rest
      /\ mcp' = IF WantsMcpPort(a) THEN Release(mcp_answer.pool, a) ELSE mcp
    BY DEF RollBack, answer, mcp_answer
<1>7. /\ assigned_port' \in [Apps -> Ports(RestPorts)]
      /\ mcp_port' \in [Apps -> Ports(McpPorts)]
    BY <1>6 DEF Books, Ports
<1>8. Owned(rest', RestPorts) /\ Owned(mcp', McpPorts)
    BY <1>4, <1>5, <1>6 DEF Books
<1>9. \A b \in Apps : /\ rest'.app_ports[b] = IF b = a /\ FreshStart(a) THEN NoPort ELSE rest.app_ports[b]
                      /\ mcp'.app_ports[b] = IF b = a /\ WantsMcpPort(a) THEN NoPort ELSE mcp.app_ports[b]
    BY <1>2, <1>3, <1>4, <1>5, <1>6
<1>10. RegistryOwnsPorts'
    BY <1>6, <1>9 DEF Books, RegistryOwnsPorts, registered, KeepsEntries
<1>11. McpNeverAlone'
    BY <1>6 DEF Books, McpNeverAlone, FreshStart
<1> QED
    BY <1>7, <1>8, <1>10, <1>11 DEF Books

\* Calls that leave the ports alone.
LEMMA StatusKeepsBooks ==
    ASSUME Books, status' \in [Apps -> Statuses], KeepsEntries,
           UNCHANGED <<assigned_port, mcp_port, rest, mcp>>
    PROVE  Books'
BY DEF Books, RegistryOwnsPorts, McpNeverAlone, registered, KeepsEntries

LEMMA SetStatusKeepsEntries ==
    ASSUME Books, NEW a \in Apps, NEW s \in Statuses \ {"absent"},
           SetStatus(a, s) \/ UpdateStatus(a, s) \/ UNCHANGED status
    PROVE  status' \in [Apps -> Statuses] /\ KeepsEntries
BY DEF Books, SetStatus, UpdateStatus, KeepsEntries

LEMMA SomeStatuses == "idle" \in Statuses \ {"absent"} /\ "running" \in Statuses \ {"absent"}
                      /\ "ready" \in Statuses \ {"absent"} /\ "absent" \in Statuses
BY DEF Statuses

\* Every way start_service can end.
LEMMA StartKeepsBooks ==
    ASSUME Books, NEW a \in Apps, start_service(a)
    PROVE  Books'
<1>0. status[a] # "absent"
    BY DEF start_service, registered
<1>1. CASE StartRefused(a)
    BY <1>1, SetStatusKeepsEntries, SomeStatuses, StatusKeepsBooks DEF StartRefused
<1>2. CASE StartWithoutPorts(a)
    BY <1>2, SetStatusKeepsEntries, SomeStatuses, RollBackKeepsBooks DEF StartWithoutPorts, NoStart
<1>3. CASE StartFileFails(a)
    BY <1>3, SetStatusKeepsEntries, SomeStatuses, RollBackKeepsBooks DEF StartFileFails
<1>4. CASE StartSecretsFail(a)
    BY <1>4, SetStatusKeepsEntries, SomeStatuses, RollBackKeepsBooks DEF StartSecretsFail
<1>5. CASE StartRaises(a)
    BY <1>0, <1>5, SetStatusKeepsEntries, SomeStatuses, KeepPortsKeepsBooks DEF StartRaises
<1>6. CASE StartUnitFails(a)
    BY <1>6, SetStatusKeepsEntries, SomeStatuses, RollBackKeepsBooks DEF StartUnitFails
<1>7. CASE StartWorks(a)
    BY <1>0, <1>7, SetStatusKeepsEntries, SomeStatuses, KeepPortsKeepsBooks DEF StartWorks
<1> QED
    BY <1>1, <1>2, <1>3, <1>4, <1>5, <1>6, <1>7 DEF start_service

LEMMA StartKeepsEntries ==
    ASSUME Books, NEW a \in Apps, start_service(a)
    PROVE  KeepsEntries
BY SetStatusKeepsEntries, SomeStatuses
   DEF start_service, StartRefused, StartWithoutPorts, StartFileFails, StartSecretsFail,
       StartRaises, StartUnitFails, StartWorks, NoStart

\* The pools of an app that goes: nothing is left of it, because what the
\* registry does not show was not allocated.
LEMMA DropEntryReleases ==
    ASSUME Books, NEW a \in Apps, DropEntry(a)
    PROVE  /\ Owned(rest', RestPorts) /\ Owned(mcp', McpPorts)
           /\ rest'.app_ports = [rest.app_ports EXCEPT ![a] = NoPort]
           /\ mcp'.app_ports = [mcp.app_ports EXCEPT ![a] = NoPort]
<1>1. /\ rest.app_ports \in [Apps -> RestPorts \cup {NoPort}]
      /\ mcp.app_ports \in [Apps -> McpPorts \cup {NoPort}]
    BY MappingsHaveTypes DEF Books
<1>2. /\ Owned(Release(rest, a), RestPorts)
      /\ Release(rest, a).app_ports = [rest.app_ports EXCEPT ![a] = NoPort]
    BY ReleaseIsOwned, ServicesAssumption DEF Books
<1>3. /\ Owned(Release(mcp, a), McpPorts)
      /\ Release(mcp, a).app_ports = [mcp.app_ports EXCEPT ![a] = NoPort]
    BY ReleaseIsOwned, ServicesAssumption DEF Books
<1>4. Owned(rest', RestPorts) /\ rest'.app_ports = [rest.app_ports EXCEPT ![a] = NoPort]
    <2>1. CASE assigned_port[a] = NoPort
        <3>1. rest' = rest /\ rest.app_ports[a] = NoPort
            BY <2>1 DEF DropEntry, Books, RegistryOwnsPorts
        <3>2. rest.app_ports = [rest.app_ports EXCEPT ![a] = NoPort]
            BY <1>1, <3>1
        <3> QED
            BY <3>1, <3>2 DEF Books
    <2>2. CASE assigned_port[a] # NoPort
        BY <2>2, <1>2 DEF DropEntry
    <2> QED
        BY <2>1, <2>2
<1>5. Owned(mcp', McpPorts) /\ mcp'.app_ports = [mcp.app_ports EXCEPT ![a] = NoPort]
    <2>1. CASE mcp_port[a] = NoPort
        <3>1. mcp' = mcp /\ mcp.app_ports[a] = NoPort
            BY <2>1 DEF DropEntry, Books, RegistryOwnsPorts
        <3>2. mcp.app_ports = [mcp.app_ports EXCEPT ![a] = NoPort]
            BY <1>1, <3>1
        <3> QED
            BY <3>1, <3>2 DEF Books
    <2>2. CASE mcp_port[a] # NoPort
        BY <2>2, <1>3 DEF DropEntry
    <2> QED
        BY <2>1, <2>2
<1> QED
    BY <1>4, <1>5

LEMMA DropEntryKeepsBooks ==
    ASSUME Books, NEW a \in Apps, DropEntry(a)
    PROVE  Books'
<1>1. /\ rest.app_ports \in [Apps -> RestPorts \cup {NoPort}]
      /\ mcp.app_ports \in [Apps -> McpPorts \cup {NoPort}]
    BY MappingsHaveTypes DEF Books
<1>2. /\ Owned(rest', RestPorts) /\ Owned(mcp', McpPorts)
      /\ rest'.app_ports = [rest.app_ports EXCEPT ![a] = NoPort]
      /\ mcp'.app_ports = [mcp.app_ports EXCEPT ![a] = NoPort]
    BY DropEntryReleases
<1>3. /\ status' = [status EXCEPT ![a] = "absent"]
      /\ assigned_port' = [assigned_port EXCEPT ![a] = NoPort]
      /\ mcp_port' = [mcp_port EXCEPT ![a] = NoPort]
    BY DEF DropEntry, SetStatus
<1>4. /\ status' \in [Apps -> Statuses]
      /\ assigned_port' \in [Apps -> Ports(RestPorts)]
      /\ mcp_port' \in [Apps -> Ports(McpPorts)]
    BY <1>3, SomeStatuses DEF Books, Ports
<1>5. RegistryOwnsPorts'
    BY <1>1, <1>2, <1>3 DEF Books, RegistryOwnsPorts, registered
<1>6. McpNeverAlone'
    BY <1>3 DEF Books, McpNeverAlone
<1> QED
    BY <1>2, <1>4, <1>5, <1>6 DEF Books

\* A change of the REST pool that takes mappings away and gives none.
LEMMA FewerPortsKeepBooks ==
    ASSUME Books, NEW pool, rest' = pool, Owned(pool, RestPorts),
           \A b \in Apps : pool.app_ports[b] \in {rest.app_ports[b], NoPort},
           status' \in [Apps -> Statuses], KeepsEntries,
           UNCHANGED <<assigned_port, mcp_port, mcp>>
    PROVE  Books'
BY DEF Books, RegistryOwnsPorts, McpNeverAlone, registered, KeepsEntries

LEMMA DropRaisesKeepsBooks ==
    ASSUME Books, NEW a \in Apps, DropRaises(a)
    PROVE  Books'
<1>1. rest.app_ports \in [Apps -> RestPorts \cup {NoPort}]
    BY MappingsHaveTypes DEF Books
<1>2. /\ Owned(Release(rest, a), RestPorts)
      /\ Release(rest, a).app_ports = [rest.app_ports EXCEPT ![a] = NoPort]
    BY ReleaseIsOwned, ServicesAssumption DEF Books
<1>3. status' \in [Apps -> Statuses] /\ KeepsEntries
    BY SetStatusKeepsEntries, SomeStatuses DEF DropRaises
<1>4. UNCHANGED <<assigned_port, mcp_port, mcp>> /\ rest' \in {rest, Release(rest, a)}
    BY DEF DropRaises
<1>5. CASE rest' = rest
    BY <1>3, <1>4, <1>5, StatusKeepsBooks
<1>6. CASE rest' = Release(rest, a)
    BY <1>1, <1>2, <1>3, <1>4, <1>6, FewerPortsKeepBooks
<1> QED
    BY <1>4, <1>5, <1>6

\* prepare_app moves the REST mapping and assigned_port together.
LEMMA PrepareKeepsBooks ==
    ASSUME Books, NEW a \in Apps, prepare_app(a)
    PROVE  Books'
<1> DEFINE answer == Allocate(rest, a, NoPort, bound)
<1>1. /\ a \in registered /\ UNCHANGED <<mcp, mcp_port>>
      /\ \/ SetStatus(a, "idle") /\ UNCHANGED <<rest, assigned_port>>
         \/ /\ ~ Dangling(rest, a)
            /\ rest' = answer.pool
            /\ IF answer.port # NoPort
               THEN /\ SetStatus(a, "ready")
                    /\ assigned_port' = [assigned_port EXCEPT ![a] = answer.port]
               ELSE SetStatus(a, "idle") /\ UNCHANGED assigned_port
         \/ /\ SetStatus(a, "ready") \/ UNCHANGED status
            /\ UNCHANGED <<rest, assigned_port>>
    BY DEF prepare_app
<1> HIDE DEF answer
<1>2. status' \in [Apps -> Statuses] /\ KeepsEntries
    BY <1>1, SetStatusKeepsEntries, SomeStatuses
<1>3. CASE UNCHANGED <<rest, assigned_port>>
    BY <1>1, <1>2, <1>3, StatusKeepsBooks
<1>4. CASE /\ ~ Dangling(rest, a)
           /\ rest' = answer.pool
           /\ assigned_port' = IF answer.port # NoPort
                               THEN [assigned_port EXCEPT ![a] = answer.port]
                               ELSE assigned_port
    <2>1. /\ Owned(answer.pool, RestPorts) /\ answer.port \in RestPorts \cup {NoPort}
          /\ answer.pool.app_ports = [rest.app_ports EXCEPT ![a] = answer.port]
        <3>1. Owned(rest, RestPorts) /\ RestPorts \in SUBSET Nat /\ ~ Dangling(rest, a)
            BY <1>4, ServicesAssumption DEF Books
        <3>2. /\ Owned(Allocate(rest, a, NoPort, bound).pool, RestPorts)
              /\ Allocate(rest, a, NoPort, bound).port \in RestPorts \cup {NoPort}
              /\ Allocate(rest, a, NoPort, bound).pool.app_ports
                    = [rest.app_ports EXCEPT ![a] = Allocate(rest, a, NoPort, bound).port]
            BY <3>1, AllocateIsOwned
        <3> QED
            BY <3>2 DEF answer
    <2>2. rest.app_ports \in [Apps -> RestPorts \cup {NoPort}]
        BY MappingsHaveTypes DEF Books
    <2>3. assigned_port' \in [Apps -> Ports(RestPorts)]
        BY <1>4, <2>1 DEF Books, Ports
    <2>4. RegistryOwnsPorts'
        BY <1>1, <1>2, <1>4, <2>1, <2>2 DEF Books, RegistryOwnsPorts, registered, KeepsEntries
    <2>5. McpNeverAlone'
        BY <1>1, <1>4 DEF Books, McpNeverAlone
    <2> QED
        BY <1>1, <1>2, <1>4, <2>1, <2>3, <2>4, <2>5 DEF Books
<1> QED
    BY <1>1, <1>3, <1>4

LEMMA CleanupKeepsBooks ==
    ASSUME Books, cleanup_stale_ports
    PROVE  Books'
<1>1. PICK done \in SUBSET Apps : rest' = ReleaseAll(rest, done)
    BY DEF cleanup_stale_ports
<1>2. /\ Owned(ReleaseAll(rest, done), RestPorts)
      /\ \A b \in Apps : ReleaseAll(rest, done).app_ports[b] \in {rest.app_ports[b], NoPort}
    <2>1. Owned(rest, RestPorts) /\ RestPorts \in SUBSET Nat
        BY ServicesAssumption DEF Books
    <2>2. \A S : /\ Owned(ReleaseAll(rest, S), RestPorts)
                 /\ \A b \in Apps : ReleaseAll(rest, S).app_ports[b]
                                     = IF b \in S THEN NoPort ELSE rest.app_ports[b]
        BY <2>1, ReleaseAllIsOwned
    <2> QED
        BY <2>2
<1>3. status' = status /\ UNCHANGED <<assigned_port, mcp_port, mcp>>
    BY DEF cleanup_stale_ports
<1>4. status' \in [Apps -> Statuses] /\ KeepsEntries
    BY <1>3 DEF Books, KeepsEntries
<1> QED
    BY <1>1, <1>2, <1>3, <1>4, FewerPortsKeepBooks

LEMMA DiscoverKeepsBooks ==
    ASSUME Books, discover_apps
    PROVE  Books'
<1>1. PICK found, bumped : status' = Discovered(found, bumped)
    BY DEF discover_apps
<1>2. status' \in [Apps -> Statuses] /\ KeepsEntries
    BY <1>1, SomeStatuses DEF Discovered, Books, KeepsEntries
<1> QED
    BY <1>2, StatusKeepsBooks DEF discover_apps, PoolsUnchanged

\* The pools after claim_port of every reconciled unit: each allocation belongs
\* to the app that claimed the port last.
LEMMA ClaimedIsOwned ==
    ASSUME NEW range, NEW portOf \in [Apps -> range \cup {NoPort}],
           NEW pool \in Claimed(range, portOf)
    PROVE  Owned(pool, range) /\ pool.app_ports = portOf
<1> DEFINE claims(p) == {a \in Apps : portOf[a] = p}
<1>1. /\ pool \in Pools(range) /\ pool.app_ports = portOf
      /\ \A p \in range : IF claims(p) = {}
                           THEN pool.allocations[p] = NoAllocation
                           ELSE \E a \in claims(p) : pool.allocations[p] = NewAllocation(a)
    BY DEF Claimed
<1>2. ASSUME NEW p \in range, pool.allocations[p] # NoAllocation
      PROVE  portOf[pool.allocations[p].app_id] = p
    <2>1. PICK a \in claims(p) : pool.allocations[p] = NewAllocation(a)
        BY <1>1, <1>2
    <2> QED
        BY <2>1 DEF NewAllocation
<1> QED
    BY <1>1, <1>2 DEF Owned, OwnedMaps, Pools

LEMMA BootMakesBooks ==
    ASSUME Machinery, boot
    PROVE  Books'
<1>1. PICK found \in SUBSET folder :
          /\ status' = [a \in Apps |-> CASE a \in Reconciled(found) -> "running"
                                        [] a \in found \ Reconciled(found) -> "idle"
                                        [] OTHER -> "absent"]
          /\ assigned_port' = PortsInFiles(Reconciled(found))
          /\ mcp_port' = McpPortsInFiles(WithMcpPort(Reconciled(found)))
    BY DEF boot
<1> DEFINE known == Reconciled(found)
           with_mcp == WithMcpPort(known)
<1>2. /\ \A a \in known : unit_file[a] \in UnitSpecs
      /\ with_mcp \subseteq known /\ \A a \in with_mcp : unit_file[a].mcp_port # NoPort
    BY DEF Reconciled, WithMcpPort, Machinery
<1> HIDE DEF known, with_mcp
<1>3. \A a \in known : unit_file[a].port \in RestPorts /\ unit_file[a].mcp_port \in Ports(McpPorts)
    BY <1>2 DEF UnitSpecs
<1>4. assigned_port' = [a \in Apps |-> IF a \in known THEN unit_file[a].port ELSE NoPort]
    BY <1>1 DEF PortsInFiles, known
<1>5. mcp_port' = [a \in Apps |-> IF a \in with_mcp THEN unit_file[a].mcp_port ELSE NoPort]
    BY <1>1 DEF McpPortsInFiles, known, with_mcp
<1>6. /\ assigned_port' \in [Apps -> RestPorts \cup {NoPort}]
      /\ mcp_port' \in [Apps -> McpPorts \cup {NoPort}]
    BY <1>2, <1>3, <1>4, <1>5 DEF Ports
<1>7. status' \in [Apps -> Statuses] /\ \A a \in Apps : a \in known => status'[a] = "running"
    BY <1>1, SomeStatuses DEF known
<1>8. rest' \in Claimed(RestPorts, assigned_port') /\ mcp' \in Claimed(McpPorts, mcp_port')
    BY DEF boot
<1>9. /\ Owned(rest', RestPorts) /\ rest'.app_ports = assigned_port'
      /\ Owned(mcp', McpPorts) /\ mcp'.app_ports = mcp_port'
    BY <1>6, <1>8, ClaimedIsOwned
<1>10. RegistryOwnsPorts'
    BY <1>2, <1>4, <1>5, <1>7, <1>9 DEF RegistryOwnsPorts, registered
<1>11. McpNeverAlone'
    BY <1>2, <1>3, <1>4, <1>5, PortsAreNat DEF McpNeverAlone
<1> QED
    BY <1>6, <1>7, <1>9, <1>10, <1>11 DEF Books, Ports

\* The memory of a process that has ended.
LEMMA ForgetMakesBooks ==
    ASSUME Forget
    PROVE  Books' /\ registered' = {}
<1>1. /\ status' = [a \in Apps |-> "absent"]
      /\ assigned_port' = [a \in Apps |-> NoPort]
      /\ mcp_port' = [a \in Apps |-> NoPort]
      /\ rest' = EmptyPool(RestPorts) /\ mcp' = EmptyPool(McpPorts)
    BY DEF Forget
<1>2. Owned(rest', RestPorts) /\ Owned(mcp', McpPorts)
    BY <1>1, EmptyIsOwned
<1>3. \A a \in Apps : rest'.app_ports[a] = NoPort /\ mcp'.app_ports[a] = NoPort
    BY <1>1 DEF EmptyPool
<1>4. RegistryOwnsPorts' /\ McpNeverAlone'
    BY <1>1, <1>3 DEF RegistryOwnsPorts, McpNeverAlone
<1> QED
    BY <1>1, <1>2, <1>4, SomeStatuses DEF Books, Ports, registered
-----------------------------------------------------------------------------
(* Units and unit files.                                                   *)

LEMMA StartedUnitHasPort ==
    ASSUME Books, NEW a \in Apps, Allocated(a)
    PROVE  StartedUnit(a) \in UnitSpecs
<1>1. RestAnswer(a).port \in RestPorts /\ McpAnswer(a).port \in Ports(McpPorts)
    BY RestAnswerIsOwned, McpAnswerIsOwned DEF Allocated, Ports
<1> QED
    BY <1>1 DEF StartedUnit, UnitFor, UnitSpecs, Ports

\* The half of Machinery that units and unit files can break.
Units ==
    /\ unit_file \in [Apps -> UnitSpecs \cup {NoUnit}]
    /\ unit \in [Apps -> UnitSpecs \cup {NoUnit}]
    /\ listening \subseteq active
    /\ RunningHasUnitFile

\* The unit file is written or left alone, the unit too, and only a unit file on
\* disk makes the app RUNNING.
LEMMA StartKeepsUnits ==
    ASSUME IInv, NEW a \in Apps, start_service(a)
    PROVE  Units'
<1>1. /\ status \in [Apps -> Statuses]
      /\ unit_file \in [Apps -> UnitSpecs \cup {NoUnit}]
      /\ unit \in [Apps -> UnitSpecs \cup {NoUnit}]
      /\ \A b \in listening : b \in Apps /\ unit[b] # NoUnit
      /\ \A b \in Apps : status[b] = "running" => unit_file[b] # NoUnit
    BY DEF IInv, Books, Machinery, RunningHasUnitFile, active
<1>2. CASE /\ unit_file' = unit_file /\ UNCHANGED <<unit, listening>>
           /\ UNCHANGED status \/ SetStatus(a, "idle")
    BY <1>1, <1>2 DEF Units, RunningHasUnitFile, active, SetStatus
<1>3. CASE /\ Allocated(a) /\ WriteUnitFile(a, StartedUnit(a)) /\ listening' = listening
           /\ \/ unit' = unit
              \/ unit[a] = NoUnit /\ unit' = [unit EXCEPT ![a] = StartedUnit(a)]
           /\ UNCHANGED status \/ SetStatus(a, "idle") \/ SetStatus(a, "running")
    <2> DEFINE spec == StartedUnit(a)
    <2>1. spec \in UnitSpecs /\ spec # NoUnit
        BY <1>3, StartedUnitHasPort, UnitAssumption DEF IInv
    <2>2. unit_file' = [unit_file EXCEPT ![a] = spec]
        BY <1>3 DEF WriteUnitFile
    <2>3. \/ unit' = unit
          \/ unit[a] = NoUnit /\ unit' = [unit EXCEPT ![a] = spec]
        BY <1>3
    <2> HIDE DEF spec
    <2>4. /\ unit_file' \in [Apps -> UnitSpecs \cup {NoUnit}]
          /\ unit' \in [Apps -> UnitSpecs \cup {NoUnit}]
        BY <1>1, <2>1, <2>2, <2>3
    <2>5. (listening \subseteq active)'
        BY <1>1, <1>3, <2>1, <2>3 DEF active
    <2>6. RunningHasUnitFile'
        BY <1>1, <1>3, <2>1, <2>2 DEF RunningHasUnitFile, SetStatus
    <2> QED
        BY <2>4, <2>5, <2>6 DEF Units
<1>4. CASE StartRefused(a) \/ StartWithoutPorts(a)
    BY <1>2, <1>4 DEF StartRefused, StartWithoutPorts, NoStart, systemd
<1>5. CASE StartFileFails(a)
    BY <1>2, <1>3, <1>5 DEF StartFileFails, WriteUnitFile
<1>6. CASE StartSecretsFail(a) \/ StartRaises(a) \/ StartUnitFails(a)
    BY <1>3, <1>6 DEF StartSecretsFail, StartRaises, StartUnitFails
<1>7. CASE StartWorks(a)
    BY <1>3, <1>7 DEF StartWorks
<1> QED
    BY <1>4, <1>5, <1>6, <1>7 DEF start_service

LEMMA StopKeepsUnits ==
    ASSUME IInv, NEW a \in Apps, stop_service(a) \/ restart_service(a) \/ create_service_file(a)
    PROVE  Units'
<1>1. CASE stop_service(a)
    BY <1>1 DEF stop_service, StopUnits, UpdateStatus, SetStatus, IInv, Books, Machinery, Units,
                RunningHasUnitFile, active
<1>2. CASE restart_service(a)
    BY <1>2 DEF restart_service, UpdateStatus, SetStatus, IInv, Books, Machinery, Units,
                RunningHasUnitFile, active
<1>3. CASE create_service_file(a)
    <2> DEFINE spec == UnitFor(a, assigned_port[a], mcp_port[a])
    <2>1. spec \in UnitSpecs /\ spec # NoUnit
        BY <1>3, UnitAssumption
           DEF create_service_file, UnitFor, UnitSpecs, IInv, Books, Ports
    <2>2. unit_file' = [unit_file EXCEPT ![a] = spec] /\ UNCHANGED <<status, unit, listening>>
        BY <1>3 DEF create_service_file, WriteUnitFile
    <2> HIDE DEF spec
    <2> QED
        BY <2>1, <2>2 DEF IInv, Machinery, Units, RunningHasUnitFile, active
<1> QED
    BY <1>1, <1>2, <1>3

\* A unit that is removed takes RUNNING with it, or was not known and so not RUNNING.
LEMMA RemoveKeepsUnits ==
    ASSUME IInv, NEW a \in Apps, RemoveUnits({a}),
           \/ IF Known(a) THEN UpdateStatus(a, "idle") ELSE UNCHANGED status
           \/ IF Known(a) THEN SetStatus(a, "idle") ELSE UNCHANGED status
           \/ SetStatus(a, "absent")
    PROVE  Units'
<1>1. /\ unit_file' = [b \in Apps |-> IF b \in {a} THEN NoUnit ELSE unit_file[b]]
      /\ unit' = [b \in Apps |-> IF b \in {a} THEN NoUnit ELSE unit[b]]
      /\ listening' = listening \ {a}
    BY DEF RemoveUnits, StopUnits
<1>2. status'[a] # "running"
    BY DEF Known, UpdateStatus, SetStatus, registered, IInv, Books, Machinery, RunningHasUnitFile
<1>3. \A b \in Apps \ {a} : status'[b] = status[b]
    BY DEF UpdateStatus, SetStatus, IInv, Books
<1>4. RunningHasUnitFile'
    BY <1>1, <1>2, <1>3 DEF IInv, Machinery, RunningHasUnitFile
<1> QED
    BY <1>1, <1>4 DEF IInv, Machinery, Units, active

\* Discovery makes nothing RUNNING.
LEMMA DiscoverKeepsUnits ==
    ASSUME IInv, discover_apps
    PROVE  Units'
<1>1. PICK found, bumped : status' = Discovered(found, bumped)
    BY DEF discover_apps
<1>2. \A b \in Apps : status'[b] = "running" => status[b] = "running"
    BY <1>1 DEF Discovered
<1> QED
    BY <1>2 DEF discover_apps, systemd, IInv, Machinery, Units, RunningHasUnitFile, active

LEMMA PrepareKeepsUnits ==
    ASSUME IInv, NEW a \in Apps, prepare_app(a)
    PROVE  Units'
<1>1. /\ UNCHANGED systemd
      /\ SetStatus(a, "idle") \/ SetStatus(a, "ready") \/ UNCHANGED status
    BY DEF prepare_app
<1> QED
    BY <1>1 DEF systemd, SetStatus, IInv, Books, Machinery, Units, RunningHasUnitFile, active

LEMMA BootKeepsUnits ==
    ASSUME IInv, boot
    PROVE  Units'
<1>1. PICK found \in SUBSET folder :
          status' = [a \in Apps |-> CASE a \in Reconciled(found) -> "running"
                                     [] a \in found \ Reconciled(found) -> "idle"
                                     [] OTHER -> "absent"]
    BY DEF boot
<1>2. \A b \in Apps : status'[b] = "running" => unit_file[b] # NoUnit
    BY <1>1 DEF Reconciled
<1> QED
    BY <1>2 DEF boot, systemd, IInv, Machinery, Units, RunningHasUnitFile, active

LEMMA ForgetKeepsUnits ==
    ASSUME IInv, Forget, UNCHANGED <<unit, listening>>,
           \/ UNCHANGED unit_file
           \/ \E a \in Apps : Allocated(a) /\ WriteUnitFile(a, StartedUnit(a))
    PROVE  Units'
<1>1. \A b \in Apps : status'[b] # "running"
    BY DEF Forget
<1>2. unit_file' \in [Apps -> UnitSpecs \cup {NoUnit}]
    BY StartedUnitHasPort DEF WriteUnitFile, IInv, Machinery
<1> QED
    BY <1>1, <1>2 DEF IInv, Machinery, Units, RunningHasUnitFile, active

LEMMA ProcessesKeepUnits ==
    ASSUME IInv, NEW a \in Apps, process_listens(a) \/ process_dies(a)
    PROVE  Units'
<1>1. CASE process_listens(a)
    BY <1>1 DEF process_listens, MachineStep, memory, IInv, Machinery, Units, RunningHasUnitFile, active
<1>2. CASE process_dies(a)
    BY <1>2 DEF process_dies, MachineStep, memory, IInv, Machinery, Units, RunningHasUnitFile, active
<1> QED
    BY <1>1, <1>2
-----------------------------------------------------------------------------
(* The invariant.                                                          *)

LEMMA MachineryFromParts ==
    ASSUME Units', platform' \in {"down", "booting", "up", "cleaning"},
           queue' \subseteq Apps, folder' \subseteq Apps,
           platform' = "down" => registered' = {}
    PROVE  Machinery'
BY DEF Machinery, Units

LEMMA InitIsGood == Init => IInv
<1> SUFFICES ASSUME Init PROVE IInv
    OBVIOUS
<1>1. Owned(rest, RestPorts) /\ Owned(mcp, McpPorts)
    BY EmptyIsOwned DEF Init
<1>2. RegistryOwnsPorts
    BY DEF Init, RegistryOwnsPorts, EmptyPool
<1>3. McpNeverAlone /\ RunningHasUnitFile /\ registered = {}
    BY DEF Init, McpNeverAlone, RunningHasUnitFile, registered
<1> QED
    BY <1>1, <1>2, <1>3, SomeStatuses DEF Init, IInv, Books, Machinery, Ports

LEMMA HandlerIsGood ==
    ASSUME IInv, NEW a \in Apps, handler(a)
    PROVE  IInv'
<1>0. platform' = "up" /\ queue' = queue /\ queue \subseteq Apps /\ folder \subseteq Apps
    BY DEF handler, IInv, Machinery
<1> SUFFICES Books' /\ Units' /\ folder' \subseteq Apps
    BY <1>0, MachineryFromParts DEF IInv
<1>1. CASE start_service(a)
    BY <1>0, <1>1, StartKeepsBooks, StartKeepsUnits DEF IInv, start_service
<1>2. CASE stop_service(a) \/ restart_service(a) \/ create_service_file(a)
    <2>1. status' \in [Apps -> Statuses] /\ KeepsEntries
        BY <1>2, SetStatusKeepsEntries, SomeStatuses
           DEF stop_service, restart_service, create_service_file, IInv
    <2>2. Books'
        BY <1>2, <2>1, StatusKeepsBooks
           DEF stop_service, restart_service, create_service_file, PoolsUnchanged, IInv
    <2> QED
        BY <1>0, <1>2, <2>2, StopKeepsUnits DEF stop_service, restart_service, create_service_file
<1>3. CASE remove_service(a)
    <2>1. status' \in [Apps -> Statuses] /\ KeepsEntries
        BY <1>3, SetStatusKeepsEntries, SomeStatuses DEF remove_service, IInv
    <2>2. Books'
        BY <1>3, <2>1, StatusKeepsBooks DEF remove_service, PoolsUnchanged, IInv
    <2> QED
        BY <1>0, <1>3, <2>2, RemoveKeepsUnits DEF remove_service
<1>4. CASE delete_app(a)
    <2>1. folder' \subseteq Apps
        BY <1>0, <1>4 DEF delete_app
    <2>2. CASE AppDropped(a)
        BY <1>4, <2>1, <2>2, DropEntryKeepsBooks, RemoveKeepsUnits
           DEF delete_app, AppDropped, DropEntry, IInv
    <2>3. CASE DropRaises(a)
        BY <1>4, <2>1, <2>3, DropRaisesKeepsBooks, RemoveKeepsUnits DEF delete_app, DropRaises, IInv
    <2> QED
        BY <1>4, <2>2, <2>3 DEF delete_app
<1>5. CASE prepare_app(a)
    BY <1>0, <1>5, PrepareKeepsBooks, PrepareKeepsUnits DEF prepare_app, IInv
<1> QED
    BY <1>1, <1>2, <1>3, <1>4, <1>5 DEF handler

LEMMA OrphanIsGood ==
    ASSUME IInv, NEW a \in Apps, cleanup_orphan(a)
    PROVE  IInv'
<1>0. /\ platform' \in {"up", "cleaning"} /\ queue' \subseteq Apps /\ folder' \subseteq Apps
      /\ RemoveUnits({a})
    BY DEF cleanup_orphan, IInv, Machinery
<1> SUFFICES Books' /\ Units'
    BY <1>0, MachineryFromParts DEF IInv
<1>1. CASE AppDropped(a)
    BY <1>0, <1>1, DropEntryKeepsBooks, RemoveKeepsUnits DEF AppDropped, DropEntry, IInv
<1>2. CASE DropRaises(a)
    BY <1>0, <1>2, DropRaisesKeepsBooks, RemoveKeepsUnits DEF DropRaises, IInv
<1> QED
    BY <1>1, <1>2 DEF cleanup_orphan

LEMMA AutoStartIsGood ==
    ASSUME IInv, NEW a \in Apps, auto_start(a)
    PROVE  IInv'
<1>0. platform' = "booting" /\ queue' \subseteq Apps
    BY DEF auto_start, IInv, Machinery
<1>1. CASE start_service(a)
    BY <1>0, <1>1, StartKeepsBooks, StartKeepsUnits, MachineryFromParts
       DEF IInv, Machinery, start_service
<1>2. CASE PoolsUnchanged /\ UNCHANGED <<status, folder, systemd>>
    <2>1. Books'
        BY <1>2, StatusKeepsBooks DEF PoolsUnchanged, KeepsEntries, IInv, Books
    <2>2. Units'
        BY <1>2 DEF systemd, IInv, Machinery, Units, RunningHasUnitFile, active
    <2> QED
        BY <1>0, <1>2, <2>1, <2>2, MachineryFromParts DEF IInv, Machinery
<1> QED
    BY <1>1, <1>2 DEF auto_start

LEMMA ForgetIsGood ==
    ASSUME IInv, Forget, Units'
    PROVE  IInv'
BY ForgetMakesBooks, MachineryFromParts DEF Forget, IInv, Machinery

\* Steps that change neither the memory nor a unit or its file.
LEMMA IdleIsGood ==
    ASSUME IInv, UNCHANGED <<status, assigned_port, mcp_port, rest, mcp>>, Units',
           queue' \subseteq Apps, folder' \subseteq Apps,
           platform' \in {platform, "up", "booting", "cleaning"}
    PROVE  IInv'
<1>1. Books'
    BY StatusKeepsBooks DEF KeepsEntries, IInv, Books
<1> QED
    BY <1>1, MachineryFromParts DEF IInv, Machinery, registered

LEMMA StepIsGood == IInv /\ [Next]_vars => IInv'
<1> SUFFICES ASSUME IInv, [Next]_vars
             PROVE  IInv'
    OBVIOUS
<1>0. /\ queue \subseteq Apps /\ folder \subseteq Apps
      /\ platform \in {"down", "booting", "up", "cleaning"}
    BY DEF IInv, Machinery
<1>1. UNCHANGED systemd /\ UNCHANGED status => Units'
    BY DEF systemd, IInv, Machinery, Units, RunningHasUnitFile, active
<1>2. ASSUME NEW a \in Apps, handler(a)
      PROVE  IInv'
    BY <1>2, HandlerIsGood
<1>3. CASE platform = "up" /\ UNCHANGED <<platform, queue>> /\ cleanup_stale_ports
    BY <1>0, <1>1, <1>3, CleanupKeepsBooks, MachineryFromParts DEF cleanup_stale_ports, IInv
<1>4. CASE discover_apps
    <2>1. platform' \in {"up", "cleaning"} /\ queue' \subseteq Apps /\ folder' \subseteq Apps
        BY <1>0, <1>4 DEF discover_apps, registered
    <2> QED
        BY <1>4, <2>1, DiscoverKeepsBooks, DiscoverKeepsUnits, MachineryFromParts DEF IInv
<1>5. ASSUME NEW a \in Apps, cleanup_orphan(a)
      PROVE  IInv'
    BY <1>5, OrphanIsGood
<1>6. CASE boot
    <2>1. platform' = "booting" /\ folder' \subseteq Apps
        BY <1>0, <1>6 DEF boot
    <2>2. queue' \subseteq Apps
        BY <1>0, <1>6 DEF boot
    <2> QED
        BY <1>6, <2>1, <2>2, BootMakesBooks, BootKeepsUnits, MachineryFromParts DEF IInv
<1>7. ASSUME NEW a \in Apps, auto_start(a)
      PROVE  IInv'
    BY <1>7, AutoStartIsGood
<1>8. CASE boot_done
    BY <1>0, <1>1, <1>8, IdleIsGood DEF boot_done, memory
<1>9. CASE crash
    BY <1>9, ForgetKeepsUnits, ForgetIsGood DEF crash, systemd
<1>10. ASSUME NEW a \in Apps, crash_in_start(a)
       PROVE  IInv'
    <2>1. Units'
        BY <1>10, ForgetKeepsUnits DEF crash_in_start
    <2> QED
        BY <1>10, <2>1, ForgetIsGood DEF crash_in_start
<1>11. ASSUME NEW a \in Apps, process_listens(a) \/ process_dies(a)
       PROVE  IInv'
    BY <1>0, <1>11, ProcessesKeepUnits, IdleIsGood
       DEF process_listens, process_dies, MachineStep, memory
<1>12. ASSUME NEW a \in Removable, folder_changes(a)
       PROVE  IInv'
    <2>1. folder' \subseteq Apps
        BY <1>0, <1>12, ServicesAssumption DEF folder_changes
    <2> QED
        BY <1>0, <1>1, <1>12, <2>1, IdleIsGood DEF folder_changes, MachineStep, memory
<1>13. CASE UNCHANGED vars
    BY <1>0, <1>1, <1>13, IdleIsGood DEF vars, memory
<1> QED
    BY <1>2, <1>3, <1>4, <1>5, <1>6, <1>7, <1>8, <1>9, <1>10, <1>11, <1>12, <1>13 DEF Next

LEMMA AlwaysGood == Spec => []IInv
BY InitIsGood, StepIsGood, PTL DEF Spec

-----------------------------------------------------------------------------
(* The theorems.                                                           *)

\* Every state of every run has the types the code's annotations give it.
THEOREM TypeCorrect == Spec => []TypeOK
<1>1. IInv => TypeOK
    BY DEF IInv, Books, Machinery, Owned, TypeOK
<1> QED
    BY <1>1, AlwaysGood, PTL

\* The allocator never holds a port for an app whose registry entry does not show
\* that very port, whatever starts, deletions, cleanups and restarts came before.
THEOREM RegistryAlwaysOwnsPorts == Spec => []RegistryOwnsPorts
<1>1. IInv => RegistryOwnsPorts
    BY DEF IInv, Books
<1> QED
    BY <1>1, AlwaysGood, PTL

\* No allocation is without an app that maps to it, also when reconciliation
\* claims one port twice.
THEOREM NeverOrphanedEntry == Spec => []NoOrphanedEntry
<1>1. IInv => NoOrphanedEntry
    BY DEF IInv, Books, Owned, OwnedMaps, NoOrphanedEntry, NotOrphaned
<1> QED
    BY <1>1, AlwaysGood, PTL

\* An app that the registry shows as RUNNING can be reconciled from its unit file.
THEOREM RunningAlwaysHasUnitFile == Spec => []RunningHasUnitFile
<1>1. IInv => RunningHasUnitFile
    BY DEF IInv, Machinery
<1> QED
    BY <1>1, AlwaysGood, PTL

\* A start that fails gives back both ports or neither.
THEOREM McpPortNeverAlone == Spec => []McpNeverAlone
<1>1. IInv => McpNeverAlone
    BY DEF IInv, Books
<1> QED
    BY <1>1, AlwaysGood, PTL

\* Only a deletion and the cleanup of an orphan drop an entry of a living platform.
LEMMA WhoDrops ==
    ASSUME IInv, [Next]_vars, platform' # "down",
           NEW a \in Apps, a \in registered, status'[a] = "absent"
    PROVE  AppDropped(a) /\ RemoveUnits({a})
<1>0. status \in [Apps -> Statuses] /\ status[a] # "absent" /\ platform # "down"
    BY DEF IInv, Books, Machinery, registered
<1>1. ~ UNCHANGED status
    BY <1>0
<1>2. ~ KeepsEntries
    BY <1>0 DEF KeepsEntries
<1>3. ASSUME NEW b \in Apps, DropEntry(b)
      PROVE  b = a
    BY <1>0, <1>3 DEF DropEntry, SetStatus
<1>4. ASSUME NEW b \in Apps
      PROVE  ~ start_service(b)
    BY <1>2, StartKeepsEntries DEF IInv
<1>5. ASSUME NEW b \in Apps, AppDropped(b) /\ RemoveUnits({b})
      PROVE  AppDropped(a) /\ RemoveUnits({a})
    BY <1>3, <1>5 DEF AppDropped
<1>6. ASSUME NEW b \in Apps
      PROVE  ~ DropRaises(b)
    BY <1>2, SetStatusKeepsEntries, SomeStatuses DEF DropRaises, IInv
<1>7. ASSUME NEW b \in Apps, handler(b)
      PROVE  AppDropped(a) /\ RemoveUnits({a})
    <2>1. ~ (stop_service(b) \/ restart_service(b) \/ create_service_file(b) \/ remove_service(b))
        BY <1>2, SetStatusKeepsEntries, SomeStatuses
           DEF stop_service, restart_service, create_service_file, remove_service, IInv
    <2>2. ~ prepare_app(b)
        BY <1>2, SetStatusKeepsEntries, SomeStatuses DEF prepare_app, IInv
    <2>3. delete_app(b)
        BY <1>4, <1>7, <2>1, <2>2 DEF handler
    <2> QED
        BY <1>5, <1>6, <2>3 DEF delete_app
<1>8. ASSUME NEW b \in Apps, cleanup_orphan(b)
      PROVE  AppDropped(a) /\ RemoveUnits({a})
    BY <1>5, <1>6, <1>8 DEF cleanup_orphan
<1>9. ~ discover_apps
    BY <1>0, SomeStatuses DEF discover_apps, Discovered
<1>10. ~ boot /\ ~ crash /\ \A b \in Apps : ~ crash_in_start(b)
    BY <1>0 DEF boot, crash, crash_in_start, Forget
<1>11. ASSUME NEW b \in Apps
       PROVE  ~ auto_start(b) /\ ~ process_listens(b) /\ ~ process_dies(b)
    BY <1>1, <1>4 DEF auto_start, process_listens, process_dies, MachineStep, memory
<1>12. ~ cleanup_stale_ports /\ ~ boot_done /\ ~ UNCHANGED vars
       /\ \A b \in Removable : ~ folder_changes(b)
    BY <1>1 DEF cleanup_stale_ports, boot_done, folder_changes, MachineStep, memory, vars
<1> QED
    BY <1>7, <1>8, <1>9, <1>10, <1>11, <1>12 DEF Next

\* Nothing is left of an app that is deleted or cleaned up: no unit, no unit file,
\* no port of either pool, also when earlier starts of it failed half way.
THEOREM DeletionAlwaysComplete == Spec => DeletionIsComplete
<1> DEFINE Left(a) == a \in registered /\ status'[a] = "absent" /\ platform' # "down"
           Gone(a) == /\ unit'[a] = NoUnit /\ unit_file'[a] = NoUnit /\ a \notin listening'
                      /\ rest'.app_ports[a] = NoPort /\ mcp'.app_ports[a] = NoPort
<1>1. ASSUME IInv, [Next]_vars, NEW a \in Apps, Left(a)
      PROVE  Gone(a)
    <2>1. AppDropped(a) /\ RemoveUnits({a})
        BY <1>1, WhoDrops
    <2>2. /\ rest'.app_ports = [rest.app_ports EXCEPT ![a] = NoPort]
          /\ mcp'.app_ports = [mcp.app_ports EXCEPT ![a] = NoPort]
        BY <1>1, <2>1, DropEntryReleases DEF AppDropped, IInv
    <2>3. /\ rest.app_ports \in [Apps -> RestPorts \cup {NoPort}]
          /\ mcp.app_ports \in [Apps -> McpPorts \cup {NoPort}]
        BY <1>1, MappingsHaveTypes DEF IInv, Books
    <2>4. rest'.app_ports[a] = NoPort /\ mcp'.app_ports[a] = NoPort
        BY <2>2, <2>3
    <2> QED
        BY <2>1, <2>4 DEF RemoveUnits, StopUnits
<1>2. IInv /\ [Next]_vars => [\A a \in Apps : Left(a) => Gone(a)]_vars
    BY <1>1
<1> QED
    BY <1>2, AlwaysGood, PTL DEF Spec, DeletionIsComplete
=============================================================================
