-------------------------- MODULE MCPGatewayProofs --------------------------
(***************************************************************************)
(* Proofs about MCPGateway for any apps, tools and requests in flight, any *)
(* number of registrations of an app and of restarts of the platform.      *)
(***************************************************************************)
EXTENDS MCPGateway, TLAPS

RequestType == [app : Apps \cup {NoApp}, entry : Entries \cup {0},
                pc : {"none", "fetching", "fetched"},
                old_tools : SUBSET Tools, fetched : SUBSET Tools]

\* An app that has been registered once has one MCPInfo: whoever looked its entry up,
\* request, probe or registry, refers to that one.
OneInfo ==
    \A a \in Apps :
        /\ made[a] \in {0, 1} => info[a][1] = 1
        /\ made[a] = 0 => tool_index[a] = {} /\ probe[a] = 0
        /\ made[a] = 1 => probe[a] \in {0, 1}
        /\ NeverDeleted(a) => tool_index[a] \in {{}, registered_tools[a][1]}

\* A request in flight is of an app that had an entry when it began.
RequestsHoldEntries ==
    \A r \in Requests : request[r] # NoRequest =>
        LET a == request[r].app IN
        /\ a \in Apps /\ request[r].entry # 0 /\ made[a] # 0
        /\ made[a] = 1 => request[r].entry = 1

IInv == TypeOK /\ OneInfo /\ RequestsHoldEntries

LEMMA OneIsAnEntry == 1 \in Entries /\ 0 \notin Entries
BY GatewayAssumption DEF Entries

LEMMA NoRequestType == NoRequest \in RequestType
BY DEF NoRequest, RequestType

LEMMA Types ==
    TypeOK <=>
        /\ entry \in [Apps -> Entries \cup {0}] /\ made \in [Apps -> Entries \cup {0}]
        /\ \A a \in Apps : entry[a] \in {0, made[a]}
        /\ info \in [Apps -> [Entries -> Entries]]
        /\ healthy \in [Apps -> [Entries -> BOOLEAN]]
        /\ registered_tools \in [Apps -> [Entries -> SUBSET Tools]]
        /\ running \subseteq registered /\ active \subseteq Apps
        /\ tool_index \in [Apps -> SUBSET Tools] /\ offers \in [Apps -> SUBSET Tools]
        /\ request \in [Requests -> RequestType]
        /\ probe \in [Apps -> Entries \cup {0}] /\ boots \in 0 .. MaxBoots
BY DEF TypeOK, RequestType

LEMMA Initially == Init => IInv
<1> SUFFICES ASSUME Init PROVE IInv
    OBVIOUS
<1>1. TypeOK
    BY OneIsAnEntry, NoRequestType, GatewayAssumption, Types DEF Init, Fresh, registered
<1>2. OneInfo
    BY OneIsAnEntry DEF Init, OneInfo, Fresh
<1>3. RequestsHoldEntries
    BY DEF Init, RequestsHoldEntries
<1> QED
    BY <1>1, <1>2, <1>3 DEF IInv

-----------------------------------------------------------------------------
(* Parts of the steps. *)

\* update_app changes the MCPInfo of an app with one entry to the one it has.
LEMMA UpdateInfoKeeps ==
    ASSUME TypeOK, OneInfo, NEW a \in Apps, NEW m \in Entries, UpdateInfo(a, m),
           made[a] = 1 => m = 1
    PROVE  /\ info' \in [Apps -> [Entries -> Entries]]
           /\ \A b \in Apps : made[b] \in {0, 1} => info'[b][1] = 1
<1>1. CASE a \in registered
    <2>1. info' = [info EXCEPT ![a][entry[a]] = m]
        BY <1>1 DEF UpdateInfo
    <2>2. entry[a] \in Entries /\ entry[a] = made[a]
        BY <1>1 DEF TypeOK, registered
    <2>3. info' \in [Apps -> [Entries -> Entries]]
        BY <2>1, <2>2 DEF TypeOK
    <2>4. ASSUME NEW b \in Apps, made[b] \in {0, 1} PROVE info'[b][1] = 1
        BY <2>1, <2>2, <2>4, OneIsAnEntry DEF TypeOK, OneInfo
    <2> QED
        BY <2>3, <2>4
<1>2. CASE a \notin registered
    BY <1>2 DEF UpdateInfo, TypeOK, OneInfo
<1> QED
    BY <1>1, <1>2

\* The request of on_app_started begins with the entry the registry has.
LEMMA FetchKeeps ==
    ASSUME IInv, NEW r \in Requests, NEW a \in registered, Fetch(r, a), UNCHANGED made
    PROVE  request' \in [Requests -> RequestType] /\ RequestsHoldEntries'
<1> DEFINE new == [app |-> a, entry |-> entry[a], pc |-> "fetching",
                   old_tools |-> RegisteredTools(a), fetched |-> {}]
<1>1. a \in Apps /\ entry[a] \in Entries /\ entry[a] = made[a]
    BY DEF IInv, TypeOK, registered
<1>2. RegisteredTools(a) \in SUBSET Tools
    BY <1>1 DEF RegisteredTools, IInv, TypeOK
<1>3. new \in RequestType
    BY <1>1, <1>2 DEF RequestType
<1>4. new.app = a /\ new.entry = entry[a]
    OBVIOUS
<1>5. request' = [request EXCEPT ![r] = new] /\ request \in [Requests -> RequestType]
    BY Types DEF Fetch, IInv
<1> HIDE DEF new
<1>6. request' \in [Requests -> RequestType]
    BY <1>3, <1>5
<1>7. ASSUME NEW s \in Requests, s # r PROVE request'[s] = request[s]
    BY <1>5, <1>7
<1>8. request'[r] = new
    BY <1>5
<1>9. RequestsHoldEntries'
    BY <1>1, <1>4, <1>7, <1>8, OneIsAnEntry DEF IInv, RequestsHoldEntries
<1> QED
    BY <1>6, <1>9

\* A start or restart of a registered app; the process may be another one.
LEMMA StartKeeps ==
    ASSUME IInv, NEW r \in Requests, NEW a \in Apps, start(r, a) \/ restart(r, a)
    PROVE  IInv'
<1>1. /\ a \in registered /\ SetRunning(a) /\ active' = active \cup {a} /\ Fetch(r, a)
      /\ UNCHANGED <<entry, made, info, healthy, registered_tools, tool_index, probe, boots>>
      /\ offers' \in {offers, [offers EXCEPT ![a] = {}]}
    BY DEF start, restart, registry, mcp_info
<1>2. request' \in [Requests -> RequestType] /\ RequestsHoldEntries'
    BY <1>1, FetchKeeps
<1>3. running' \subseteq registered' /\ active' \subseteq Apps /\ offers' \in [Apps -> SUBSET Tools]
    BY <1>1 DEF IInv, TypeOK, SetRunning, registered
<1>4. TypeOK'
    BY <1>1, <1>2, <1>3, Types DEF IInv, TypeOK, RequestType
<1>5. OneInfo'
    BY <1>1 DEF IInv, OneInfo, NeverDeleted, registered
<1> QED
    BY <1>2, <1>4, <1>5 DEF IInv

\* What on_app_started knows when it goes on: with one entry there is one MCPInfo.
LEMMA RequestInfo ==
    ASSUME IInv, NEW r \in Requests, request[r].pc # "none"
    PROVE  LET a == request[r].app
               m == info[a][request[r].entry]
           IN  /\ a \in Apps /\ m \in Entries /\ made[a] # 0
               /\ made[a] = 1 => m = 1
               /\ request[r].fetched \in SUBSET Tools
<1>1. request[r] # NoRequest /\ request[r] \in RequestType
    BY Types DEF IInv, NoRequest
<1>2. /\ request[r].app \in Apps /\ request[r].entry \in Entries /\ made[request[r].app] # 0
      /\ made[request[r].app] = 1 => request[r].entry = 1
    BY <1>1 DEF IInv, RequestsHoldEntries, RequestType
<1>3. request[r].fetched \in SUBSET Tools
    BY <1>1 DEF RequestType
<1> QED
    BY <1>2, <1>3, OneIsAnEntry DEF IInv, TypeOK, OneInfo

LEMMA EndRequestKeeps ==
    ASSUME IInv, NEW r \in Requests, EndRequest(r), UNCHANGED made
    PROVE  request' \in [Requests -> RequestType] /\ RequestsHoldEntries'
<1>1. request' = [request EXCEPT ![r] = NoRequest] /\ request \in [Requests -> RequestType]
    BY Types DEF IInv, EndRequest
<1>2. request' \in [Requests -> RequestType]
    BY <1>1, NoRequestType
<1>3. \A s \in Requests : request'[s] = request[s] \/ request'[s] = NoRequest
    BY <1>1
<1> QED
    BY <1>2, <1>3 DEF IInv, RequestsHoldEntries

-----------------------------------------------------------------------------
(* Requests. *)

LEMMA FetchEndsKeeps ==
    ASSUME IInv, NEW r \in Requests, fetch_ends(r)
    PROVE  IInv'
<1>1. PICK tools \in {{}, offers[request[r].app]} :
            request' = [request EXCEPT ![r].pc = "fetched", ![r].fetched = tools]
    BY DEF fetch_ends
<1>2. /\ request[r].pc = "fetching" /\ UNCHANGED <<entry, made, info, healthy, registered_tools,
              running, offers, active, tool_index, probe, boots>>
    BY DEF fetch_ends, registry, mcp_info, units
<1>3. /\ request[r] \in RequestType /\ request \in [Requests -> RequestType]
      /\ request[r] # NoRequest
    BY <1>2, Types DEF IInv, NoRequest
<1>4. request[r].app \in Apps
    BY <1>3 DEF IInv, RequestsHoldEntries
<1>5. tools \in SUBSET Tools
    BY <1>4 DEF IInv, TypeOK
<1> DEFINE new == [request[r] EXCEPT !.pc = "fetched", !.fetched = tools]
<1>6. new \in RequestType /\ new.app = request[r].app /\ new.entry = request[r].entry
    BY <1>3, <1>5 DEF RequestType
<1>7. request' = [request EXCEPT ![r] = new]
    BY <1>1, <1>3
<1> HIDE DEF new
<1>8. /\ request' \in [Requests -> RequestType] /\ request'[r] = new
      /\ \A s \in Requests : s # r => request'[s] = request[s]
    BY <1>3, <1>6, <1>7
<1>9. RequestsHoldEntries'
    BY <1>2, <1>3, <1>6, <1>8 DEF IInv, RequestsHoldEntries
<1>10. TypeOK'
    BY <1>2, <1>8, Types DEF IInv, TypeOK, RequestType, registered
<1>11. OneInfo'
    BY <1>2 DEF IInv, OneInfo, NeverDeleted, registered
<1> QED
    BY <1>9, <1>10, <1>11 DEF IInv

LEMMA StartedKeeps ==
    ASSUME IInv, NEW r \in Requests, on_app_started(r)
    PROVE  IInv'
<1> DEFINE a == request[r].app
           m == info[a][request[r].entry]
           fetched == request[r].fetched
<1>1. /\ UNCHANGED <<entry, made, probe, boots>> /\ EndRequest(r)
      /\ request[r].pc # "none"
    BY DEF on_app_started
<1>2. request' \in [Requests -> RequestType] /\ RequestsHoldEntries'
    BY <1>1, EndRequestKeeps
<1>3. /\ a \in Apps /\ m \in Entries /\ made[a] # 0 /\ fetched \in SUBSET Tools
      /\ made[a] = 1 => m = 1
    BY <1>1, RequestInfo
<1>4. TypeOK /\ OneInfo
    BY DEF IInv
<1>5. CASE NothingFetched(r)
    <2>1. UNCHANGED <<info, healthy, registered_tools, running, offers, active, tool_index>>
        BY <1>5 DEF NothingFetched, mcp_info, units
    <2>2. TypeOK'
        BY <1>1, <1>2, <1>4, <2>1, Types DEF RequestType, TypeOK, registered
    <2>3. OneInfo'
        BY <1>1, <1>4, <2>1 DEF OneInfo, NeverDeleted, registered
    <2> QED
        BY <1>2, <2>2, <2>3 DEF IInv
<1>6. CASE Rejected(r)
    <2>1. /\ healthy' = [healthy EXCEPT ![a][m] = FALSE] /\ UpdateInfo(a, m) /\ stop_service(a)
          /\ UNCHANGED <<registered_tools, tool_index>>
        BY <1>6 DEF Rejected
    <2> HIDE DEF a, m
    <2>2. /\ info' \in [Apps -> [Entries -> Entries]]
          /\ \A b \in Apps : made[b] \in {0, 1} => info'[b][1] = 1
        BY <1>3, <1>4, <2>1, UpdateInfoKeeps
    <2>3. /\ healthy' \in [Apps -> [Entries -> BOOLEAN]]
          /\ running' \subseteq registered' /\ active' \subseteq Apps
          /\ offers' \in [Apps -> SUBSET Tools]
        BY <1>1, <1>3, <1>4, <2>1 DEF TypeOK, stop_service, Halt, registered
    <2>4. TypeOK'
        BY <1>1, <1>2, <1>4, <2>1, <2>2, <2>3, Types DEF RequestType, TypeOK
    <2>5. OneInfo'
        BY <1>1, <1>4, <2>1, <2>2 DEF OneInfo, NeverDeleted, registered
    <2> QED
        BY <1>2, <2>4, <2>5 DEF IInv
<1>7. CASE Accepted(r)
    <2>1. /\ tool_index' = [tool_index EXCEPT ![a] = fetched]
          /\ healthy' = [healthy EXCEPT ![a][m] = TRUE]
          /\ registered_tools' = [registered_tools EXCEPT ![a][m] = fetched]
          /\ UpdateInfo(a, m) /\ UNCHANGED <<running, offers, active>>
        BY <1>7 DEF Accepted, units
    <2> HIDE DEF a, m, fetched
    <2>2. /\ info' \in [Apps -> [Entries -> Entries]]
          /\ \A b \in Apps : made[b] \in {0, 1} => info'[b][1] = 1
        BY <1>3, <1>4, <2>1, UpdateInfoKeeps
    <2>3. /\ healthy' \in [Apps -> [Entries -> BOOLEAN]]
          /\ registered_tools' \in [Apps -> [Entries -> SUBSET Tools]]
          /\ tool_index' \in [Apps -> SUBSET Tools]
        BY <1>3, <1>4, <2>1 DEF TypeOK
    <2>4. TypeOK'
        BY <1>1, <1>2, <1>4, <2>1, <2>2, <2>3, Types DEF RequestType, TypeOK, registered
    <2>5. \A b \in Apps : b # a => tool_index'[b] = tool_index[b]
                                   /\ registered_tools'[b] = registered_tools[b]
        BY <1>4, <2>1 DEF TypeOK
    <2>6. /\ tool_index'[a] = fetched
          /\ made[a] = 1 => registered_tools'[a][1] = fetched
        BY <1>3, <1>4, <2>1, OneIsAnEntry DEF TypeOK
    <2>7. OneInfo'
        BY <1>1, <1>3, <1>4, <2>2, <2>5, <2>6 DEF OneInfo, NeverDeleted, registered
    <2> QED
        BY <1>2, <2>4, <2>7 DEF IInv
<1> QED
    BY <1>5, <1>6, <1>7 DEF on_app_started

\* Stopping an app, deleted or not, empties its part of the index or leaves it alone.
LEMMA StopKeeps ==
    ASSUME IInv, NEW a \in Apps, on_app_stopped(a) \/ delete_app(a)
    PROVE  IInv'
<1>1. /\ UNCHANGED <<made, info, healthy, registered_tools, request, probe, boots>>
      /\ stop_service(a)
      /\ entry' \in {entry, [entry EXCEPT ![a] = 0]}
      /\ tool_index' \in {tool_index, [tool_index EXCEPT ![a] = {}]}
    BY DEF on_app_stopped, delete_app, registry, mcp_info, stop_service
<1>2. /\ running' \subseteq registered' /\ active' \subseteq Apps
      /\ offers' \in [Apps -> SUBSET Tools]
    BY <1>1 DEF IInv, TypeOK, stop_service, Halt, registered
<1>3. /\ entry' \in [Apps -> Entries \cup {0}] /\ tool_index' \in [Apps -> SUBSET Tools]
      /\ \A b \in Apps : entry'[b] \in {entry[b], 0} /\ tool_index'[b] \in {tool_index[b], {}}
    BY <1>1 DEF IInv, TypeOK
<1>4. TypeOK'
    BY <1>1, <1>2, <1>3, Types DEF IInv, TypeOK, RequestType
<1>5. OneInfo'
    BY <1>1, <1>3 DEF IInv, OneInfo, NeverDeleted, registered
<1>6. RequestsHoldEntries'
    BY <1>1 DEF IInv, RequestsHoldEntries
<1> QED
    BY <1>4, <1>5, <1>6 DEF IInv

LEMMA RegisterKeeps ==
    ASSUME IInv, NEW a \in Apps, register_app(a)
    PROVE  IInv'
<1>1. /\ UNCHANGED <<info, healthy, registered_tools, running, offers, active, tool_index,
                     request, probe, boots>>
      /\ entry[a] = 0 /\ made[a] < MaxEntries
      /\ entry' = [entry EXCEPT ![a] = made[a] + 1]
      /\ made' = [made EXCEPT ![a] = made[a] + 1]
    BY DEF register_app, mcp_info, units, registered
<1>2. made[a] + 1 \in Entries /\ made[a] \in Nat
    BY <1>1, GatewayAssumption DEF IInv, TypeOK, Entries
<1>3. /\ entry' \in [Apps -> Entries \cup {0}] /\ made' \in [Apps -> Entries \cup {0}]
      /\ entry'[a] = made[a] + 1 /\ made'[a] = made[a] + 1
      /\ \A b \in Apps : b # a => entry'[b] = entry[b] /\ made'[b] = made[b]
    BY <1>1, <1>2 DEF IInv, TypeOK
<1>4. TypeOK'
    BY <1>1, <1>3, Types DEF IInv, TypeOK, RequestType, registered
<1>5. OneInfo'
    <2>1. OneInfo /\ (made'[a] \in {0, 1} => made[a] = 0 /\ made'[a] = 1)
        BY <1>2, <1>3 DEF IInv
    <2>2. ASSUME NEW b \in Apps, b # a
          PROVE  /\ made'[b] = made[b] /\ entry'[b] = entry[b] /\ info'[b] = info[b]
                 /\ probe'[b] = probe[b] /\ tool_index'[b] = tool_index[b]
                 /\ registered_tools'[b] = registered_tools[b]
        BY <1>1, <1>3, <2>2
    <2>3. /\ made'[a] \in {0, 1} => info'[a][1] = 1 /\ tool_index'[a] = {} /\ probe'[a] = 0
          /\ made'[a] # 0
        BY <1>1, <1>2, <1>3, <2>1 DEF OneInfo
    <2> QED
        BY <2>1, <2>2, <2>3 DEF OneInfo, NeverDeleted, registered
<1>6. RequestsHoldEntries'
    BY <1>1, <1>2, <1>3 DEF IInv, RequestsHoldEntries
<1> QED
    BY <1>4, <1>5, <1>6 DEF IInv

-----------------------------------------------------------------------------
(* Probes, processes and the platform. *)

LEMMA ProbeKeeps ==
    ASSUME IInv, NEW a \in Apps, probe_mcp(a) \/ probe_ends(a)
    PROVE  IInv'
<1>1. /\ UNCHANGED <<entry, made, registered_tools, running, offers, active, tool_index,
                     request, boots>>
      /\ probe' \in {[probe EXCEPT ![a] = entry[a]], [probe EXCEPT ![a] = 0]}
    BY DEF probe_mcp, probe_ends, registry, mcp_info, units
<1>2. /\ probe' \in [Apps -> Entries \cup {0}]
      /\ \A b \in Apps : probe'[b] \in {probe[b], entry[b], 0}
    BY <1>1 DEF IInv, TypeOK
<1>3. /\ info' \in [Apps -> [Entries -> Entries]]
      /\ \A b \in Apps : made[b] \in {0, 1} => info'[b][1] = 1
      /\ healthy' \in [Apps -> [Entries -> BOOLEAN]]
    <2>1. CASE probe_mcp(a)
        BY <2>1 DEF probe_mcp, registry, mcp_info, IInv, TypeOK, OneInfo
    <2>2. CASE probe_ends(a)
        <3> DEFINE m == info[a][probe[a]]
        <3>1. /\ probe[a] # 0 /\ UpdateInfo(a, m)
              /\ \E ok \in {FALSE, offers[a] # {}} : healthy' = [healthy EXCEPT ![a][m] = ok]
            BY <2>2 DEF probe_ends
        <3>2. m \in Entries /\ (made[a] = 1 => m = 1)
            BY <3>1 DEF IInv, TypeOK, OneInfo
        <3> HIDE DEF m
        <3>3. PICK ok \in BOOLEAN : healthy' = [healthy EXCEPT ![a][m] = ok]
            BY <3>1
        <3>4. healthy' \in [Apps -> [Entries -> BOOLEAN]]
            BY <3>2, <3>3 DEF IInv, TypeOK
        <3> QED
            BY <3>1, <3>2, <3>4, UpdateInfoKeeps DEF IInv
    <2> QED
        BY <2>1, <2>2
<1>4. TypeOK'
    BY <1>1, <1>2, <1>3, Types DEF IInv, TypeOK, RequestType, registered
<1>5. OneInfo'
    BY <1>1, <1>2, <1>3 DEF IInv, TypeOK, OneInfo, NeverDeleted, registered
<1>6. RequestsHoldEntries'
    BY <1>1 DEF IInv, RequestsHoldEntries
<1> QED
    BY <1>4, <1>5, <1>6 DEF IInv

LEMMA ProcessesKeep ==
    ASSUME IInv, NEW a \in Apps, status_lost(a) \/ serves(a) \/ dies(a)
    PROVE  IInv'
<1>1. /\ UNCHANGED <<entry, made, info, healthy, registered_tools, tool_index, request,
                     probe, boots>>
      /\ running' \subseteq running
    BY DEF status_lost, serves, dies, registry, mcp_info
<1>2. active' \subseteq active
    BY DEF status_lost, serves, dies
<1>3. offers' \in [Apps -> SUBSET Tools]
    BY DEF status_lost, serves, dies, IInv, TypeOK
<1>4. TypeOK'
    BY <1>1, <1>2, <1>3, Types DEF IInv, TypeOK, RequestType, registered
<1>5. OneInfo'
    BY <1>1 DEF IInv, OneInfo, NeverDeleted, registered
<1>6. RequestsHoldEntries'
    BY <1>1 DEF IInv, RequestsHoldEntries
<1> QED
    BY <1>4, <1>5, <1>6 DEF IInv

\* A new registry has an unhealthy MCPInfo for each app: no tools are fetched.
LEMMA RebootKeeps ==
    ASSUME IInv, reboot
    PROVE  IInv'
<1>1. /\ boots' = boots + 1 /\ boots < MaxBoots /\ UNCHANGED <<offers, active>>
      /\ entry' = Fresh(registered) /\ made' = Fresh(registered) /\ FreshInfo
      /\ running' = active \cap registered
      /\ request' = [r \in Requests |-> NoRequest] /\ probe' = [a \in Apps |-> 0]
      /\ tool_index' = [a \in Apps |-> IF a \in SyncedAtStartup THEN offers[a] ELSE {}]
    BY DEF reboot
<1>2. /\ entry' \in [Apps -> Entries \cup {0}] /\ made' = entry'
      /\ \A a \in registered : entry'[a] = 1
    BY <1>1, OneIsAnEntry DEF Fresh, registered
<1>3. /\ info' \in [Apps -> [Entries -> Entries]]
      /\ healthy' \in [Apps -> [Entries -> BOOLEAN]]
      /\ registered_tools' \in [Apps -> [Entries -> SUBSET Tools]]
      /\ \A a \in Apps : info'[a][1] = 1 /\ ~ healthy'[a][1]
    BY <1>1, OneIsAnEntry DEF FreshInfo
<1>4. SyncedAtStartup = {}
    BY <1>2, <1>3 DEF SyncedAtStartup, registered
<1>5. tool_index' = [a \in Apps |-> {}]
    BY <1>1, <1>4
<1>6. running' \subseteq registered'
    BY <1>1, <1>2, OneIsAnEntry DEF registered
<1>7. boots' \in 0 .. MaxBoots
    BY <1>1, GatewayAssumption DEF IInv, TypeOK
<1>8. request' \in [Requests -> RequestType]
    BY <1>1, NoRequestType
<1>9. TypeOK'
    BY <1>1, <1>2, <1>3, <1>5, <1>6, <1>7, <1>8, Types DEF IInv, TypeOK, RequestType
<1>10. OneInfo'
    BY <1>1, <1>2, <1>3, <1>5 DEF OneInfo
<1>11. RequestsHoldEntries'
    BY <1>1 DEF RequestsHoldEntries
<1> QED
    BY <1>9, <1>10, <1>11 DEF IInv

-----------------------------------------------------------------------------
(* The invariants. *)

LEMMA NextKeeps == IInv /\ [Next]_vars => IInv'
<1> SUFFICES ASSUME IInv, [Next]_vars PROVE IInv'
    OBVIOUS
<1>1. CASE UNCHANGED vars
    <2>1. UNCHANGED <<entry, made, info, healthy, registered_tools, running, offers, active,
                      tool_index, request, probe, boots>>
        BY <1>1 DEF vars, registry, mcp_info, units
    <2>2. TypeOK'
        BY <2>1, Types DEF IInv, TypeOK, RequestType, registered
    <2>3. OneInfo' /\ RequestsHoldEntries'
        BY <2>1 DEF IInv, OneInfo, NeverDeleted, registered, RequestsHoldEntries
    <2> QED
        BY <2>2, <2>3 DEF IInv
<1>2. CASE Next
    <2>1. \A r \in Requests, a \in Apps : start(r, a) \/ restart(r, a) => IInv'
        BY StartKeeps
    <2>2. \A r \in Requests : fetch_ends(r) => IInv'
        BY FetchEndsKeeps
    <2>3. \A r \in Requests : on_app_started(r) => IInv'
        BY StartedKeeps
    <2>4. \A a \in Apps : on_app_stopped(a) \/ delete_app(a) => IInv'
        BY StopKeeps
    <2>5. \A a \in Apps : register_app(a) => IInv'
        BY RegisterKeeps
    <2>6. \A a \in Apps : probe_mcp(a) \/ probe_ends(a) => IInv'
        BY ProbeKeeps
    <2>7. \A a \in Apps : status_lost(a) \/ serves(a) \/ dies(a) => IInv'
        BY ProcessesKeep
    <2>8. reboot => IInv'
        BY RebootKeeps
    <2> DEFINE Kept == IInv'
    <2> HIDE DEF Kept
    <2>9. Kept
        BY ONLY <1>2, <2>1, <2>2, <2>3, <2>4, <2>5, <2>6, <2>7, <2>8, ZenonT(60) DEF Next, Kept
    <2> QED
        BY <2>9 DEF Kept
<1> QED
    BY <1>1, <1>2

LEMMA Invariance == Spec => []IInv
BY Initially, NextKeeps, PTL DEF Spec

\* The registry, the index, requests and probes keep their types, and only registered
\* apps are RUNNING.
THEOREM TypeCorrect == Spec => []TypeOK
<1>1. IInv => TypeOK
    BY DEF IInv
<1> QED
    BY <1>1, Invariance, PTL

\* For any number of requests that overlap on any apps: the tools clients are offered of
\* an app are those the registry holds it to, or none.
THEOREM IndexAlwaysAgrees == Spec => []IndexAgreesWithRegistry
<1>1. IInv => IndexAgreesWithRegistry
    BY DEF IInv, TypeOK, OneInfo, IndexAgreesWithRegistry, RegisteredTools, NeverDeleted,
           registered
<1> QED
    BY <1>1, Invariance, PTL

-----------------------------------------------------------------------------
(* What an app is held to. *)

\* No two requests in flight are for one app.
OneRequestPerApp ==
    \A r, s \in Requests :
        request[r] # NoRequest /\ request[s] # NoRequest /\ request[r].app = request[s].app
            => r = s

\* A request that is alone with its app knows what the registry holds the app to.
RequestsKnowTools ==
    \A r \in Requests :
        request[r] # NoRequest /\ NeverDeleted(request[r].app)
            => request[r].old_tools = registered_tools[request[r].app][1]

LEMMA InitiallyKnown == Init => RequestsKnowTools
BY DEF Init, RequestsKnowTools

\* registered_tools changes in one step only, and in the place of the request's app.
LEMMA WhoRegistersTools ==
    ASSUME IInv, [Next]_vars, NEW a \in Apps,
           NeverDeleted(a), boots' = boots, registered_tools'[a][1] # registered_tools[a][1]
    PROVE  \E r \in Requests : /\ on_app_started(r) /\ Accepted(r) /\ request[r].app = a
                               /\ registered_tools'[a][1] = request[r].fetched
<1>1. ~ UNCHANGED registered_tools
    OBVIOUS
<1>2. ~ reboot
    <2>1. boots \in Nat
        BY DEF IInv, TypeOK
    <2> QED
        BY <2>1 DEF reboot
<1>3. PICK r \in Requests : on_app_started(r)
    BY <1>1, <1>2 DEF Next, vars, mcp_info, start, restart, fetch_ends, on_app_stopped,
           delete_app, register_app, status_lost, probe_mcp, probe_ends, serves, dies
<1>4. Accepted(r)
    BY <1>1, <1>3 DEF on_app_started, NothingFetched, Rejected, mcp_info
<1> DEFINE b == request[r].app
           m == info[b][request[r].entry]
<1>5. /\ b \in Apps /\ m \in Entries /\ made[b] # 0
      /\ made[b] = 1 => m = 1
    BY <1>3, RequestInfo DEF on_app_started
<1>6. registered_tools' = [registered_tools EXCEPT ![b][m] = request[r].fetched]
    BY <1>4 DEF Accepted
<1> HIDE DEF b, m
<1>7. registered_tools \in [Apps -> [Entries -> SUBSET Tools]]
    BY DEF IInv, TypeOK
<1>8. b = a
    BY <1>5, <1>6, <1>7
<1>9. m = 1
    BY <1>5, <1>8 DEF NeverDeleted
<1>10. registered_tools'[a][1] = request[r].fetched
    BY <1>5, <1>6, <1>7, <1>8, <1>9
<1> QED
    BY <1>3, <1>4, <1>8, <1>10 DEF b

LEMMA StepKeepsKnown ==
    ASSUME OneRequestPerApp, IInv, RequestsKnowTools, [Next]_vars
    PROVE  RequestsKnowTools'
<1> SUFFICES ASSUME NEW r \in Requests, (request[r] # NoRequest)',
                    NeverDeleted(request[r].app)'
             PROVE  request'[r].old_tools = registered_tools'[request'[r].app][1]
    BY DEF RequestsKnowTools
<1> DEFINE a == request'[r].app
<1>1. IInv'
    BY NextKeeps
<1>2. a \in Apps
    BY <1>1 DEF IInv, RequestsHoldEntries
<1>3. ~ reboot
    BY DEF reboot
<1>4. boots' = boots
    BY <1>3 DEF Next, vars, start, restart, fetch_ends, on_app_started, on_app_stopped,
           delete_app, register_app, status_lost, probe_mcp, probe_ends, serves, dies
<1>5. ASSUME NEW b \in Apps, start(r, b) \/ restart(r, b)
      PROVE  request'[r].old_tools = registered_tools'[a][1]
    <2>1. /\ UNCHANGED <<entry, made, info, registered_tools>> /\ Fetch(r, b)
          /\ b \in registered
        BY <1>5 DEF start, restart, registry, mcp_info
    <2>2. request'[r] = [app |-> b, entry |-> entry[b], pc |-> "fetching",
                         old_tools |-> RegisteredTools(b), fetched |-> {}]
        BY <2>1 DEF Fetch, IInv, TypeOK
    <2>3. a = b /\ request'[r].old_tools = RegisteredTools(b)
        BY <2>2
    <2>4. NeverDeleted(b)
        BY <2>1, <2>3 DEF NeverDeleted, registered
    <2>5. RegisteredTools(b) = registered_tools[b][1]
        BY <2>4 DEF RegisteredTools, NeverDeleted, IInv, OneInfo, TypeOK, registered
    <2> QED
        BY <2>1, <2>3, <2>5
<1>6. CASE ~ \E b \in Apps : start(r, b) \/ restart(r, b)
    <2>1. ~ on_app_started(r)
        BY DEF on_app_started, EndRequest, IInv, TypeOK
    <2>2. \/ request'[r] = request[r]
          \/ fetch_ends(r)
        <3>1. \/ UNCHANGED request
              \/ \E s \in Requests : \/ \E b \in Apps : start(s, b) \/ restart(s, b)
                                    \/ fetch_ends(s)
                                    \/ on_app_started(s)
            BY <1>3 DEF Next, vars, on_app_stopped, delete_app, register_app, status_lost,
                   probe_mcp, probe_ends, serves, dies
        <3>2. ASSUME NEW s \in Requests, s # r,
                     \/ \E b \in Apps : start(s, b) \/ restart(s, b)
                     \/ fetch_ends(s)
                     \/ on_app_started(s)
              PROVE  request'[r] = request[r]
            BY <3>2 DEF start, restart, Fetch, fetch_ends, on_app_started, EndRequest, IInv,
                   TypeOK
        <3> QED
            BY <1>6, <2>1, <3>1, <3>2
    <2>3. /\ request'[r].old_tools = request[r].old_tools /\ request'[r].app = request[r].app
          /\ request[r] # NoRequest
        <3>1. CASE request'[r] = request[r]
            BY <3>1
        <3>2. CASE fetch_ends(r)
            <4>1. PICK tools \in {{}, offers[request[r].app]} :
                        request' = [request EXCEPT ![r].pc = "fetched", ![r].fetched = tools]
                BY <3>2 DEF fetch_ends
            <4>2. /\ request[r] \in RequestType /\ request \in [Requests -> RequestType]
                  /\ request[r] # NoRequest
                BY <3>2, Types DEF fetch_ends, IInv, NoRequest
            <4> DEFINE new == [request[r] EXCEPT !.pc = "fetched", !.fetched = tools]
            <4>3. new.old_tools = request[r].old_tools /\ new.app = request[r].app
                BY <4>2 DEF RequestType
            <4>4. request' = [request EXCEPT ![r] = new]
                BY <4>1, <4>2
            <4> HIDE DEF new
            <4>5. request'[r] = new
                BY <4>2, <4>4
            <4> QED
                BY <4>2, <4>3, <4>5
        <3> QED
            BY <2>2, <3>1, <3>2
    <2>4. NeverDeleted(a)
        <3>1. made[a] # 0
            BY <2>3 DEF IInv, RequestsHoldEntries
        <3>2. \/ UNCHANGED <<entry, made>>
              \/ \E b \in Apps : register_app(b) \/ delete_app(b)
            BY <1>3 DEF Next, vars, registry, start, restart, fetch_ends, on_app_started,
                   on_app_stopped, status_lost, probe_mcp, probe_ends, serves, dies
        <3>3. made[a] = 1 /\ entry[a] # 0
            <4>1. CASE UNCHANGED <<entry, made>>
                BY <4>1 DEF NeverDeleted, registered
            <4>2. ASSUME NEW b \in Apps, register_app(b)
                  PROVE  made[a] = 1 /\ entry[a] # 0
                BY <1>2, <3>1, <4>2 DEF register_app, NeverDeleted, registered, IInv, TypeOK, Entries
            <4>3. ASSUME NEW b \in Apps, delete_app(b)
                  PROVE  made[a] = 1 /\ entry[a] # 0
                BY <1>2, <4>3 DEF delete_app, NeverDeleted, registered, IInv, TypeOK
            <4> QED
                BY <3>2, <4>1, <4>2, <4>3
        <3> QED
            BY <1>2, <3>3 DEF NeverDeleted, registered
    <2>5. registered_tools'[a][1] = registered_tools[a][1]
        <3> SUFFICES ASSUME registered_tools'[a][1] # registered_tools[a][1] PROVE FALSE
            OBVIOUS
        <3>1. PICK s \in Requests : on_app_started(s) /\ request[s].app = a
            BY <1>2, <1>4, <2>4, WhoRegistersTools
        <3>2. request[s] # NoRequest
            BY <3>1 DEF on_app_started, NoRequest
        <3> QED
            BY <2>1, <2>3, <3>1, <3>2 DEF OneRequestPerApp
    <2> QED
        BY <2>3, <2>4, <2>5 DEF RequestsKnowTools
<1> QED
    BY <1>5, <1>6

\* As long as no two requests in flight are for one app, with any requests for other
\* apps, stops, probes, deletions, deaths and new versions between the steps of each:
\* what a registered app has offered it goes on being held to.
THEOREM RegisteredToolsAlwaysStay == Spec /\ []OneRequestPerApp => RegisteredToolsStay
<1> DEFINE Stays ==
        \A a \in Apps : NeverDeleted(a) /\ boots' = boots /\ entry'[a] = entry[a]
            => RegisteredTools(a) \subseteq RegisteredTools(a)'
<1>1. OneRequestPerApp /\ RequestsKnowTools /\ IInv /\ [Next]_vars => RequestsKnowTools'
    BY StepKeepsKnown
<1>2. Spec /\ []OneRequestPerApp => []RequestsKnowTools
    BY <1>1, InitiallyKnown, Invariance, PTL DEF Spec
<1>3. ASSUME RequestsKnowTools, IInv, [Next]_vars, NEW a \in Apps,
             NeverDeleted(a), boots' = boots, entry'[a] = entry[a]
      PROVE  RegisteredTools(a) \subseteq RegisteredTools(a)'
    <2>1. IInv' /\ entry[a] = 1
        BY <1>3, NextKeeps DEF NeverDeleted, registered, IInv, TypeOK
    <2>2. made'[a] = 1
        <3>1. \A b \in Apps : register_app(b) => made'[a] = made[a]
            BY <1>3, <2>1 DEF register_app, IInv, TypeOK, registered
        <3>2. ~ reboot
            BY <1>3 DEF reboot, IInv, TypeOK
        <3> QED
            BY <1>3, <3>1, <3>2 DEF Next, vars, registry, start, restart, fetch_ends,
                   on_app_started, on_app_stopped, delete_app, status_lost, probe_mcp,
                   probe_ends, serves, dies, NeverDeleted
    <2>3. /\ RegisteredTools(a) = registered_tools[a][1]
          /\ RegisteredTools(a)' = registered_tools'[a][1]
        BY <1>3, <2>1, <2>2 DEF RegisteredTools, NeverDeleted, IInv, OneInfo
    <2>4. CASE registered_tools'[a][1] # registered_tools[a][1]
        <3>1. PICK r \in Requests : /\ on_app_started(r) /\ Accepted(r) /\ request[r].app = a
                                    /\ registered_tools'[a][1] = request[r].fetched
            BY <1>3, <2>4, WhoRegistersTools
        <3>2. request[r] # NoRequest
            BY <3>1 DEF on_app_started, NoRequest
        <3>3. request[r].old_tools = registered_tools[a][1]
            BY <1>3, <3>1, <3>2 DEF RequestsKnowTools
        <3> QED
            BY <2>3, <3>1, <3>3 DEF Accepted, check_backward_compatibility
    <2> QED
        BY <2>3, <2>4
<1>4. RequestsKnowTools /\ IInv /\ [Next]_vars => [Stays]_vars
    BY <1>3
<1> QED
    BY <1>2, <1>4, Invariance, PTL DEF Spec, RegisteredToolsStay
=============================================================================
