----------------------------- MODULE Discovery -----------------------------
(***************************************************************************)
(* AppManager.discover_apps and unregister_app as they use the database    *)
(* provisioner and the stream manager, with version bumps, the starts and  *)
(* stops of the apps, and a platform that can die at any point.            *)
(*                                                                         *)
(* Discovery runs on the event loop without an await, so no handler runs   *)
(* in between its steps, but the apps do, as systemd units of their own.   *)
(* The registry is in memory.  Statuses are left out: ServiceManager and   *)
(* HealthMonitor have them.                                                *)
(***************************************************************************)
EXTENDS Provisioner, Streams, Sequences

CONSTANTS
    Folders,            \* apps in the apps directory
    CandidateIds,       \* folder -> the ids _generate_app_id tries, in order
    Publishes, Subscribes   \* folder -> the streams of its manifest

ASSUME DiscoveryAssumption ==
    /\ Apps \subseteq Folders /\ NoApp \notin Folders
    /\ CandidateIds \in [Folders -> Seq(Ids)]
    /\ Publishes \in [Folders -> SUBSET StreamNames]
    /\ Subscribes \in [Folders -> SUBSET StreamNames]

Candidates(f) == {CandidateIds[f][n] : n \in DOMAIN CandidateIds[f]}

\* The counter of _generate_app_id has no end: whatever the other apps are called, one
\* of the candidates is free.
ASSUME EnoughIds ==
    \A f \in Folders : \A others \in [Folders \ {f} -> Ids \cup {NoId}] :
        (\A g \in Folders \ {f} : others[g] \in Candidates(g) \cup {NoId})
            => \E i \in Candidates(f) : \A g \in Folders \ {f} : others[g] # i

VARIABLES
    folder,     \* folder -> the version in it
    entry,      \* folder -> its registry entry
    process     \* app -> the password its running process was started with, or 0

vars == <<pgvars, work, streamvars, folder, entry, process>>

NoEntry == [id |-> NoId, version |-> 0, password |-> 0]

Init ==
    /\ ProvisionerInit /\ StreamsInit
    /\ folder \in [Folders -> {v \in Versions : \A w \in Versions : v <= w}]
    /\ entry = [f \in Folders |-> NoEntry]
    /\ process = [a \in Apps |-> 0]

Registered == {f \in Folders : entry[f] # NoEntry}
TakenIds == {entry[f].id : f \in Registered}

\* The first candidate that is free.
FirstId(f) == LET n == CHOOSE n \in DOMAIN CandidateIds[f] :
                     /\ CandidateIds[f][n] \notin TakenIds
                     /\ \A k \in 1 .. n - 1 : CandidateIds[f][k] \in TakenIds
              IN CandidateIds[f][n]

InUse(a) == {role[a], creds[a], process[a], entry[a].password, work.password}

-----------------------------------------------------------------------------
discover(f) ==
    /\ work = Idle /\ entry[f] = NoEntry
    /\ work' = [Idle EXCEPT !.app = f, !.at = IF f \in Apps THEN "role" ELSE "streams"]
    /\ UNCHANGED <<pgvars, streamvars, folder, entry, process>>

provision_database(a) ==
    /\ provision(a, folder[a], InUse(a))
    /\ UNCHANGED <<streamvars, folder, entry, process>>

step_fails == provisioning_fails /\ UNCHANGED <<streamvars, folder, entry, process>>

register_app(f) ==
    /\ At(f, "streams")
    /\ setup_streams(FirstId(f), Publishes[f], Subscribes[f])
    /\ entry' = [entry EXCEPT ![f] =
          [id |-> FirstId(f), version |-> folder[f], password |-> work.password]]
    /\ Stop
    /\ UNCHANGED <<pgvars, folder, process>>

register_fails(f) ==
    /\ At(f, "streams")
    /\ setup_fails(FirstId(f), Publishes[f], Subscribes[f])
    /\ Stop
    /\ UNCHANGED <<pgvars, folder, entry, process>>

\* _update_existing_app of a new version; the streams of the old one stay, and so does
\* the unit if it runs.
update_existing_app(f) ==
    /\ work = Idle /\ f \in Registered /\ entry[f].version # folder[f]
    /\ IF f \in Apps
       THEN \E already \in Readings(database[f]) :
               SetDatabase(f, Migrated(database[f], folder[f], already))
       ELSE UNCHANGED database
    /\ entry' = [entry EXCEPT ![f].version = folder[f]]
    /\ UNCHANGED <<role, creds, work, streamvars, folder, process>>

\* The entry becomes an ERROR of the old version, and the next discovery tries again.
update_fails(f) ==
    /\ work = Idle /\ f \in Registered \cap Apps /\ entry[f].version # folder[f]
    /\ \E already \in Readings(database[f]) :
          /\ Pending(folder[f], already) # {}
          /\ \E db \in AfterFailure(database[f], folder[f], already) : SetDatabase(f, db)
    /\ UNCHANGED <<role, creds, work, streamvars, folder, entry, process>>

EndProcess(f) == process' = [a \in Apps |-> IF a = f THEN 0 ELSE process[a]]

\* DELETE /api/apps/{id}; neither database nor credentials are touched.
delete_app(f) ==
    /\ work = Idle /\ f \in Registered
    /\ EndProcess(f)
    /\ \/ cleanup_app(entry[f].id) /\ entry' = [entry EXCEPT ![f] = NoEntry]
       \/ cleanup_fails(entry[f].id) /\ UNCHANGED entry
    /\ UNCHANGED <<pgvars, work, folder>>

start_service(a) ==
    /\ work = Idle /\ a \in Registered /\ process[a] = 0
    /\ process' = [process EXCEPT ![a] = entry[a].password]
    /\ UNCHANGED <<pgvars, work, streamvars, folder, entry>>

stop_service(a) ==
    /\ work = Idle /\ a \in Registered /\ process[a] # 0
    /\ EndProcess(a)
    /\ UNCHANGED <<pgvars, work, streamvars, folder, entry>>

\* The platform dies, in _store_password and setup_streams too, and starts again;
\* its units go on.
crash ==
    /\ work' = Idle /\ entry' = [f \in Folders |-> NoEntry]
    /\ forget_streams
    /\ IF work.at = "streams"
       THEN \E G \in SUBSET Subscribes[work.app] : CreateGroups(FirstId(work.app), G)
       ELSE UNCHANGED groups
    /\ UNCHANGED <<pgvars, folder, process>>

\* An operator puts a newer version into the folder.
folder_changes(f) ==
    /\ work = Idle
    /\ \E v \in Versions : v > folder[f] /\ folder' = [folder EXCEPT ![f] = v]
    /\ UNCHANGED <<pgvars, work, streamvars, entry, process>>

\* The app stores something, at any time.
write_data(a) ==
    /\ process[a] # 0 /\ database[a].exists /\ process[a] = role[a]
    /\ database' = [database EXCEPT ![a].data = TRUE]
    /\ UNCHANGED <<role, creds, work, streamvars, folder, entry, process>>

Next ==
    \/ \E f \in Folders :
          \/ discover(f) \/ register_app(f) \/ register_fails(f)
          \/ update_existing_app(f) \/ update_fails(f) \/ delete_app(f) \/ folder_changes(f)
    \/ \E a \in Apps :
          \/ provision_database(a) \/ start_service(a) \/ stop_service(a) \/ write_data(a)
    \/ step_fails \/ crash

Spec == Init /\ [][Next]_vars

-----------------------------------------------------------------------------
(* Properties *)

TypeOK ==
    /\ role \in [Apps -> Passwords \cup {0}] /\ creds \in [Apps -> Passwords \cup {0}]
    /\ database \in [Apps -> [exists : BOOLEAN, runs : [Migs -> 0 .. 2],
                              recorded : SUBSET Migs, misread : BOOLEAN, data : BOOLEAN]]
    /\ work.app \in Folders \cup {NoApp} /\ work.new \in BOOLEAN
    /\ work.password \in Passwords \cup {0}
    /\ work.at \in {"idle", "role", "store", "database", "migrate", "grant", "streams",
                    "drop_database", "drop_role", "unlink"}
    /\ publisher \in [StreamNames -> Ids \cup {NoId}]
    /\ subscriber_groups \in [Ids -> SUBSET StreamNames]
    /\ groups \in [StreamNames -> SUBSET Ids]
    /\ folder \in [Folders -> Versions]
    /\ \A f \in Folders :
          /\ entry[f].id \in Ids \cup {NoId} /\ entry[f].version \in Versions \cup {0}
          /\ f \in Registered \cap Apps => entry[f].password \in Passwords
    /\ process \in [Apps -> Passwords \cup {0}]

\* "Use a stable stored password so that platform restarts don't rotate credentials
\* under already-running app processes": whatever fails or dies in between, a running
\* app can log in to its database.
RunningAppCanConnect ==
    \A a \in Apps : process[a] # 0 => database[a].exists /\ role[a] = process[a]

\* A registered app has all migrations of its registered version, however many
\* provisionings and bumps have failed or died on the way.
RegisteredAppIsMigrated ==
    \A a \in Registered \cap Apps :
        database[a].exists /\ Ships[entry[a].version] \subseteq database[a].recorded

\* schema_versions tells the truth, and a migration runs once, unless a read of
\* schema_versions has failed and counted as an empty one.
MigrationsRunOnce ==
    \A a \in Apps : LET db == database[a] IN
        /\ db.recorded = {m \in Migs : db.runs[m] > 0}
        /\ db.misread \/ \A m \in Migs : db.runs[m] <= 1

\* Only a database that has just been created is ever dropped: what an app has stored
\* survives failed migrations, deletion of the app and restarts.
DataSurvives ==
    [][\A a \in Apps : database[a].data => database'[a].data]_vars

\* "Each stream has exactly ONE publisher app": the map gives every registered
\* app its streams, also after failed registrations under the same id.
PublishersOwnStreams ==
    \A f \in Registered : \A s \in Publishes[f] : publisher[s] = entry[f].id

\* A subscriber has the consumer groups the platform thinks it has, and no two apps
\* share one.
SubscribersHaveGroups ==
    /\ \A f \in Registered : \A s \in subscriber_groups[entry[f].id] :
          entry[f].id \in groups[s]
    /\ \A f, g \in Registered : f # g => entry[f].id # entry[g].id
=============================================================================
