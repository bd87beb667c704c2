-------------------------- MODULE DiscoveryProofs --------------------------
(***************************************************************************)
(* What Discovery keeps for any folders, versions, migrations and          *)
(* passwords of which one is always new.  The invariant says of each app   *)
(* what holds of its role, its credentials, its database, its entry and    *)
(* its process, and of the app being provisioned what the steps so far     *)
(* have established; and, in a second part that needs none of this, of     *)
(* each stream who publishes it and who has a group on it.                 *)
(***************************************************************************)
EXTENDS Discovery, TLAPS, WellFoundedInduction

Password == Passwords \cup {0}
Place == {"idle", "role", "store", "database", "migrate", "grant", "streams",
          "drop_database", "drop_role", "unlink"}
Database == [exists : BOOLEAN, runs : [Migs -> 0 .. 2], recorded : SUBSET Migs,
             misread : BOOLEAN, data : BOOLEAN]
Work == [app : Folders \cup {NoApp}, at : Place, password : Password, new : BOOLEAN]

\* The id is left open: FirstId is a CHOOSE.
IsEntry(e) ==
    /\ e = [id |-> e.id, version |-> e.version, password |-> e.password]
    /\ e.version \in Versions \cup {0} /\ e.password \in Password

Types ==
    /\ role \in [Apps -> Password] /\ creds \in [Apps -> Password]
    /\ process \in [Apps -> Password]
    /\ database \in [Apps -> Database]
    /\ folder \in [Folders -> Versions]
    /\ work \in Work
    /\ entry = [f \in Folders |-> entry[f]] /\ \A f \in Folders : IsEntry(entry[f])

\* Whoever has this password can log in, and it will not be rotated.
Sound(a, p) ==
    p \in Passwords /\ creds[a] = p /\ role[a] = p /\ database[a].exists

Truthful(db) ==
    /\ db.recorded = {m \in Migs : db.runs[m] > 0}
    /\ db.misread \/ \A m \in Migs : db.runs[m] <= 1
    /\ db.data => db.exists

\* A role without its credentials is left by a crash; credentials whose role is gone by a
\* cleanup that died; but the two never differ.
Steady(a) ==
    /\ creds[a] # 0 => role[a] \in {0, creds[a]}
    /\ process[a] # 0 => Sound(a, process[a])
    /\ Truthful(database[a])
    /\ a \in Registered =>
          /\ entry[a].version \in Versions /\ Sound(a, entry[a].password)
          /\ Ships[entry[a].version] \subseteq database[a].recorded

HasRole(a) == work.password \in Passwords /\ role[a] = work.password

Dropping == {"drop_database", "drop_role", "unlink"}

\* Where work.at is, the steps before it have succeeded.
InWork(a) ==
    work.app = a =>
        /\ a \notin Registered
        /\ work.at = "store" => HasRole(a) /\ creds[a] = 0
        /\ work.at \in {"database", "migrate", "grant", "streams"} =>
              HasRole(a) /\ creds[a] = work.password
        /\ work.at \in {"migrate", "grant", "streams"} => database[a].exists
        /\ work.at \in {"grant", "streams"} => Ships[folder[a]] \subseteq database[a].recorded
        /\ (work.at = "migrate" /\ work.new) \/ work.at \in Dropping =>
              process[a] = 0 /\ ~ database[a].data

AppInv == \A a \in Apps : Steady(a) /\ InWork(a)

IInv == Types /\ AppInv

StreamTypes ==
    /\ publisher \in [StreamNames -> Ids \cup {NoId}]
    /\ subscriber_groups \in [Ids -> SUBSET StreamNames]
    /\ groups \in [StreamNames -> SUBSET Ids]

\* A folder has an id of its own, which is that of its streams.
StreamInv ==
    /\ StreamTypes
    /\ \A f \in Registered : entry[f].id \in Candidates(f)
    /\ \A f, g \in Registered : f # g => entry[f].id # entry[g].id
    /\ PublishersOwnStreams
    /\ \A i \in Ids : \A s \in subscriber_groups[i] : i \in groups[s]
    /\ work.app \notin Registered
    /\ work.at = "streams" => work.app \in Folders

-----------------------------------------------------------------------------
(* Databases. *)

LEMMA NewDatabases ==
    /\ NoDatabase \in Database /\ NewDatabase \in Database
    /\ Truthful(NoDatabase) /\ Truthful(NewDatabase)
    /\ NewDatabase.exists /\ ~ NewDatabase.data /\ ~ NoDatabase.data
<1>1. [m \in Migs |-> 0] \in [Migs -> 0 .. 2]
    OBVIOUS
<1>2. NoDatabase \in Database /\ NewDatabase \in Database
    BY <1>1 DEF NoDatabase, NewDatabase, EmptyDatabase, Database
<1>3. Truthful(NoDatabase) /\ Truthful(NewDatabase)
    BY DEF NoDatabase, NewDatabase, EmptyDatabase, Truthful
<1> QED
    BY <1>2, <1>3 DEF NoDatabase, NewDatabase, EmptyDatabase

\* Whatever schema_versions was taken for, the migrations of the version are there
\* afterwards and nothing is lost.
LEMMA MigratedDatabase ==
    ASSUME NEW db \in Database, NEW v \in Versions, NEW already \in Readings(db),
           Truthful(db)
    PROVE  LET new == Migrated(db, v, already) IN
           /\ new \in Database /\ Truthful(new)
           /\ new.exists = db.exists /\ new.data = db.data
           /\ new.recorded = db.recorded \cup Ships[v]
<1> DEFINE pending == Pending(v, already)
           runs == [m \in Migs |-> IF m \in pending /\ db.runs[m] < 2 THEN db.runs[m] + 1
                                                                    ELSE db.runs[m]]
           new == Migrated(db, v, already)
<1>1. /\ pending \in SUBSET Migs /\ db.recorded \in SUBSET Migs
      /\ db.recorded \cup pending = db.recorded \cup Ships[v]
    BY ProvisionerAssumption DEF Pending, Readings, Database
<1>2. db.runs \in [Migs -> 0 .. 2]
    BY DEF Database
<1>3. runs \in [Migs -> 0 .. 2]
    BY <1>2
<1>4. /\ new.exists = db.exists /\ new.data = db.data
      /\ new.runs = runs /\ new.recorded = db.recorded \cup pending
      /\ new.misread <=> (db.misread \/ already # db.recorded)
    BY DEF Migrated
<1>5. new \in Database
    BY <1>1, <1>3 DEF Migrated, Database
<1>6. new.recorded = {m \in Migs : new.runs[m] > 0}
    BY <1>1, <1>2, <1>4 DEF Truthful
<1>7. new.misread \/ \A m \in Migs : new.runs[m] <= 1
    BY <1>1, <1>2, <1>4 DEF Truthful, Pending
<1>8. Truthful(new)
    BY <1>4, <1>6, <1>7 DEF Truthful
<1> HIDE DEF new
<1> QED
    BY <1>1, <1>4, <1>5, <1>8 DEF new

-----------------------------------------------------------------------------
(* Steps of a provisioning. *)

LEMMA Initially == Init => IInv
<1> SUFFICES ASSUME Init PROVE IInv
    OBVIOUS
<1> USE DEF Init, ProvisionerInit
<1>1. /\ Idle \in Work /\ Idle.app = NoApp
    BY DEF Idle, Work, Place, Password
<1>2. \A f \in Folders : entry[f] = NoEntry /\ IsEntry(entry[f])
    BY DEF NoEntry, IsEntry, Password
<1>3. Types
    BY <1>1, <1>2, NewDatabases DEF Types, Password
<1>4. ASSUME NEW a \in Apps PROVE Steady(a)
    BY <1>2, <1>4, NewDatabases, DiscoveryAssumption DEF Steady, Registered
<1>5. ASSUME NEW a \in Apps PROVE InWork(a)
    BY <1>1, ProvisionerAssumption DEF InWork
<1> QED
    BY <1>3, <1>4, <1>5 DEF IInv, AppInv

\* What a statement for the app in progress does not touch.
Elsewhere(a) ==
    /\ UNCHANGED <<folder, entry, process>>
    /\ \A b \in Apps \ {a} :
          role'[b] = role[b] /\ creds'[b] = creds[b] /\ database'[b] = database[b]

LEMMA OthersStay ==
    ASSUME IInv, NEW a \in Apps, Elsewhere(a), work'.app \in {a, NoApp},
           Types', Steady(a)', InWork(a)'
    PROVE  IInv'
<1>1. ASSUME NEW b \in Apps, b # a PROVE Steady(b)'
    BY <1>1 DEF IInv, AppInv, Elsewhere, Steady, Sound, Registered
<1>2. ASSUME NEW b \in Apps, b # a PROVE InWork(b)'
    BY <1>2, ProvisionerAssumption DEF InWork
<1> QED
    BY <1>1, <1>2 DEF IInv, AppInv

LEMMA Goes ==
    ASSUME work \in Work, NEW step \in Place, Go(step)
    PROVE  /\ work' \in Work /\ work'.app = work.app /\ work'.at = step
           /\ work'.password = work.password /\ (work'.new <=> work.new)
    BY DEF Work, Go

LEMMA Stops ==
    ASSUME Stop
    PROVE  work' \in Work /\ work'.app = NoApp
    BY DEF Stop, Idle, Work, Place, Password

LEMMA Fresh ==
    ASSUME Types, NEW a \in Apps
    PROVE  (CHOOSE p \in Passwords : p \notin InUse(a)) \in Passwords
<1>1. entry[a].password \in Password /\ work.password \in Password
    BY DiscoveryAssumption DEF Types, IsEntry, Work
<1>2. role[a] \in Password /\ creds[a] \in Password /\ process[a] \in Password
    BY DEF Types
<1>3. \E p \in Passwords : p \notin InUse(a)
    BY <1>1, <1>2, FreshPassword DEF InUse, Password
<1> QED
    BY <1>3

LEMMA StatementKeeps ==
    ASSUME IInv, NEW a \in Apps, provision_database(a)
    PROVE  IInv'
<1> DEFINE v == folder[a]
           fresh == CHOOSE p \in Passwords : p \notin InUse(a)
<1> USE DEF Idle
<1>0. /\ Types /\ Steady(a) /\ InWork(a)
      /\ UNCHANGED <<folder, entry, process>>
      /\ provision(a, v, InUse(a))
      /\ a \in Folders /\ v \in Versions /\ a # NoApp /\ work \in Work
      /\ database[a] \in Database /\ 0 \notin Passwords
    BY DiscoveryAssumption, ProvisionerAssumption
       DEF IInv, AppInv, provision_database, Types
<1>1. CASE create_role(a, InUse(a))
    <2>1. fresh \in Passwords
        BY <1>0, Fresh
    <2>2. work.app = a /\ UNCHANGED <<creds, database>> /\ Elsewhere(a)
        BY <1>0, <1>1 DEF create_role, At, Elsewhere, Types
    <2>3. CASE creds[a] # 0
        <3>1. /\ role' = [role EXCEPT ![a] = IF @ = 0 THEN creds[a] ELSE @]
              /\ work' = [work EXCEPT !.at = "database", !.password = creds[a]]
            BY <1>1, <2>3 DEF create_role, Stored, load_stored_password
        <3>2. /\ work' \in Work /\ work'.app = a /\ work'.at = "database"
              /\ work'.password = creds[a]
            BY <1>0, <2>2, <3>1 DEF Work, Place, Types
        <3>3. role'[a] = creds[a] /\ creds[a] \in Passwords /\ role' \in [Apps -> Password]
            BY <1>0, <2>3, <3>1 DEF Types, Steady, Password
        <3>4. Types'
            BY <1>0, <2>2, <3>2, <3>3 DEF Types
        <3>5. Steady(a)'
            BY <1>0, <2>2, <2>3, <3>3 DEF Steady, Sound, Registered, InWork
        <3>6. InWork(a)'
            BY <1>0, <2>2, <3>2, <3>3 DEF InWork, HasRole, Registered, Dropping
        <3> QED
            BY <2>2, <3>2, <3>4, <3>5, <3>6, OthersStay
    <2>4. CASE creds[a] = 0
        <3>1. /\ role' = [role EXCEPT ![a] = fresh]
              /\ work' = [work EXCEPT !.at = "store", !.password = fresh]
            BY <1>1, <2>4 DEF create_role, Stored
        <3> HIDE DEF fresh
        <3>2. /\ work' \in Work /\ work'.app = a /\ work'.at = "store"
              /\ work'.password = fresh
            BY <1>0, <2>1, <2>2, <3>1 DEF Work, Place, Password
        <3>3. role'[a] = fresh /\ role' \in [Apps -> Password]
            BY <1>0, <2>1, <3>1 DEF Types, Password
        <3>4. Types'
            BY <1>0, <2>2, <3>2, <3>3 DEF Types
        <3>5. Steady(a)'
            BY <1>0, <2>2, <2>4, <3>3 DEF Steady, Sound, Registered, InWork
        <3>6. InWork(a)'
            BY <1>0, <2>1, <2>2, <2>4, <3>2, <3>3 DEF InWork, HasRole, Registered, Dropping
        <3> QED
            BY <2>2, <3>2, <3>4, <3>5, <3>6, OthersStay
    <2> QED
        BY <2>3, <2>4
<1>2. CASE store_password(a)
    <2>1. /\ work.app = a /\ work.at = "store" /\ Go("database") /\ UNCHANGED <<role, database>>
          /\ creds' = [creds EXCEPT ![a] = work.password]
          /\ "database" \in Place
        BY <1>2 DEF store_password, At, Place
    <2>2. HasRole(a) /\ creds[a] = 0
        BY <1>0, <2>1 DEF InWork
    <2>3. /\ work' \in Work /\ work'.app = a /\ work'.at = "database"
          /\ work'.password = work.password
        BY <1>0, <2>1, Goes
    <2>4. /\ creds'[a] = work.password /\ creds' \in [Apps -> Password] /\ Elsewhere(a)
        BY <1>0, <2>1, <2>2 DEF Types, HasRole, Password, Elsewhere
    <2>5. Types'
        BY <1>0, <2>1, <2>3, <2>4 DEF Types
    <2>6. Steady(a)'
        BY <1>0, <2>1, <2>2, <2>4 DEF Steady, Sound, Registered, InWork, HasRole
    <2>7. InWork(a)'
        BY <1>0, <2>1, <2>2, <2>3, <2>4 DEF InWork, HasRole, Registered, Dropping
    <2> QED
        BY <2>3, <2>4, <2>5, <2>6, <2>7, OthersStay
<1>3. CASE create_database(a)
    <2> DEFINE db == IF database[a].exists THEN database[a] ELSE NewDatabase
    <2>1. /\ work.app = a /\ work.at = "database" /\ UNCHANGED <<role, creds>>
          /\ database' = [database EXCEPT ![a] = db]
          /\ work' = [work EXCEPT !.at = "migrate", !.new = ~ database[a].exists]
        BY <1>3 DEF create_database, At
    <2>2. HasRole(a) /\ creds[a] = work.password
        BY <1>0, <2>1 DEF InWork
    <2>3. /\ work' \in Work /\ work'.app = a /\ work'.at = "migrate"
          /\ work'.password = work.password /\ (work'.new <=> ~ database[a].exists)
        BY <1>0, <2>1 DEF Work, Place
    <2>4. /\ db \in Database /\ Truthful(db) /\ db.exists
          /\ ~ database[a].exists => ~ db.data
        BY <1>0, NewDatabases DEF Steady
    <2> HIDE DEF db
    <2>5. database'[a] = db /\ database' \in [Apps -> Database] /\ Elsewhere(a)
        BY <1>0, <2>1, <2>4 DEF Types, Elsewhere
    <2>6. Types'
        BY <1>0, <2>1, <2>3, <2>5 DEF Types
    <2>7. Steady(a)'
        BY <1>0, <2>1, <2>4, <2>5 DEF Steady, Sound, Registered, InWork
    <2>8. ~ database[a].exists => process[a] = 0
        BY <1>0 DEF Steady, Sound
    <2>9. InWork(a)'
        BY <1>0, <2>1, <2>2, <2>3, <2>4, <2>5, <2>8 DEF InWork, HasRole, Registered, Dropping
    <2> QED
        BY <2>3, <2>5, <2>6, <2>7, <2>9, OthersStay
<1>4. CASE run_migrations(a, v)
    <2>1. PICK already \in Readings(database[a]) :
                database' = [database EXCEPT ![a] = Migrated(database[a], v, already)]
        BY <1>4 DEF run_migrations, SetDatabase
    <2> DEFINE db == Migrated(database[a], v, already)
    <2>2. /\ work.app = a /\ work.at = "migrate" /\ UNCHANGED <<role, creds>> /\ Go("grant")
          /\ "grant" \in Place
        BY <1>4 DEF run_migrations, At, Place
    <2>3. /\ work' \in Work /\ work'.app = a /\ work'.at = "grant"
          /\ work'.password = work.password
        BY <1>0, <2>2, Goes
    <2>4. /\ db \in Database /\ Truthful(db) /\ (db.exists <=> database[a].exists)
          /\ db.recorded = database[a].recorded \cup Ships[v]
        BY <1>0, MigratedDatabase DEF Steady
    <2>5. database' = [database EXCEPT ![a] = db]
        BY <2>1
    <2> HIDE DEF db
    <2>6. database'[a] = db /\ database' \in [Apps -> Database] /\ Elsewhere(a)
        BY <1>0, <2>2, <2>4, <2>5 DEF Types, Elsewhere
    <2>7. Types'
        BY <1>0, <2>2, <2>3, <2>6 DEF Types
    <2>8. Steady(a)'
        BY <1>0, <2>2, <2>4, <2>6 DEF Steady, Sound, Registered, InWork
    <2>9. InWork(a)'
        BY <1>0, <2>2, <2>3, <2>4, <2>6 DEF InWork, HasRole, Registered, Dropping
    <2> QED
        BY <2>3, <2>6, <2>7, <2>8, <2>9, OthersStay
<1>5. CASE migrations_fail(a, v)
    <2>1. PICK already \in Readings(database[a]) :
                \E db \in AfterFailure(database[a], v, already) : SetDatabase(a, db)
        BY <1>5 DEF migrations_fail
    <2>2. PICK db \in {database[a], Migrated(database[a], v, already)} :
                database' = [database EXCEPT ![a] = db]
        BY <2>1 DEF AfterFailure, SetDatabase
    <2>3. /\ work.app = a /\ work.at = "migrate" /\ UNCHANGED <<role, creds>>
          /\ IF work.new THEN Go("drop_database") ELSE Stop
          /\ "drop_database" \in Place
        BY <1>5 DEF migrations_fail, At, Place, CleanUpOnFailure
    <2>4. /\ work' \in Work
          /\ \/ work'.app = NoApp
             \/ work.new /\ work'.app = a /\ work'.at = "drop_database"
        BY <1>0, <2>3, Goes, Stops
    <2>5. /\ db \in Database /\ Truthful(db) /\ (db.exists <=> database[a].exists)
          /\ (db.data <=> database[a].data) /\ database[a].recorded \subseteq db.recorded
        BY <1>0, <2>2, MigratedDatabase DEF Steady
    <2>6. database'[a] = db /\ database' \in [Apps -> Database] /\ Elsewhere(a)
        BY <1>0, <2>2, <2>3, <2>5 DEF Types, Elsewhere
    <2>7. Types'
        BY <1>0, <2>3, <2>4, <2>6 DEF Types
    <2>8. Steady(a)'
        BY <1>0, <2>3, <2>5, <2>6 DEF Steady, Sound, Registered, InWork
    <2>9. InWork(a)'
        BY <1>0, <2>3, <2>4, <2>5, <2>6 DEF InWork, HasRole, Registered, Dropping
    <2> QED
        BY <2>4, <2>6, <2>7, <2>8, <2>9, OthersStay
<1>6. CASE grant_privileges(a)
    <2>1. /\ work.app = a /\ work.at = "grant" /\ UNCHANGED <<role, creds, database>>
          /\ Go("streams") /\ "streams" \in Place
        BY <1>6 DEF grant_privileges, At, Place, pgvars
    <2>2. /\ work' \in Work /\ work'.app = a /\ work'.at = "streams"
          /\ work'.password = work.password
        BY <1>0, <2>1, Goes
    <2>3. Elsewhere(a) /\ Types' /\ Steady(a)'
        BY <1>0, <2>1, <2>2 DEF Elsewhere, Types, Steady, Sound, Registered
    <2>4. InWork(a)'
        BY <1>0, <2>1, <2>2 DEF InWork, HasRole, Registered, Dropping
    <2> QED
        BY <2>2, <2>3, <2>4, OthersStay
\* The app is not running, and stores nothing.
<1>7. work.app = a /\ work.at \in Dropping =>
          /\ a \notin Registered /\ process[a] = 0 /\ ~ database[a].data
    BY <1>0 DEF InWork
<1>8. CASE drop_database(a)
    <2>1. /\ work.app = a /\ work.at = "drop_database" /\ UNCHANGED <<role, creds>>
          /\ Go("drop_role") \/ Go("unlink")
          /\ database' \in {database, [database EXCEPT ![a] = NoDatabase]}
          /\ "drop_role" \in Place /\ "unlink" \in Place
        BY <1>8 DEF drop_database, SetDatabase, At, Place
    <2>2. /\ work' \in Work /\ work'.app = a /\ work'.at \in {"drop_role", "unlink"}
        BY <1>0, <2>1, Goes
    <2>3. /\ database'[a] \in {database[a], NoDatabase}
          /\ database' \in [Apps -> Database] /\ Elsewhere(a)
        BY <1>0, <2>1, NewDatabases DEF Types, Elsewhere
    <2>4. Types'
        BY <1>0, <2>1, <2>2, <2>3 DEF Types
    <2>5. Truthful(database'[a])
        BY <1>0, <2>3, NewDatabases DEF Steady
    <2>6. Steady(a)'
        BY <1>0, <1>7, <2>1, <2>5 DEF Steady, Registered, Dropping
    <2>7. ~ database'[a].data
        BY <1>7, <2>1, <2>3, NewDatabases DEF Dropping
    <2>8. InWork(a)'
        BY <1>0, <1>7, <2>1, <2>2, <2>7 DEF InWork, Registered, Dropping
    <2> QED
        BY <2>2, <2>3, <2>4, <2>6, <2>8, OthersStay
<1>9. CASE drop_role(a)
    <2>1. /\ work.app = a /\ work.at = "drop_role" /\ UNCHANGED <<creds, database>>
          /\ Go("unlink") /\ role' \in {role, [role EXCEPT ![a] = 0]}
          /\ "unlink" \in Place
        BY <1>9 DEF drop_role, At, Place
    <2>2. /\ work' \in Work /\ work'.app = a /\ work'.at = "unlink"
        BY <1>0, <2>1, Goes
    <2>3. role'[a] \in {role[a], 0} /\ role' \in [Apps -> Password] /\ Elsewhere(a)
        BY <1>0, <2>1 DEF Types, Password, Elsewhere
    <2>4. Types'
        BY <1>0, <2>1, <2>2, <2>3 DEF Types
    <2>5. Steady(a)' /\ InWork(a)'
        BY <1>0, <1>7, <2>1, <2>2, <2>3 DEF Steady, InWork, Registered, Dropping
    <2> QED
        BY <2>2, <2>3, <2>4, <2>5, OthersStay
<1>10. CASE unlink_creds(a)
    <2>1. /\ work.app = a /\ work.at = "unlink" /\ UNCHANGED <<role, database>>
          /\ Stop /\ creds' = [creds EXCEPT ![a] = 0]
        BY <1>10 DEF unlink_creds, At
    <2>2. creds'[a] = 0 /\ creds' \in [Apps -> Password] /\ Elsewhere(a)
        BY <1>0, <2>1 DEF Types, Password, Elsewhere
    <2>3. Types'
        BY <1>0, <2>1, <2>2, Stops DEF Types
    <2>4. Steady(a)' /\ InWork(a)'
        BY <1>0, <1>7, <2>1, <2>2, Stops DEF Steady, InWork, Registered, Dropping
    <2> QED
        BY <2>1, <2>2, <2>3, <2>4, Stops, OthersStay
<1> QED
    BY <1>0, <1>1, <1>2, <1>3, <1>4, <1>5, <1>6, <1>8, <1>9, <1>10 DEF provision

-----------------------------------------------------------------------------
(* Steps of discovery, of the handlers, of the apps and of the platform. *)

LEMMA Resting ==
    /\ Idle \in Work /\ Idle.app = NoApp /\ NoApp \notin Folders /\ NoApp \notin Apps
    /\ Apps \subseteq Folders /\ 0 \notin Passwords /\ 0 \notin Versions
    /\ IsEntry(NoEntry) /\ NoEntry.version = 0
BY DiscoveryAssumption, ProvisionerAssumption
   DEF Idle, Work, Place, Password, IsEntry, NoEntry

LEMMA DiscoverKeeps ==
    ASSUME IInv, NEW f \in Folders, discover(f)
    PROVE  IInv'
<1>1. /\ UNCHANGED <<role, creds, database, folder, entry, process>>
      /\ f \notin Registered
    BY DEF discover, pgvars, Registered
<1>2. /\ work' \in Work /\ work'.app = f
      /\ f \in Apps => work'.at = "role"
    BY DEF discover, Idle, Work, Place, Password
<1>3. Types'
    BY <1>1, <1>2 DEF IInv, Types, IsEntry
<1>4. \A a \in Apps : Steady(a)'
    BY <1>1 DEF IInv, AppInv, Steady, Sound, Registered
<1>5. \A a \in Apps : InWork(a)'
    BY <1>1, <1>2 DEF InWork, Registered, Dropping
<1> QED
    BY <1>3, <1>4, <1>5 DEF IInv, AppInv

LEMMA RegisterKeeps ==
    ASSUME IInv, NEW f \in Folders, register_app(f)
    PROVE  IInv'
<1> DEFINE e == [id |-> FirstId(f), version |-> folder[f], password |-> work.password]
<1>1. /\ UNCHANGED <<role, creds, database, folder, process>> /\ Stop
      /\ entry' = [entry EXCEPT ![f] = e]
      /\ work.app = f /\ work.at = "streams"
    BY DEF register_app, pgvars, At
<1>2. IsEntry(e) /\ e.version = folder[f] /\ e.password = work.password /\ folder[f] \in Versions
    BY DEF IsEntry, IInv, Types, Work
<1> HIDE DEF e
<1>3. entry'[f] = e /\ \A g \in Folders \ {f} : entry'[g] = entry[g]
    BY <1>1 DEF IInv, Types
<1>4. /\ entry' = [g \in Folders |-> entry'[g]]
      /\ \A g \in Folders : IsEntry(entry'[g])
    BY <1>1, <1>2, <1>3 DEF IInv, Types
<1>5. Types'
    BY <1>1, <1>4, Stops DEF IInv, Types, IsEntry
<1>6. ASSUME NEW a \in Apps, a # f PROVE Steady(a)'
    BY <1>1, <1>3, <1>6, Resting DEF IInv, AppInv, Steady, Sound, Registered
<1>7. ASSUME f \in Apps PROVE Steady(f)'
    BY <1>1, <1>2, <1>3, <1>7 DEF IInv, AppInv, Steady, Sound, InWork, HasRole
<1>8. \A a \in Apps : InWork(a)'
    BY <1>1, Stops, Resting DEF InWork
<1> QED
    BY <1>5, <1>6, <1>7, <1>8 DEF IInv, AppInv

\* A provisioning that ends without an entry.
LEMMA AbandonKeeps ==
    ASSUME IInv, Stop, UNCHANGED <<role, creds, database, folder, entry, process>>
    PROVE  IInv'
<1>1. Types'
    BY Stops DEF IInv, Types
<1>2. \A a \in Apps : Steady(a)' /\ InWork(a)'
    BY Stops, Resting DEF IInv, AppInv, Steady, Sound, Registered, InWork
<1> QED
    BY <1>1, <1>2 DEF IInv, AppInv

LEMMA UpdateKeeps ==
    ASSUME IInv, NEW f \in Folders, update_existing_app(f)
    PROVE  IInv'
<1> DEFINE e == [entry[f] EXCEPT !.version = folder[f]]
<1>1. /\ UNCHANGED <<role, creds, work, folder, process>> /\ work = Idle
      /\ entry' = [entry EXCEPT ![f].version = folder[f]]
      /\ f \in Registered
    BY DEF update_existing_app
<1>2. IsEntry(entry[f]) /\ folder[f] \in Versions
    BY DEF IInv, Types
<1>3. IsEntry(e) /\ e.version = folder[f] /\ e.password = entry[f].password
    BY <1>2 DEF IsEntry
<1>4. entry'[f] = e /\ \A g \in Folders \ {f} : entry'[g] = entry[g]
    BY <1>1 DEF IInv, Types
<1>5. entry' = [g \in Folders |-> entry'[g]]
    BY <1>1 DEF IInv, Types
<1> HIDE DEF e
<1>6. \A g \in Folders : IsEntry(entry'[g])
    BY <1>3, <1>4 DEF IInv, Types
<1>7. /\ database' \in [Apps -> Database]
      /\ \A a \in Apps : a # f => database'[a] = database[a]
      /\ f \in Apps =>
            /\ Truthful(database'[f]) /\ (database'[f].exists <=> database[f].exists)
            /\ Ships[folder[f]] \subseteq database'[f].recorded
    <2>1. CASE f \in Apps
        <3>1. PICK already \in Readings(database[f]) :
                    database' = [database EXCEPT ![f] = Migrated(database[f], folder[f], already)]
            BY <2>1 DEF update_existing_app, SetDatabase
        <3> DEFINE db == Migrated(database[f], folder[f], already)
        <3>2. /\ db \in Database /\ Truthful(db) /\ (db.exists <=> database[f].exists)
              /\ Ships[folder[f]] \subseteq db.recorded
            BY <1>2, <2>1, MigratedDatabase DEF IInv, AppInv, Types, Steady
        <3>3. database' = [database EXCEPT ![f] = db]
            BY <3>1
        <3> HIDE DEF db
        <3> QED
            BY <2>1, <3>2, <3>3 DEF IInv, Types
    <2>2. CASE f \notin Apps
        BY <2>2 DEF update_existing_app, IInv, Types
    <2> QED
        BY <2>1, <2>2
<1>8. Types'
    BY <1>1, <1>5, <1>6, <1>7 DEF IInv, Types, IsEntry
<1>9. ASSUME NEW a \in Apps, a # f PROVE Steady(a)'
    BY <1>1, <1>4, <1>7, <1>9, Resting DEF IInv, AppInv, Steady, Sound, Registered
<1>10. ASSUME f \in Apps PROVE Steady(f)'
    BY <1>1, <1>2, <1>3, <1>4, <1>7, <1>10 DEF IInv, AppInv, Steady, Sound
<1>11. \A a \in Apps : InWork(a)'
    BY <1>1, Resting DEF InWork
<1> QED
    BY <1>8, <1>9, <1>10, <1>11 DEF IInv, AppInv

LEMMA UpdateFailsKeeps ==
    ASSUME IInv, NEW f \in Folders, update_fails(f)
    PROVE  IInv'
<1>1. /\ UNCHANGED <<role, creds, work, folder, entry, process>> /\ work = Idle /\ f \in Apps
      /\ folder[f] \in Versions /\ database[f] \in Database /\ Truthful(database[f])
    BY DEF update_fails, IInv, AppInv, Types, Steady
<1>2. PICK already \in Readings(database[f]) :
            \E db \in AfterFailure(database[f], folder[f], already) : SetDatabase(f, db)
    BY DEF update_fails
<1>3. PICK db \in {database[f], Migrated(database[f], folder[f], already)} :
            database' = [database EXCEPT ![f] = db]
    BY <1>2 DEF AfterFailure, SetDatabase
<1>4. /\ db \in Database /\ Truthful(db) /\ (db.exists <=> database[f].exists)
      /\ database[f].recorded \subseteq db.recorded
    BY <1>1, <1>3, MigratedDatabase
<1>5. /\ database' \in [Apps -> Database] /\ database'[f] = db
      /\ \A a \in Apps : a # f => database'[a] = database[a]
    BY <1>1, <1>3, <1>4 DEF IInv, Types
<1>6. Types'
    BY <1>1, <1>5 DEF IInv, Types
<1>7. ASSUME NEW a \in Apps, a # f PROVE Steady(a)'
    BY <1>1, <1>5, <1>7 DEF IInv, AppInv, Steady, Sound, Registered
<1>8. Steady(f)'
    BY <1>1, <1>4, <1>5 DEF IInv, AppInv, Steady, Sound, Registered
<1>9. \A a \in Apps : InWork(a)'
    BY <1>1, Resting DEF InWork
<1> QED
    BY <1>6, <1>7, <1>8, <1>9 DEF IInv, AppInv

LEMMA DeleteKeeps ==
    ASSUME IInv, NEW f \in Folders, delete_app(f)
    PROVE  IInv'
<1>1. /\ UNCHANGED <<role, creds, database, work, folder>> /\ work = Idle
      /\ process' = [a \in Apps |-> IF a = f THEN 0 ELSE process[a]]
      /\ entry' \in {entry, [entry EXCEPT ![f] = NoEntry]}
    BY DEF delete_app, pgvars, EndProcess
<1>2. /\ entry' = [g \in Folders |-> entry'[g]]
      /\ \A g \in Folders : entry'[g] \in {entry[g], NoEntry}
    BY <1>1 DEF IInv, Types
<1>3. \A g \in Folders : IsEntry(entry'[g])
    BY <1>2, Resting DEF IInv, Types
<1>4. process' \in [Apps -> Password]
    BY <1>1 DEF IInv, Types, Password
<1>5. Types'
    BY <1>1, <1>2, <1>3, <1>4 DEF IInv, Types, IsEntry
<1>6. \A a \in Apps : process'[a] \in {process[a], 0}
    BY <1>1
<1>7. \A a \in Apps : Steady(a)'
    BY <1>1, <1>2, <1>6, Resting DEF IInv, AppInv, Steady, Sound, Registered
<1>8. \A a \in Apps : InWork(a)'
    BY <1>1, Resting DEF InWork
<1> QED
    BY <1>5, <1>7, <1>8 DEF IInv, AppInv

LEMMA ProcessKeeps ==
    ASSUME IInv, NEW a \in Apps, start_service(a) \/ stop_service(a)
    PROVE  IInv'
<1>1. /\ UNCHANGED <<role, creds, database, work, folder, entry>> /\ work = Idle
      /\ a \in Registered
      /\ process' = [b \in Apps |-> IF b = a THEN process'[a] ELSE process[b]]
      /\ process'[a] \in {0, entry[a].password}
    BY DEF start_service, stop_service, pgvars, EndProcess, IInv, Types
<1>2. entry[a].password \in Password
    BY Resting DEF IInv, Types, IsEntry
<1>3. process' \in [Apps -> Password]
    BY <1>1, <1>2 DEF IInv, Types, Password
<1>4. Types'
    BY <1>1, <1>3 DEF IInv, Types, IsEntry
<1>5. ASSUME NEW b \in Apps PROVE Steady(b)'
    BY <1>1, <1>5 DEF IInv, AppInv, Steady, Sound, Registered
<1>6. \A b \in Apps : InWork(b)'
    BY <1>1, Resting DEF InWork
<1> QED
    BY <1>4, <1>5, <1>6 DEF IInv, AppInv

LEMMA CrashKeeps ==
    ASSUME IInv, crash
    PROVE  IInv'
<1>1. /\ UNCHANGED <<role, creds, database, folder, process>>
      /\ work' = Idle /\ entry' = [f \in Folders |-> NoEntry]
    BY DEF crash, pgvars
<1>2. Types'
    BY <1>1, Resting DEF IInv, Types, IsEntry
<1>3. ASSUME NEW a \in Apps PROVE Steady(a)'
    BY <1>1, Resting DEF IInv, AppInv, Steady, Sound, Registered
<1>4. \A a \in Apps : InWork(a)'
    BY <1>1, Resting DEF InWork
<1> QED
    BY <1>2, <1>3, <1>4 DEF IInv, AppInv

LEMMA FolderKeeps ==
    ASSUME IInv, NEW f \in Folders, folder_changes(f)
    PROVE  IInv'
<1>1. /\ UNCHANGED <<role, creds, database, work, entry, process>> /\ work = Idle
      /\ \E v \in Versions : folder' = [folder EXCEPT ![f] = v]
    BY DEF folder_changes, pgvars
<1>2. Types'
    BY <1>1 DEF IInv, Types, IsEntry
<1>3. \A a \in Apps : Steady(a)'
    BY <1>1 DEF IInv, AppInv, Steady, Sound, Registered
<1>4. \A a \in Apps : InWork(a)'
    BY <1>1, Resting DEF InWork
<1> QED
    BY <1>2, <1>3, <1>4 DEF IInv, AppInv

LEMMA DataKeeps ==
    ASSUME IInv, NEW a \in Apps, write_data(a)
    PROVE  IInv'
<1> DEFINE db == [database[a] EXCEPT !.data = TRUE]
<1>1. /\ UNCHANGED <<role, creds, work, folder, entry, process>>
      /\ database' = [database EXCEPT ![a].data = TRUE]
      /\ database[a] \in Database /\ Truthful(database[a])
      /\ database[a].exists /\ process[a] # 0
    BY DEF write_data, IInv, AppInv, Types, Steady
<1>2. db \in Database
    BY <1>1 DEF Database
<1>3. /\ db.runs = database[a].runs /\ db.recorded = database[a].recorded
      /\ (db.misread <=> database[a].misread) /\ db.exists
    BY <1>1 DEF Database
<1>4. Truthful(db)
    BY <1>1, <1>3 DEF Truthful
<1>5. \A b \in Apps : database'[b] = IF b = a THEN db ELSE database[b]
    BY <1>1 DEF IInv, Types
<1>6. database' \in [Apps -> Database]
    BY <1>1, <1>2 DEF IInv, Types
<1> HIDE DEF db
<1>7. Types'
    BY <1>1, <1>6 DEF IInv, Types, IsEntry
<1>8. ASSUME NEW b \in Apps, b # a PROVE Steady(b)' /\ InWork(b)'
    BY <1>1, <1>5, <1>8 DEF IInv, AppInv, Steady, Sound, Registered, InWork, HasRole
<1>9. /\ database'[a] = db /\ db.exists /\ db.recorded = database[a].recorded
      /\ Steady(a) /\ InWork(a)
    BY <1>1, <1>3, <1>5 DEF IInv, AppInv
<1>10. Steady(a)'
    BY <1>1, <1>4, <1>9 DEF Steady, Sound, Registered
<1>11. InWork(a)'
    BY <1>1, <1>9 DEF Registered, InWork, HasRole
<1> QED
    BY <1>7, <1>8, <1>10, <1>11 DEF IInv, AppInv

-----------------------------------------------------------------------------
(* Ids and streams. *)

\* The counter stops at an id no app has.
LEMMA FirstIdIsFree ==
    ASSUME StreamInv, NEW f \in Folders, f \notin Registered
    PROVE  FirstId(f) \in Candidates(f) /\ FirstId(f) \in Ids /\ FirstId(f) \notin TakenIds
<1> DEFINE ids == CandidateIds[f]
           free == {n \in DOMAIN ids : ids[n] \notin TakenIds}
           others == [g \in Folders \ {f} |-> IF g \in Registered THEN entry[g].id ELSE NoId]
           First(n) == n \in DOMAIN ids /\ ids[n] \notin TakenIds
                        /\ \A k \in 1 .. n - 1 : ids[k] \in TakenIds
<1>1. ids \in Seq(Ids) /\ DOMAIN ids = 1 .. Len(ids) /\ Len(ids) \in Nat
    BY DiscoveryAssumption
<1>2. \A g \in Folders : Candidates(g) \subseteq Ids
    BY DiscoveryAssumption DEF Candidates
<1>3. free # {}
    <2>1. \A g \in Folders \ {f} : others[g] \in Candidates(g) \cup {NoId}
        BY DEF StreamInv
    <2>2. others \in [Folders \ {f} -> Ids \cup {NoId}]
        BY <1>2, <2>1
    <2> HIDE DEF others
    <2>3. PICK i \in Candidates(f) : \A g \in Folders \ {f} : others[g] # i
        BY <2>1, <2>2, EnoughIds
    <2> USE DEF others
    <2>4. i \notin TakenIds
        BY <2>3 DEF TakenIds, Registered
    <2> QED
        BY <2>4 DEF Candidates
<1>4. free \in SUBSET Nat
    BY <1>1
<1> DEFINE less == {ss \in Nat \X Nat : ss[1] < ss[2]}
<1>5. IsWellFoundedOn(less, Nat)
    BY NatLessThanWellFounded, Zenon DEF OpToRel
<1> HIDE DEF less, free
<1>6. PICK n \in free : \A k \in free : ~ (<<k, n>> \in less)
    BY <1>3, <1>4, <1>5, WFMin
<1> USE DEF less, free
<1>7. ASSUME NEW k \in 1 .. n - 1
      PROVE  ids[k] \in TakenIds
    <2>1. k \in Nat /\ n \in Nat /\ k < n /\ k \in DOMAIN ids
        BY <1>1, <1>6
    <2>2. <<k, n>> \in less
        BY <2>1
    <2> QED
        BY <1>6, <2>1, <2>2
<1>8. First(n)
    BY <1>6, <1>7
<1>9. FirstId(f) = ids[CHOOSE m \in DOMAIN ids : /\ ids[m] \notin TakenIds
                                                 /\ \A k \in 1 .. m - 1 : ids[k] \in TakenIds]
    BY DEF FirstId
<1>10. \E m \in DOMAIN ids : FirstId(f) = ids[m] /\ ids[m] \notin TakenIds
    BY <1>8, <1>9
<1> QED
    BY <1>2, <1>10 DEF Candidates

\* What keeps ids, streams and groups keeps their invariant.
LEMMA SameStreams ==
    ASSUME StreamInv, UNCHANGED streamvars, Registered' = Registered,
           \A f \in Registered : entry'[f].id = entry[f].id,
           work'.app \notin Registered, work'.at = "streams" => work'.app \in Folders
    PROVE  StreamInv'
BY DEF StreamInv, StreamTypes, PublishersOwnStreams, streamvars

LEMMA StatementKeepsStreams ==
    ASSUME IInv, StreamInv, NEW a \in Apps, provision_database(a)
    PROVE  StreamInv'
<1>1. /\ UNCHANGED <<streamvars, entry>> /\ work \in Work
      /\ provision(a, folder[a], InUse(a))
    BY DEF provision_database, IInv, Types
<1>2. work.app = a
    BY <1>1 DEF provision, create_role, store_password, create_database, run_migrations,
           migrations_fail, grant_privileges, drop_database, drop_role, unlink_creds, At
<1>3. ASSUME NEW at \in Place, Go(at)
      PROVE  work'.app = a
    BY <1>1, <1>2, <1>3, Goes
<1>4. {"store", "database", "migrate", "grant", "streams",
       "drop_database", "drop_role", "unlink"} \subseteq Place
    BY DEF Place
<1>5. work'.app \in {a, NoApp}
    <2>1. CASE create_role(a, InUse(a)) \/ create_database(a)
        BY <1>1, <1>2, <2>1 DEF create_role, create_database, Work
    <2> QED
        BY <1>1, <1>3, <1>4, <2>1, Stops
           DEF provision, store_password, run_migrations, migrations_fail, grant_privileges,
               drop_database, drop_role, unlink_creds
<1>6. work'.at = "streams" => work'.app \in Folders
    <2>1. CASE create_role(a, InUse(a)) \/ create_database(a)
        BY <1>1, <2>1 DEF create_role, create_database, Work
    <2>2. CASE Stop
        BY <2>2 DEF Stop, Idle
    <2>3. \A at \in Place : Go(at) => work'.app \in Folders
        BY <1>3, Resting
    <2> QED
        BY <1>1, <1>4, <2>1, <2>2, <2>3
           DEF provision, store_password, run_migrations, migrations_fail, grant_privileges,
               drop_database, drop_role, unlink_creds
<1>7. work.app \notin Registered /\ NoApp \notin Registered
    BY Resting DEF StreamInv, Registered
<1> QED
    BY <1>1, <1>2, <1>5, <1>6, <1>7, SameStreams DEF Registered

LEMMA RegisterKeepsStreams ==
    ASSUME IInv, StreamInv, NEW f \in Folders, register_app(f)
    PROVE  StreamInv'
<1> DEFINE i == FirstId(f)
           e == [id |-> i, version |-> folder[f], password |-> work.password]
<1>1. /\ Stop /\ work.app = f /\ setup_streams(i, Publishes[f], Subscribes[f])
      /\ entry' = [entry EXCEPT ![f] = e]
    BY DEF register_app, At
<1>2. f \notin Registered
    BY <1>1 DEF StreamInv
<1>3. i \in Candidates(f) /\ i \in Ids /\ i \notin TakenIds
    BY <1>2, FirstIdIsFree
<1>4. e.id = i /\ e.version = folder[f] /\ folder[f] \in Versions
    BY DEF IInv, Types
<1> HIDE DEF e, i
<1>5. entry'[f] = e /\ \A g \in Folders \ {f} : entry'[g] = entry[g]
    BY <1>1 DEF IInv, Types
<1>6. e # NoEntry
    BY <1>4, Resting
<1>7. Registered' = Registered \cup {f} /\ f \in Registered'
    BY <1>5, <1>6 DEF Registered
<1>8. \A g \in Registered : g # f /\ entry'[g].id = entry[g].id /\ entry[g].id # i
    BY <1>2, <1>3, <1>5 DEF TakenIds, Registered
<1>9. entry'[f].id = i
    BY <1>4, <1>5
<1> HIDE DEF Registered
<1>10. StreamTypes'
    BY <1>1, <1>3, DiscoveryAssumption
       DEF setup_streams, Claim, CreateGroups, StreamInv, StreamTypes
<1>11. PublishersOwnStreams'
    <2>1. \A s \in Publishes[f] : s \in StreamNames
        BY DiscoveryAssumption
    <2>2. \A g \in Registered : \A s \in Publishes[g] : s \in StreamNames /\ entry[g].id \in Ids
        BY DiscoveryAssumption DEF StreamInv, Registered, Candidates
    <2>3. \A s \in StreamNames : publisher'[s] = IF s \in Publishes[f] THEN i ELSE publisher[s]
        BY <1>1 DEF setup_streams, Claim
    <2>4. \A s \in Publishes[f] : publisher[s] \in {NoId, i}
        BY <1>1 DEF setup_streams, Claimable
    <2>5. \A g \in Registered : \A s \in Publishes[g] : publisher'[s] = entry[g].id
        BY <1>8, <2>2, <2>3, <2>4, StreamsAssumption DEF StreamInv, PublishersOwnStreams
    <2> QED
        BY <1>7, <1>8, <1>9, <2>1, <2>3, <2>5 DEF PublishersOwnStreams
<1>12. ASSUME NEW j \in Ids, NEW s \in subscriber_groups'[j]
       PROVE  j \in groups'[s]
    <2>1. /\ groups' = [t \in StreamNames |-> groups[t] \cup {x \in {i} : t \in Subscribes[f]}]
          /\ subscriber_groups' = [subscriber_groups EXCEPT ![i] = @ \cup Subscribes[f]]
        BY <1>1 DEF setup_streams, CreateGroups
    <2>2. s \in StreamNames
        BY <1>10 DEF StreamTypes
    <2>3. s \in subscriber_groups[j] \/ (j = i /\ s \in Subscribes[f])
        BY <1>3, <2>1 DEF StreamInv, StreamTypes
    <2> QED
        BY <2>1, <2>2, <2>3 DEF StreamInv
<1>13. work'.app \notin Registered' /\ work'.at # "streams"
    BY <1>1, <1>7, Resting DEF Stop, Idle, Registered
<1> QED
    BY <1>3, <1>7, <1>8, <1>9, <1>10, <1>11, <1>12, <1>13 DEF StreamInv

\* A setup that ends half way has touched nobody else's streams.
LEMMA RegisterFailsKeepsStreams ==
    ASSUME StreamInv, NEW f \in Folders, register_fails(f)
    PROVE  StreamInv'
<1> DEFINE i == FirstId(f)
           P == Publishes[f]
           S == Subscribes[f]
<1>1. Stop /\ work.app = f /\ setup_fails(i, P, S) /\ UNCHANGED entry
    BY DEF register_fails, At
<1>2. f \notin Registered
    BY <1>1 DEF StreamInv
<1>3. i \in Ids /\ i \notin TakenIds
    BY <1>2, FirstIdIsFree
<1>4. P \in SUBSET StreamNames /\ S \in SUBSET StreamNames
    BY DiscoveryAssumption
<1>5. \A g \in Registered : entry[g].id # i /\ entry[g].id \in Ids /\ entry[g].id # NoId
                            /\ Publishes[g] \in SUBSET StreamNames
    BY <1>3, DiscoveryAssumption, StreamsAssumption DEF TakenIds, StreamInv, Candidates, Registered
<1> HIDE DEF i, P, S
<1>6. PICK C \in SUBSET P : Claim(i, C) /\ \A s \in C : Claimable(i, s)
    BY <1>1 DEF setup_fails
<1>7. /\ publisher' \in [StreamNames -> Ids \cup {NoId}]
      /\ \A s \in StreamNames : publisher[s] \notin {NoId, i} => publisher'[s] = publisher[s]
    BY <1>3, <1>6 DEF Claim, Claimable, StreamInv, StreamTypes
<1>8. /\ groups' \in [StreamNames -> SUBSET Ids] /\ subscriber_groups' \in [Ids -> SUBSET StreamNames]
      /\ \A j \in Ids : \A s \in subscriber_groups'[j] : j \in groups'[s]
    <2>1. CASE UNCHANGED <<subscriber_groups, groups>>
        BY <2>1 DEF StreamInv, StreamTypes
    <2>2. CASE \E G \in SUBSET S, H \in SUBSET S :
                  /\ CreateGroups(i, G \cup H)
                  /\ subscriber_groups' = [subscriber_groups EXCEPT ![i] = @ \cup G]
        <3>1. PICK G \in SUBSET S, H \in SUBSET S :
                  /\ CreateGroups(i, G \cup H)
                  /\ subscriber_groups' = [subscriber_groups EXCEPT ![i] = @ \cup G]
            BY <2>2
        <3>2. /\ groups' \in [StreamNames -> SUBSET Ids]
              /\ \A s \in StreamNames : groups[s] \subseteq groups'[s]
              /\ \A s \in G : i \in groups'[s]
            BY <1>3, <1>4, <3>1 DEF CreateGroups, StreamInv, StreamTypes
        <3>3. /\ subscriber_groups' \in [Ids -> SUBSET StreamNames]
              /\ \A j \in Ids : \A s \in subscriber_groups'[j] :
                    s \in subscriber_groups[j] \/ (j = i /\ s \in G)
            BY <1>3, <1>4, <3>1 DEF StreamInv, StreamTypes
        <3> QED
            BY <3>2, <3>3 DEF StreamInv, StreamTypes
    <2>3. \/ UNCHANGED <<subscriber_groups, groups>>
          \/ \E G \in SUBSET S, H \in SUBSET S :
                /\ CreateGroups(i, G \cup H)
                /\ subscriber_groups' = [subscriber_groups EXCEPT ![i] = @ \cup G]
        BY <1>1 DEF setup_fails
    <2> QED
        BY <2>1, <2>2, <2>3
<1>9. Registered' = Registered /\ work'.app \notin Registered /\ work'.at # "streams"
    BY <1>1, Resting DEF Stop, Idle, Registered
<1>10. PublishersOwnStreams'
    BY <1>1, <1>5, <1>7, <1>9 DEF PublishersOwnStreams, StreamInv
<1> QED
    BY <1>1, <1>7, <1>8, <1>9, <1>10 DEF StreamInv, StreamTypes

\* cleanup_app takes the claims and the groups of its own id only.
LEMMA DeleteKeepsStreams ==
    ASSUME IInv, StreamInv, NEW f \in Folders, delete_app(f)
    PROVE  StreamInv'
<1> DEFINE i == entry[f].id
<1>1. /\ work = Idle /\ UNCHANGED work /\ f \in Registered
      /\ \/ cleanup_app(i) /\ entry' = [entry EXCEPT ![f] = NoEntry]
         \/ cleanup_fails(i) /\ UNCHANGED entry
    BY DEF delete_app
<1>2. /\ i \in Ids
      /\ \A g \in Registered : g # f => entry[g].id # i
      /\ \A g \in Registered : Publishes[g] \in SUBSET StreamNames
    BY <1>1, DiscoveryAssumption DEF StreamInv, Candidates, Registered
<1>3. /\ Registered' \subseteq Registered
      /\ \A g \in Registered' : entry'[g] = entry[g]
      /\ cleanup_app(i) => Registered' \subseteq Registered \ {f} \/ cleanup_fails(i)
    BY <1>1 DEF IInv, Types, Registered
<1>4. work'.app \notin Registered' /\ work'.at # "streams"
    BY <1>1, Resting DEF Idle, Registered
<1>5. PICK S \in SUBSET subscriber_groups[i] : DestroyGroups(i, S)
    BY <1>1 DEF cleanup_app, cleanup_fails
<1>6. subscriber_groups' = [subscriber_groups EXCEPT ![i] = {}]
    BY <1>1 DEF cleanup_app, cleanup_fails
<1> HIDE DEF i
<1>7. /\ groups' \in [StreamNames -> SUBSET Ids] /\ subscriber_groups' \in [Ids -> SUBSET StreamNames]
      /\ \A j \in Ids : \A s \in subscriber_groups'[j] : j \in groups'[s]
    <2>1. /\ groups' \in [StreamNames -> SUBSET Ids]
          /\ \A s \in StreamNames : \A j \in groups[s] : j # i => j \in groups'[s]
        BY <1>5 DEF DestroyGroups, StreamInv, StreamTypes
    <2>2. /\ subscriber_groups' \in [Ids -> SUBSET StreamNames]
          /\ \A j \in Ids : \A s \in subscriber_groups'[j] : j # i /\ s \in subscriber_groups[j]
        BY <1>2, <1>6 DEF StreamInv, StreamTypes
    <2> QED
        BY <2>1, <2>2 DEF StreamInv, StreamTypes
<1>8. CASE UNCHANGED publisher
    <2>1. PublishersOwnStreams'
        BY <1>3, <1>8 DEF StreamInv, PublishersOwnStreams
    <2> QED
        BY <1>3, <1>4, <1>7, <1>8, <2>1 DEF StreamInv, StreamTypes
<1>9. CASE ReleaseClaims(i) /\ entry' = [entry EXCEPT ![f] = NoEntry]
    <2>1. \A g \in Registered' : g # f
        BY <1>9 DEF IInv, Types, Registered
    <2>2. /\ publisher' \in [StreamNames -> Ids \cup {NoId}]
          /\ \A s \in StreamNames : publisher[s] # i => publisher'[s] = publisher[s]
        BY <1>9 DEF ReleaseClaims, StreamInv, StreamTypes
    <2>3. PublishersOwnStreams'
        BY <1>2, <1>3, <2>1, <2>2 DEF StreamInv, PublishersOwnStreams
    <2> QED
        BY <1>3, <1>4, <1>7, <2>2, <2>3 DEF StreamInv, StreamTypes
<1> QED
    BY <1>1, <1>8, <1>9 DEF cleanup_app, cleanup_fails

LEMMA CrashKeepsStreams ==
    ASSUME StreamInv, crash
    PROVE  StreamInv'
<1>1. /\ publisher' = NoPublishers /\ subscriber_groups' = NoSubscribers
      /\ work' = Idle /\ Registered' = {}
    BY DEF crash, forget_streams, Registered
<1>2. groups' \in [StreamNames -> SUBSET Ids]
    <2>1. CASE work.at = "streams"
        <3>1. FirstId(work.app) \in Ids
            BY <2>1, FirstIdIsFree DEF StreamInv
        <3> QED
            BY <2>1, <3>1 DEF crash, CreateGroups, StreamInv, StreamTypes
    <2>2. CASE work.at # "streams"
        BY <2>2 DEF crash, StreamInv, StreamTypes
    <2> QED
        BY <2>1, <2>2
<1> QED
    BY <1>1, <1>2 DEF StreamInv, StreamTypes, PublishersOwnStreams, NoPublishers,
           NoSubscribers, Idle

\* The other steps change neither streams nor ids.
LEMMA OthersKeepStreams ==
    ASSUME IInv, StreamInv,
           \/ \E f \in Folders : \/ discover(f) \/ update_existing_app(f) \/ update_fails(f)
                                 \/ folder_changes(f)
           \/ \E a \in Apps : start_service(a) \/ stop_service(a) \/ write_data(a)
           \/ step_fails \/ UNCHANGED vars
    PROVE  StreamInv'
<1>1. UNCHANGED streamvars
    BY DEF discover, update_existing_app, update_fails, folder_changes, start_service,
           stop_service, write_data, step_fails, vars
<1>2. CASE \E f \in Folders : discover(f)
    <2>1. PICK f \in Folders : discover(f)
        BY <1>2
    <2>2. /\ UNCHANGED entry /\ work'.app = f /\ f \notin Registered
        BY <2>1 DEF discover, Idle, Registered
    <2> QED
        BY <1>1, <2>2, SameStreams DEF Registered
<1>3. CASE \E f \in Folders : update_existing_app(f)
    <2>1. PICK f \in Folders : update_existing_app(f)
        BY <1>3
    <2> DEFINE e == [entry[f] EXCEPT !.version = folder[f]]
    <2>2. /\ entry' = [entry EXCEPT ![f].version = folder[f]]
          /\ UNCHANGED work /\ work = Idle /\ f \in Registered
          /\ IsEntry(entry[f]) /\ folder[f] \in Versions
        BY <2>1 DEF update_existing_app, IInv, Types
    <2>3. e.id = entry[f].id /\ e.version = folder[f]
        BY <2>2 DEF IsEntry
    <2>4. e # NoEntry
        BY <2>2, <2>3, Resting
    <2>5. entry'[f] = e /\ \A g \in Folders \ {f} : entry'[g] = entry[g]
        BY <2>2 DEF IInv, Types
    <2> HIDE DEF e
    <2>6. Registered' = Registered
        BY <2>2, <2>4, <2>5 DEF Registered
    <2>7. \A g \in Registered : entry'[g].id = entry[g].id
        BY <2>3, <2>5 DEF Registered
    <2> QED
        BY <1>1, <2>2, <2>6, <2>7, SameStreams, Resting DEF Registered, Idle
<1>4. CASE ~ \E f \in Folders : discover(f) \/ update_existing_app(f)
    <2>1. UNCHANGED entry /\ (UNCHANGED work \/ Stop)
        BY <1>4 DEF update_fails, folder_changes, start_service, stop_service, write_data,
               step_fails, provisioning_fails, vars
    <2> QED
        BY <1>1, <2>1, SameStreams, Resting DEF Registered, Stop, Idle, StreamInv
<1> QED
    BY <1>2, <1>3, <1>4

-----------------------------------------------------------------------------
(* Theorems. *)

LEMMA NextKeeps == IInv /\ [Next]_vars => IInv'
<1> SUFFICES ASSUME IInv, [Next]_vars PROVE IInv'
    OBVIOUS
<1>1. CASE Next
    <2>1. \A f \in Folders : discover(f) => IInv'
        BY DiscoverKeeps
    <2>2. \A f \in Folders : register_app(f) => IInv'
        BY RegisterKeeps
    <2>3. \A f \in Folders : register_fails(f) => IInv'
        BY AbandonKeeps DEF register_fails, pgvars
    <2>4. \A f \in Folders : update_existing_app(f) => IInv'
        BY UpdateKeeps
    <2>5. \A f \in Folders : update_fails(f) => IInv'
        BY UpdateFailsKeeps
    <2>6. \A f \in Folders : delete_app(f) => IInv'
        BY DeleteKeeps
    <2>7. \A f \in Folders : folder_changes(f) => IInv'
        BY FolderKeeps
    <2>8. \A a \in Apps : provision_database(a) => IInv'
        BY StatementKeeps
    <2>9. \A a \in Apps : start_service(a) \/ stop_service(a) => IInv'
        BY ProcessKeeps
    <2>10. \A a \in Apps : write_data(a) => IInv'
        BY DataKeeps
    <2>11. step_fails => IInv'
        BY AbandonKeeps DEF step_fails, provisioning_fails, pgvars
    <2>12. crash => IInv'
        BY CrashKeeps
    <2> DEFINE Kept == IInv'
    <2> HIDE DEF Kept
    <2>13. Kept
        BY ONLY <1>1, <2>1, <2>2, <2>3, <2>4, <2>5, <2>6, <2>7, <2>8, <2>9, <2>10, <2>11,
           <2>12, ZenonT(60) DEF Next, Kept
    <2> QED
        BY <2>13 DEF Kept
<1>2. CASE UNCHANGED vars
    <2>1. UNCHANGED <<role, creds, database, work, folder, entry, process>>
        BY <1>2 DEF vars, pgvars
    <2>2. Types'
        BY <2>1 DEF IInv, Types, IsEntry
    <2>3. AppInv'
        BY <2>1 DEF IInv, AppInv, Steady, Sound, Registered, InWork, HasRole
    <2> QED
        BY <2>2, <2>3 DEF IInv
<1> QED
    BY <1>1, <1>2

LEMMA Invariance == Spec => []IInv
BY Initially, NextKeeps, PTL DEF Spec

LEMMA StreamInvariance == Spec => []StreamInv
<1>1. Init => StreamInv
    BY Resting DEF Init, ProvisionerInit, StreamsInit, StreamInv, StreamTypes, Registered,
           PublishersOwnStreams, NoPublishers, NoSubscribers, Idle
<1>2. ASSUME IInv, StreamInv, [Next]_vars
      PROVE  StreamInv'
    <2>1. \A a \in Apps : provision_database(a) => StreamInv'
        BY <1>2, StatementKeepsStreams
    <2>2. \A f \in Folders : register_app(f) => StreamInv'
        BY <1>2, RegisterKeepsStreams
    <2>3. \A f \in Folders : register_fails(f) => StreamInv'
        BY <1>2, RegisterFailsKeepsStreams
    <2>4. \A f \in Folders : delete_app(f) => StreamInv'
        BY <1>2, DeleteKeepsStreams
    <2>5. crash => StreamInv'
        BY <1>2, CrashKeepsStreams
    <2>6. (\/ \E f \in Folders : \/ discover(f) \/ update_existing_app(f) \/ update_fails(f)
                                 \/ folder_changes(f)
           \/ \E a \in Apps : start_service(a) \/ stop_service(a) \/ write_data(a)
           \/ step_fails \/ UNCHANGED vars) => StreamInv'
        BY <1>2, OthersKeepStreams
    <2> DEFINE Kept == StreamInv'
    <2> HIDE DEF Kept
    <2>7. Kept
        BY ONLY <1>2, <2>1, <2>2, <2>3, <2>4, <2>5, <2>6, ZenonT(60) DEF Next, Kept
    <2> QED
        BY <2>7 DEF Kept
<1> QED
    BY <1>1, <1>2, Invariance, PTL DEF Spec

\* Whatever fails, is deleted, bumped or dies on the way, roles, databases, the place of a
\* provisioning, ids, streams and groups are what their types say.
THEOREM TypeCorrect == Spec => []TypeOK
<1>1. IInv /\ StreamInv => TypeOK
    <2> SUFFICES ASSUME IInv, StreamInv PROVE TypeOK
        OBVIOUS
    <2>1. ASSUME NEW f \in Folders
          PROVE  /\ entry[f].id \in Ids \cup {NoId} /\ entry[f].version \in Versions \cup {0}
                 /\ f \in Registered \cap Apps => entry[f].password \in Passwords
        <3>1. entry[f].id \in Ids \cup {NoId}
            BY <2>1, DiscoveryAssumption DEF StreamInv, Candidates, Registered, NoEntry
        <3>2. entry[f].version \in Versions \cup {0}
            BY <2>1 DEF IInv, Types, IsEntry
        <3>3. f \in Registered \cap Apps => entry[f].password \in Passwords
            BY DEF IInv, AppInv, Steady, Sound
        <3> QED
            BY <3>1, <3>2, <3>3
    <2>2. /\ work.app \in Folders \cup {NoApp} /\ work.new \in BOOLEAN
          /\ work.password \in Passwords \cup {0} /\ work.at \in Place
        BY DEF IInv, Types, Work, Password
    <2> QED
        BY <2>1, <2>2 DEF TypeOK, IInv, Types, Password, Database, Place, StreamInv, StreamTypes
<1> QED
    BY <1>1, Invariance, StreamInvariance, PTL

\* A registered app is the publisher of its streams: no registration that ends half way, no
\* deletion and no restart gives them to another.
THEOREM PublishersAlwaysOwnStreams == Spec => []PublishersOwnStreams
<1>1. StreamInv => PublishersOwnStreams
    BY DEF StreamInv
<1> QED
    BY <1>1, StreamInvariance, PTL

\* A group the platform thinks a registered app has is in Redis, and no two registered
\* apps have the same id.
THEOREM SubscribersAlwaysHaveGroups == Spec => []SubscribersHaveGroups
<1>1. StreamInv => SubscribersHaveGroups
    BY DiscoveryAssumption DEF StreamInv, SubscribersHaveGroups, Candidates, Registered
<1> QED
    BY <1>1, StreamInvariance, PTL

\* Passwords are rotated, lost and reused in every order of failures and crashes, and a
\* running app can log in to its database all the same.
THEOREM RunningAppAlwaysConnects == Spec => []RunningAppCanConnect
<1>1. IInv => RunningAppCanConnect
    BY DEF IInv, AppInv, Steady, Sound, RunningAppCanConnect
<1> QED
    BY <1>1, Invariance, PTL

\* A registered app has the migrations of its version: provisioning and version bumps
\* never register what they have not migrated.
THEOREM RegisteredAppAlwaysMigrated == Spec => []RegisteredAppIsMigrated
<1>1. IInv => RegisteredAppIsMigrated
    BY DEF IInv, AppInv, Steady, Sound, RegisteredAppIsMigrated
<1> QED
    BY <1>1, Invariance, PTL

\* schema_versions lists what has run, and what has run has run once unless a read of
\* schema_versions failed.
THEOREM MigrationsAlwaysRunOnce == Spec => []MigrationsRunOnce
<1>1. IInv => MigrationsRunOnce
    BY DEF IInv, AppInv, Steady, Truthful, MigrationsRunOnce
<1> QED
    BY <1>1, Invariance, PTL

\* No database that an app has stored something in is dropped.
THEOREM DataAlwaysSurvives == Spec => DataSurvives
<1> DEFINE Survives(a) == database[a].data => database'[a].data
<1>1. ASSUME IInv, NEW b \in Apps, provision_database(b), NEW a \in Apps
      PROVE  Survives(a)
    <2>1. /\ database[b] \in Database /\ Steady(b) /\ InWork(b) /\ folder[b] \in Versions
          /\ provision(b, folder[b], InUse(b)) /\ database \in [Apps -> Database]
        BY <1>1, Resting DEF IInv, AppInv, Types, provision_database
    <2>2. /\ \A already \in Readings(database[b]) :
                Migrated(database[b], folder[b], already).data = database[b].data
        BY <2>1, MigratedDatabase DEF Steady
    <2>3. \/ UNCHANGED database
          \/ \E db : /\ database' = [database EXCEPT ![b] = db]
                     /\ database[b].data => db.data
        <3>1. CASE create_database(b)
            BY <2>1, <3>1 DEF create_database, Steady, Truthful
        <3>2. CASE run_migrations(b, folder[b])
            BY <2>2, <3>2 DEF run_migrations, SetDatabase
        <3>3. CASE migrations_fail(b, folder[b])
            <4>1. PICK already \in Readings(database[b]) :
                        \E db \in AfterFailure(database[b], folder[b], already) :
                           SetDatabase(b, db)
                BY <3>3 DEF migrations_fail
            <4> QED
                BY <2>2, <4>1 DEF AfterFailure, SetDatabase
        <3>4. CASE drop_database(b)
            BY <2>1, <3>4 DEF drop_database, SetDatabase, At, InWork, Dropping
        <3> QED
            BY <2>1, <3>1, <3>2, <3>3, <3>4
               DEF provision, create_role, store_password, grant_privileges, drop_role,
                   unlink_creds, pgvars
    <2> QED
        BY <2>1, <2>3
<1>2. ASSUME IInv, NEW f \in Folders, update_existing_app(f) \/ update_fails(f), NEW a \in Apps
      PROVE  Survives(a)
    <2>1. /\ database \in [Apps -> Database] /\ folder[f] \in Versions
          /\ f \in Apps => database[f] \in Database /\ Truthful(database[f])
        BY <1>2 DEF IInv, AppInv, Types, Steady
    <2>2. \/ UNCHANGED database
          \/ /\ f \in Apps
             /\ \E already \in Readings(database[f]) :
                   \E db \in AfterFailure(database[f], folder[f], already) :
                      database' = [database EXCEPT ![f] = db]
        BY <1>2 DEF update_existing_app, update_fails, SetDatabase, AfterFailure
    <2>3. \/ UNCHANGED database
          \/ \E db : /\ database' = [database EXCEPT ![f] = db]
                     /\ database[f].data => db.data
        BY <2>1, <2>2, MigratedDatabase DEF AfterFailure
    <2> QED
        BY <2>1, <2>3
<1>3. ASSUME IInv, NEW b \in Apps, write_data(b), NEW a \in Apps
      PROVE  Survives(a)
    BY <1>3 DEF write_data, IInv, Types, Database
<1>4. ASSUME UNCHANGED database, NEW a \in Apps
      PROVE  Survives(a)
    BY <1>4
<1>5. ASSUME IInv, [Next]_vars, NEW a \in Apps
      PROVE  Survives(a)
    <2>1. \A f \in Folders :
             discover(f) \/ register_app(f) \/ register_fails(f) \/ delete_app(f)
               \/ folder_changes(f) => UNCHANGED database
        BY DEF discover, register_app, register_fails, delete_app, folder_changes, pgvars
    <2>2. \A b \in Apps : start_service(b) \/ stop_service(b) => UNCHANGED database
        BY DEF start_service, stop_service, pgvars
    <2>3. step_fails \/ crash \/ UNCHANGED vars => UNCHANGED database
        BY DEF step_fails, provisioning_fails, crash, vars, pgvars
    <2>4. UNCHANGED database => Survives(a)
        BY <1>4
    <2>5. \A b \in Apps : provision_database(b) \/ write_data(b) => Survives(a)
        BY <1>1, <1>3, <1>5
    <2>6. \A f \in Folders : update_existing_app(f) \/ update_fails(f) => Survives(a)
        BY <1>2, <1>5
    <2> HIDE DEF Survives
    <2> QED
        BY <1>5, <2>1, <2>2, <2>3, <2>4, <2>5, <2>6 DEF Next
<1>6. IInv /\ [Next]_vars => [\A a \in Apps : Survives(a)]_vars
    BY <1>5
<1> QED
    BY <1>6, Invariance, PTL DEF Spec, DataSurvives
=============================================================================
