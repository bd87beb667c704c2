---------------------------- MODULE Provisioner ----------------------------
(***************************************************************************)
(* managers/db_provisioner.py, with the calls of core/pg_client.py: the    *)
(* role, the database and the stored password of each app.                 *)
(*                                                                         *)
(* provision_database is a sequence of statements of which each can fail   *)
(* and between any two of which the platform can die; what is left of it   *)
(* is in Postgres and in the credentials file.  So it is a program whose   *)
(* counter is work.at, and one step is one statement that changes          *)
(* something.                                                              *)
(*                                                                         *)
(* Apps stand for the names _generate_names makes of theirs: that two      *)
(* names may differ in case or in - and _ only, and so share a database,   *)
(* is left out.  So are the extensions, the table schema_versions as       *)
(* opposed to its rows, and who may connect: the role owns its database.   *)
(***************************************************************************)
EXTENDS Naturals, FiniteSets

CONSTANTS
    Apps,           \* apps with database: true
    Migs,           \* migration files
    Versions,       \* versions of the apps' folders
    Ships,          \* version -> its migration files
    Passwords,      \* of which one is always new
    NoApp

ASSUME ProvisionerAssumption ==
    /\ Versions \subseteq Nat \ {0} /\ Ships \in [Versions -> SUBSET Migs]
    /\ Passwords \subseteq Nat \ {0} /\ NoApp \notin Apps

\* Five may be in use at once.
ASSUME FreshPassword ==
    LET Some == Passwords \cup {0} IN
    \A p1, p2, p3, p4, p5 \in Some : \E p \in Passwords : p \notin {p1, p2, p3, p4, p5}

VARIABLES
    role,       \* app -> the password of its role, 0 for no role
    creds,      \* app -> the password in its credentials file, 0 for none that can be read
    database,   \* app -> its database
    work        \* the app being provisioned, where, with what password; and db_is_new

pgvars == <<role, creds, database>>

EmptyDatabase(there) ==
    [exists |-> there, runs |-> [m \in Migs |-> 0], recorded |-> {},
     misread |-> FALSE, data |-> FALSE]

NoDatabase  == EmptyDatabase(FALSE)
NewDatabase == EmptyDatabase(TRUE)
Idle        == [app |-> NoApp, at |-> "idle", password |-> 0, new |-> FALSE]

ProvisionerInit ==
    /\ role = [a \in Apps |-> 0] /\ creds = [a \in Apps |-> 0]
    /\ database = [a \in Apps |-> NoDatabase]
    /\ work = Idle

At(a, step) == work.app = a /\ work.at = step
Go(step) == work' = [work EXCEPT !.at = step]
Stop == work' = Idle

-----------------------------------------------------------------------------
(* The role and its password. *)

RotatesAlways(a) == FALSE                                            \* mutant

Stored(a) == creds[a] # 0

LoadsNothing(a) == 0                                                 \* mutant

load_stored_password(a) == creds[a]

\* used: the passwords somebody may still have.
create_role(a, used) ==
    /\ At(a, "role")
    /\ IF Stored(a)
       THEN /\ role' = [role EXCEPT ![a] = IF @ = 0 THEN creds[a] ELSE @]
            /\ work' = [work EXCEPT !.at = "database", !.password = load_stored_password(a)]
       ELSE LET fresh == CHOOSE p \in Passwords : p \notin used IN
            /\ role' = [role EXCEPT ![a] = fresh]
            /\ work' = [work EXCEPT !.at = "store", !.password = fresh]
    /\ UNCHANGED <<creds, database>>

\* The process may die with the file half written, which then reads as none.
store_password(a) ==
    /\ At(a, "store")
    /\ creds' = [creds EXCEPT ![a] = work.password]
    /\ Go("database")
    /\ UNCHANGED <<role, database>>

-----------------------------------------------------------------------------
(* The database. *)

create_database(a) ==
    /\ At(a, "database")
    /\ database' = [database EXCEPT ![a] = IF @.exists THEN @ ELSE NewDatabase]
    /\ work' = [work EXCEPT !.at = "migrate", !.new = ~ database[a].exists]
    /\ UNCHANGED <<role, creds>>

\* What _get_applied_migrations may answer: an error reads as an empty table.
Readings(db) == {db.recorded, {}}

PendingAll(v, already) == Ships[v]                                   \* mutant

PendingAtFirst(v, already) == IF already = {} THEN Ships[v] ELSE {}  \* mutant

Pending(v, already) == Ships[v] \ already

\* The files and their rows in schema_versions are one transaction.
Migrated(db, v, already) ==
    LET new == Pending(v, already) IN
    [exists   |-> db.exists,
     runs     |-> [m \in Migs |-> IF m \in new /\ db.runs[m] < 2 THEN db.runs[m] + 1
                                                              ELSE db.runs[m]],
     recorded |-> db.recorded \cup new,
     misread  |-> db.misread \/ already # db.recorded,
     data     |-> db.data]

\* The databases a failed transaction leaves: rolled back, or committed while the
\* answer is lost.
AfterFailure(db, v, already) == {db, Migrated(db, v, already)}

SetDatabase(a, db) == database' = [database EXCEPT ![a] = db]

run_migrations(a, v) ==
    /\ At(a, "migrate")
    /\ \E already \in Readings(database[a]) :
          SetDatabase(a, Migrated(database[a], v, already))
    /\ Go("grant")
    /\ UNCHANGED <<role, creds>>

\* The role may use the tables of the superuser, every time.
grant_privileges(a) ==
    /\ At(a, "grant")
    /\ Go("streams")
    /\ UNCHANGED pgvars

CleanUpAlways == TRUE                                                \* mutant

CleanUpOnFailure == work.new

migrations_fail(a, v) ==
    /\ At(a, "migrate")
    /\ \E already \in Readings(database[a]) :
          /\ Pending(v, already) # {}
          /\ \E db \in AfterFailure(database[a], v, already) : SetDatabase(a, db)
    /\ IF CleanUpOnFailure THEN Go("drop_database") ELSE Stop
    /\ UNCHANGED <<role, creds>>

\* _cleanup.  When one of the drops fails the credentials go all the same.
drop_database(a) ==
    /\ At(a, "drop_database")
    /\ \/ SetDatabase(a, NoDatabase) /\ Go("drop_role")
       \/ UNCHANGED database /\ Go("unlink")
    /\ UNCHANGED <<role, creds>>

drop_role(a) ==
    /\ At(a, "drop_role")
    /\ role' \in {role, [role EXCEPT ![a] = 0]}
    /\ Go("unlink")
    /\ UNCHANGED <<creds, database>>

unlink_creds(a) ==
    /\ At(a, "unlink")
    /\ creds' = [creds EXCEPT ![a] = 0]
    /\ Stop
    /\ UNCHANGED <<role, database>>

\* A statement raises: discover_apps goes on with the next app.
provisioning_fails ==
    /\ work.at \in {"role", "store", "database", "migrate", "grant"}
    /\ Stop
    /\ UNCHANGED pgvars

provision(a, v, used) ==
    \/ create_role(a, used) \/ store_password(a) \/ create_database(a)
    \/ run_migrations(a, v) \/ migrations_fail(a, v) \/ grant_privileges(a)
    \/ drop_database(a) \/ drop_role(a) \/ unlink_creds(a)
=============================================================================
