----------------------------- MODULE Migrations -----------------------------
(* The schema of a project's database: every process that opens it (the CLI, *)
(* the git hook, the daemon) first applies the migrations that it misses     *)
(* (src/internal/store/db.go, migrations.go, migrations/*.sql).  Each one    *)
(* runs in a transaction of its own; the version is read before, outside of  *)
(* any.  SQLite is external: one writer at a time, others wait and give up   *)
(* after busy_timeout, and a dead writer's transaction is rolled back.       *)
EXTENDS Integers, FiniteSets

CONSTANTS Procs,         \* processes that open the database
          Nobody,        \* nobody writes
          Notes,         \* ids of notes
          Upgraded       \* may the database be one of the first release?

ASSUME MigrationsAssumption == Nobody \notin Procs /\ Upgraded \in BOOLEAN

VARIABLES applied,     \* the versions in table schema_migrations
          objects,     \* the migrations whose tables and triggers exist
          tx,          \* what the write transaction would make of these two
          writer,      \* the process that is in a write transaction
          intents,     \* table intents
          fts,         \* table intents_fts
          old,         \* the notes of a release that knew migration 1 only
          pc, current, \* Open: where each process is, the version it read,
          migrating    \* and the migration it is at

schema == <<applied, objects, tx, writer>>
noteVars == <<intents, fts, old>>
opener == <<pc, current, migrating>>
migrationVars == <<schema, noteVars, opener>>

Versions == 1 .. 2    \* the migrations slice

TypeOK == /\ applied \subseteq Versions /\ objects \subseteq Versions
          /\ tx \in [applied : SUBSET Versions, objects : SUBSET Versions]
          /\ writer \in Procs \cup {Nobody}
          /\ intents \subseteq Notes /\ fts \subseteq Notes /\ old \subseteq Notes
          /\ pc \in [Procs -> {"closed", "version", "migrate", "record", "commit",
                               "open", "failed"}]
          /\ current \in [Procs -> {0} \cup Versions]
          /\ migrating \in [Procs -> 1 .. 3]

MigrationsInit ==
        /\ \/ applied = {} /\ old = {}
           \/ Upgraded /\ applied = {1} /\ old \in SUBSET Notes
        /\ objects = applied
        /\ tx = [applied |-> applied, objects |-> objects]
        /\ writer = Nobody
        /\ intents = old /\ fts = {}
        /\ pc = [p \in Procs |-> "closed"]
        /\ current = [p \in Procs |-> 0]
        /\ migrating = [p \in Procs |-> 1]

Goto(p, label) == pc' = [pc EXCEPT ![p] = label]

-----------------------------------------------------------------------------
Open(p) == /\ pc[p] = "closed"
           /\ Goto(p, "version")
           /\ UNCHANGED <<schema, noteVars, current, migrating>>

(* getCurrentVersion: the highest version, 0 when the table does not exist. *)
HighestVersion == CHOOSE v \in {0} \cup applied : \A w \in applied : w <= v

GetCurrentVersion(p) == /\ pc[p] = "version"
                        /\ current' = [current EXCEPT ![p] = HighestVersion]
                        /\ migrating' = [migrating EXCEPT ![p] = HighestVersion + 1]
                        /\ Goto(p, "migrate")
                        /\ UNCHANGED <<schema, noteVars>>

(* RunMigrations is through. *)
Opened(p) == /\ pc[p] = "migrate"
             /\ migrating[p] \notin Versions
             /\ Goto(p, "open")
             /\ UNCHANGED <<schema, noteVars, current, migrating>>

\* mutant: the statements of the migration commit one by one
ExecUntransacted(p) == /\ pc[p] = "migrate"
                       /\ migrating[p] \in Versions
                       /\ writer = Nobody
                       /\ writer' = p
                       /\ objects' = objects \cup {migrating[p]}
                       /\ tx' = [applied |-> applied, objects |-> objects']
                       /\ Goto(p, "record")
                       /\ UNCHANGED <<applied, noteVars, current, migrating>>

(* applyMigration: Begin takes no lock, the statements do.  Each of them     *)
(* says IF NOT EXISTS.                                                       *)
Exec(p) == /\ pc[p] = "migrate"
           /\ migrating[p] \in Versions
           /\ writer = Nobody
           /\ writer' = p
           /\ tx' = [applied |-> applied, objects |-> objects \cup {migrating[p]}]
           /\ Goto(p, "record")
           /\ UNCHANGED <<applied, objects, noteVars, current, migrating>>

(* The database stays busy for the whole of busy_timeout. *)
ExecBusy(p) == /\ pc[p] = "migrate"
               /\ migrating[p] \in Versions
               /\ writer \in Procs \ {p}
               /\ Goto(p, "failed")
               /\ UNCHANGED <<schema, noteVars, current, migrating>>

(* INSERT INTO schema_migrations: version is the primary key. *)
Record(p) == /\ pc[p] = "record"
             /\ migrating[p] \notin applied
             /\ tx' = [tx EXCEPT !.applied = @ \cup {migrating[p]}]
             /\ Goto(p, "commit")
             /\ UNCHANGED <<applied, objects, writer, noteVars, current, migrating>>

Rollback == /\ writer' = Nobody
            /\ tx' = [applied |-> applied, objects |-> objects]
            /\ UNCHANGED <<applied, objects>>

\* mutant: a version that is already there is taken for success
RecordExistsIsFine(p) == /\ pc[p] = "record"
                         /\ migrating[p] \in applied
                         /\ Rollback
                         /\ Goto(p, "open")
                         /\ UNCHANGED <<noteVars, current, migrating>>

(* ... so a version that another process has recorded since is an error: the  *)
(* second of two processes that open a new database at once fails to open it. *)
RecordExists(p) == /\ pc[p] = "record"
                   /\ migrating[p] \in applied
                   /\ Rollback
                   /\ Goto(p, "failed")
                   /\ UNCHANGED <<noteVars, current, migrating>>

Commit(p) == /\ pc[p] = "commit"
             /\ applied' = tx.applied
             /\ objects' = tx.objects
             /\ writer' = Nobody
             /\ migrating' = [migrating EXCEPT ![p] = @ + 1]
             /\ Goto(p, "migrate")
             /\ UNCHANGED <<tx, noteVars, current>>

(* A process ends, or dies, wherever it is; the next one opens again. *)
Close(p) == /\ pc[p] # "closed"
            /\ Goto(p, "closed")
            /\ IF writer = p THEN Rollback ELSE UNCHANGED schema
            /\ UNCHANGED <<noteVars, current, migrating>>

-----------------------------------------------------------------------------
(* An open database is used: the triggers of migration 2 keep intents_fts.   *)
InsertIntent(p, n) == /\ pc[p] = "open"
                      /\ writer = Nobody
                      /\ n \notin intents
                      /\ intents' = intents \cup {n}
                      /\ fts' = IF 2 \in objects THEN fts \cup {n} ELSE fts
                      /\ UNCHANGED <<schema, old, opener>>

\* mutant: the update trigger deletes the row and does not insert it
UpdateIntentsDeletes(p, ns) == /\ pc[p] = "open"
                               /\ writer = Nobody
                               /\ fts' = IF 2 \in objects THEN fts \ ns ELSE fts
                               /\ UNCHANGED <<schema, intents, old, opener>>

UpdateIntents(p, ns) == /\ pc[p] = "open"
                        /\ writer = Nobody
                        /\ fts' = IF 2 \in objects THEN fts \cup ns ELSE fts
                        /\ UNCHANGED <<schema, intents, old, opener>>

MigrationsNext ==
        \E p \in Procs :
           \/ Open(p) \/ GetCurrentVersion(p) \/ Opened(p)
           \/ Exec(p) \/ ExecBusy(p) \/ Record(p) \/ RecordExists(p) \/ Commit(p)
           \/ Close(p)
           \/ \E n \in Notes : InsertIntent(p, n)
           \/ \E ns \in (SUBSET intents) \ {{}} : UpdateIntents(p, ns)

MigrationsSpec == MigrationsInit /\ [][MigrationsNext]_migrationVars

-----------------------------------------------------------------------------
(* A process that has opened the database finds the whole schema, however    *)
(* many others migrated, failed or died meanwhile.                           *)
OpenIsMigrated == \A p \in Procs : pc[p] = "open" => objects = Versions

(* The version table never lies: a migration is recorded exactly when its    *)
(* objects exist, and the versions have no gap, so that reading the highest  *)
(* one is enough.  No crash leaves a half-applied migration.                 *)
VersionTruthful == /\ applied = objects
                   /\ \A v \in applied : \A w \in Versions : w <= v => w \in applied

(* A note of this release is in the full-text index from its insertion on,   *)
(* through every later update.                                               *)
NotesStaySearchable == intents \ old \subseteq fts
=============================================================================
