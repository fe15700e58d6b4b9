------------------------- MODULE Migrations_proofs -------------------------
(* The schema is sound for any number of processes and notes. *)
EXTENDS Migrations, TLAPS

(* What is known of a process at each stage of Open: the versions below the  *)
(* one it migrates are in, and only the writer is in a transaction.          *)
OpenerInv ==
    \A p \in Procs :
        /\ pc[p] \in {"record", "commit"} <=> writer = p
        /\ pc[p] \in {"migrate", "record", "commit"} =>
              \A v \in Versions : v < migrating[p] => v \in applied
        /\ pc[p] \in {"record", "commit"} => migrating[p] \in Versions
        /\ pc[p] = "record" => tx = [applied |-> applied,
                                     objects |-> objects \cup {migrating[p]}]
        /\ pc[p] = "commit" => tx = [applied |-> applied \cup {migrating[p]},
                                     objects |-> objects \cup {migrating[p]}]

SchemaInv == /\ TypeOK /\ OpenerInv
             /\ VersionTruthful /\ OpenIsMigrated /\ NotesStaySearchable

LEMMA SchemaInvInit == MigrationsInit => SchemaInv
  BY MigrationsAssumption
  DEF MigrationsInit, SchemaInv, TypeOK, OpenerInv, VersionTruthful, OpenIsMigrated,
      NotesStaySearchable, Versions

LEMMA HighestVersionIn ==
    ASSUME applied \subseteq Versions, VersionTruthful
    PROVE  /\ HighestVersion \in 0 .. 2
           /\ \A v \in Versions : v <= HighestVersion <=> v \in applied
<1> DEFINE H == {0} \cup applied
           Highest(v) == v \in H /\ \A w \in H : w <= v
<1>1. \E v \in H : \A w \in applied : w <= v
  <2>1. CASE 2 \in applied
    BY <2>1 DEF Versions
  <2>2. CASE 2 \notin applied /\ 1 \in applied
    BY <2>2 DEF Versions
  <2>3. CASE applied = {}
    BY <2>3
  <2>4. QED
    BY <2>1, <2>2, <2>3 DEF Versions
<1>2. /\ HighestVersion \in H
      /\ \A w \in applied : w <= HighestVersion
  BY <1>1 DEF HighestVersion
<1>3. QED
  BY <1>2 DEF Versions, VersionTruthful

LEMMA AllVersions ==
    ASSUME NEW S, S \subseteq Versions, 1 \in S, 2 \in S
    PROVE  S = Versions
<1>1. \A v \in Versions : v = 1 \/ v = 2
  BY DEF Versions
<1>2. \A v : v \in S <=> v \in Versions
  BY <1>1
<1>3. QED
  BY <1>2, Zenon

LEMMA SchemaInvStep == SchemaInv /\ [MigrationsNext]_migrationVars => SchemaInv'
<1> SUFFICES ASSUME SchemaInv, [MigrationsNext]_migrationVars
             PROVE  SchemaInv'
    OBVIOUS
<1> USE MigrationsAssumption
    DEF SchemaInv, TypeOK, OpenerInv, VersionTruthful, OpenIsMigrated,
        NotesStaySearchable, Versions, schema, noteVars, opener, Goto
<1>1. ASSUME NEW p \in Procs, Open(p)
      PROVE  SchemaInv'
  BY <1>1 DEF Open
<1>2. ASSUME NEW p \in Procs, GetCurrentVersion(p)
      PROVE  SchemaInv'
  <2>1. applied \subseteq Versions /\ VersionTruthful
    OBVIOUS
  <2>2. /\ HighestVersion \in 0 .. 2
        /\ \A v \in Versions : v <= HighestVersion <=> v \in applied
    BY <2>1, HighestVersionIn
  <2>3. DEFINE h == HighestVersion
  <2>4. h \in 0 .. 2 /\ \A v \in 1 .. 2 : v < h + 1 => v \in applied
    BY <2>2
  <2>5. current' = [current EXCEPT ![p] = h] /\ migrating' = [migrating EXCEPT ![p] = h + 1]
    BY <1>2 DEF GetCurrentVersion
  <2>6. /\ pc[p] = "version" /\ pc' = [pc EXCEPT ![p] = "migrate"]
        /\ UNCHANGED <<applied, objects, tx, writer, intents, fts, old>>
    BY <1>2 DEF GetCurrentVersion
  <2>7. HIDE DEF h
  <2>8. TypeOK'
    BY <2>4, <2>5, <2>6
  <2>9. OpenerInv'
    BY <2>4, <2>5, <2>6
  <2>10. QED
    BY <2>6, <2>8, <2>9
<1>3. ASSUME NEW p \in Procs, Opened(p)
      PROVE  SchemaInv'
  <2>1. migrating[p] = 3
    <3>1. migrating[p] \in 1 .. 3 /\ migrating[p] \notin 1 .. 2
      BY <1>3 DEF Opened
    <3>2. QED
      BY <3>1
  <2>2. 1 \in applied /\ 2 \in applied
    <3>1. \A v \in Versions : v < migrating[p] => v \in applied
      BY <1>3 DEF Opened
    <3>2. QED
      BY <2>1, <3>1
  <2>3. objects = Versions
    <3>1. objects \subseteq Versions /\ 1 \in objects /\ 2 \in objects
      BY <2>2
    <3>2. QED
      BY <3>1, AllVersions
  <2>4. /\ pc' = [pc EXCEPT ![p] = "open"]
        /\ UNCHANGED <<applied, objects, tx, writer, intents, fts, old, current, migrating>>
    BY <1>3 DEF Opened
  <2>5. TypeOK' /\ VersionTruthful' /\ OpenIsMigrated' /\ NotesStaySearchable'
    BY <2>3, <2>4
  <2>6. OpenerInv'
    BY <1>3, <2>4 DEF Opened
  <2>7. QED
    BY <2>5, <2>6
<1>4. ASSUME NEW p \in Procs, Exec(p)
      PROVE  SchemaInv'
  BY <1>4 DEF Exec
<1>5. ASSUME NEW p \in Procs, ExecBusy(p)
      PROVE  SchemaInv'
  BY <1>5 DEF ExecBusy
<1>6. ASSUME NEW p \in Procs, Record(p)
      PROVE  SchemaInv'
  BY <1>6 DEF Record
<1>7. ASSUME NEW p \in Procs, RecordExists(p)
      PROVE  SchemaInv'
  BY <1>7 DEF RecordExists, Rollback
<1>8. ASSUME NEW p \in Procs, Commit(p)
      PROVE  SchemaInv'
  <2>1. /\ pc[p] = "commit" /\ writer = p
        /\ pc' = [pc EXCEPT ![p] = "migrate"]
        /\ writer' = Nobody
    BY <1>8 DEF Commit
  <2>2. PICK m \in Versions : m = migrating[p]
    BY <2>1
  <2>3. /\ applied' = applied \cup {m}
        /\ objects' = objects \cup {m}
        /\ migrating' = [migrating EXCEPT ![p] = m + 1]
        /\ UNCHANGED <<tx, intents, fts, old, current>>
    BY <1>8, <2>2 DEF Commit
  <2>4. \A v \in Versions : v < m => v \in applied
    BY <2>1, <2>2
  <2>5. TypeOK'
    BY <2>1, <2>2, <2>3
  <2>6. OpenerInv'
    BY <2>1, <2>2, <2>3, <2>4
  <2>7. VersionTruthful'
    BY <2>2, <2>3, <2>4
  <2>8. OpenIsMigrated' /\ NotesStaySearchable'
    BY <2>1, <2>2, <2>3
  <2>9. QED
    BY <2>5, <2>6, <2>7, <2>8
<1>9. ASSUME NEW p \in Procs, Close(p)
      PROVE  SchemaInv'
  <2>1. /\ pc' = [pc EXCEPT ![p] = "closed"]
        /\ UNCHANGED <<applied, objects, intents, fts, old, current, migrating>>
    BY <1>9 DEF Close, Rollback
  <2>2. CASE writer = p
    <3>1. writer' = Nobody /\ tx' = [applied |-> applied, objects |-> objects]
      BY <1>9, <2>2 DEF Close, Rollback
    <3>2. QED
      BY <2>1, <2>2, <3>1
  <2>3. CASE writer # p
    <3>1. UNCHANGED <<writer, tx>>
      BY <1>9, <2>3 DEF Close
    <3>2. QED
      BY <2>1, <2>3, <3>1
  <2>4. QED
    BY <2>2, <2>3
<1>10. ASSUME NEW p \in Procs, NEW n \in Notes, InsertIntent(p, n)
       PROVE  SchemaInv'
  BY <1>10 DEF InsertIntent
<1>11. ASSUME NEW p \in Procs, NEW ns \in SUBSET intents, UpdateIntents(p, ns)
       PROVE  SchemaInv'
  BY <1>11 DEF UpdateIntents
<1>12. CASE UNCHANGED migrationVars
  BY <1>12 DEF migrationVars
<1>13. QED
  BY <1>1, <1>2, <1>3, <1>4, <1>5, <1>6, <1>7, <1>8, <1>9, <1>10, <1>11, <1>12
  DEF MigrationsNext

(* However many processes open the database at once, fail or die: whoever    *)
(* has it open has the whole schema, the version table tells the truth, and  *)
(* every note written under the schema stays in the full-text index          *)
(* (migrations.go 35-104, 002_phase1.sql 53-85).                             *)
THEOREM SchemaCorrect ==
    MigrationsSpec => [](OpenIsMigrated /\ VersionTruthful /\ NotesStaySearchable)
<1>1. SchemaInv => OpenIsMigrated /\ VersionTruthful /\ NotesStaySearchable
  BY DEF SchemaInv
<1>2. QED
  BY <1>1, SchemaInvInit, SchemaInvStep, PTL DEF MigrationsSpec

(* The version table never promises a migration that a crash took back.      *)
THEOREM VersionCorrect == MigrationsSpec => []VersionTruthful
  BY SchemaCorrect, PTL

(* Notes that are written or updated under the schema are in the full-text   *)
(* index, whoever migrates, fails or dies beside them.                       *)
THEOREM IndexCorrect == MigrationsSpec => []NotesStaySearchable
  BY SchemaCorrect, PTL
=============================================================================
