----------------------------- MODULE IntentStore -----------------------------
(***************************************************************************)
(* The tables of one project's SQLite database (internal/store) that the   *)
(* note pipeline shares, and one operator per SQL statement that changes   *)
(* or reads them.  A statement is atomic: the database is opened in WAL    *)
(* mode with a single connection per process (store/db.go), so processes   *)
(* interleave between statements and never inside one.                     *)
(*                                                                         *)
(* A row of `intents' is known by its rowid, its place in the sequence:    *)
(* nothing in the program deletes an intent.  The text of a note and the   *)
(* vector computed from it are stood for by that number too.               *)
(***************************************************************************)
EXTENDS Naturals, Sequences, FiniteSets

CONSTANT Files      \* the tracked files of the repository

ASSUME FilesAssumption == Files # {}

VARIABLES intents,    \* table intents: a sequence of Row, in order of rowid
          registry,   \* table file_registry: the files that have an entry
          embeddings, \* table intent_embeddings: intent -> text embedded
          daemonState \* table daemon_state: the keys that have a value

storeVars == <<intents, registry, embeddings, daemonState>>

NoCommit == 0         \* commit_hash = '', the value both note builders write
NoteTypes == {"new_file", "change"}  \* the two of the four types notes use
Row == [ts : Nat, file : Files, type : NoteTypes, commit : Nat]

StoreTypeOK ==
  /\ intents \in Seq(Row)
  /\ registry \in SUBSET Files
  /\ DOMAIN embeddings \in SUBSET Nat
  /\ \A i \in DOMAIN embeddings : embeddings[i] \in Nat
  /\ daemonState \in SUBSET {"last_embed_run"}

StoreInit ==
  /\ intents = <<>>
  /\ registry = {}
  /\ embeddings = [i \in {} |-> 0]
  /\ daemonState = {}
-----------------------------------------------------------------------------
Uncommitted(row) == row.commit = NoCommit

InsertIntent(row) == intents' = Append(intents, row)

UpsertFileRegistry(f) == registry' = registry \cup {f}

\* Mutant: the lookup forgets the file_path = ? clause.
GetFileRegistryOfProject(f) == registry # {}

GetFileRegistry(f) == f \in registry

\* Mutant: the clause on commit_hash is missing.
UpdateAllIntents(c) ==
  intents' = [i \in DOMAIN intents |-> [intents[i] EXCEPT !.commit = c]]

\* Mutant: only the newest of the uncommitted notes is linked.
UpdateNewestIntent(c) ==
  intents' = [i \in DOMAIN intents |->
                IF /\ Uncommitted(intents[i])
                   /\ \A j \in DOMAIN intents :
                        Uncommitted(intents[j]) => j <= i
                THEN [intents[i] EXCEPT !.commit = c]
                ELSE intents[i]]

\* Links every note that has no hash yet; a note that has one keeps it.
UpdateUncommittedIntents(c) ==
  intents' = [i \in DOMAIN intents |->
                IF Uncommitted(intents[i])
                THEN [intents[i] EXCEPT !.commit = c]
                ELSE intents[i]]

\* INSERT OR REPLACE: the last vector written for an intent is the one kept.
InsertEmbedding(i, text) ==
  embeddings' = [j \in DOMAIN embeddings \cup {i} |->
                   IF j = i THEN text ELSE embeddings[j]]

Unembedded == DOMAIN intents \ DOMAIN embeddings

\* Mutant: the anti-join on intent_embeddings is missing.
ListOldestIntents(limit) ==
  LET n == IF Len(intents) < limit THEN Len(intents) ELSE limit
  IN  {s \in [1..n -> DOMAIN intents] :
         \A i \in DOMAIN intents : (\A a \in 1..n : s[a] # i) =>
           \A a, b \in 1..n : /\ intents[s[a]].ts <= intents[i].ts
                             /\ a # b => s[a] # s[b]}

\* The lists that ORDER BY timestamp ASC LIMIT may return: notes of the same
\* millisecond come in either order.
ListIntentsWithoutEmbeddings(limit) ==
  LET n == IF Cardinality(Unembedded) < limit
           THEN Cardinality(Unembedded) ELSE limit
  IN  {s \in [1..n -> Unembedded] :
         /\ \A a, b \in 1..n : a < b =>
              s[a] # s[b] /\ intents[s[a]].ts <= intents[s[b]].ts
         /\ \A i \in Unembedded : (\A a \in 1..n : s[a] # i) =>
              \A a \in 1..n : intents[s[a]].ts <= intents[i].ts}

SetDaemonState(key) == daemonState' = daemonState \cup {key}
=============================================================================
