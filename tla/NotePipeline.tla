----------------------------- MODULE NotePipeline -----------------------------
(***************************************************************************)
(* The life of an intent note: `synth note' sessions write it              *)
(* (internal/cli/note.go), the post-commit hook links it to a commit       *)
(* (internal/git/hooks.go, internal/cli/post_commit.go) and the daemon's   *)
(* embedding loop indexes it (internal/daemon/embedder.go).  All of them   *)
(* are separate processes that share only the database and the repository. *)
(*                                                                         *)
(* A session, a hook or a daemon may stop after any of its steps: the user *)
(* cancels a prompt or kills the command, a statement fails (SQLITE_BUSY,  *)
(* disk full), the process crashes.  Nothing is rolled back, because no    *)
(* caller puts two statements in a transaction.                            *)
(***************************************************************************)
EXTENDS IntentStore

CONSTANTS Writers,     \* terminals in which `synth note' runs
          Terminals,   \* terminals in which `git commit' runs
          Daemons,     \* daemons (embedding loops) open on this project
          BatchSize,   \* EmbedBatchSize, 10 in the code
          MaxSessions, \* bound: how many times `synth note' is started
          MaxCommits   \* bound: how many commits are made

ASSUME PipelineAssumption ==
  /\ BatchSize \in Nat \ {0}
  /\ MaxSessions \in Nat
  /\ MaxCommits \in Nat

VARIABLES wpc,      \* writer -> next step of its `synth note'
          draft,    \* writer -> the types.Intent it is preparing
          sessions, \* how many sessions were started
          now,      \* the wall clock, in milliseconds
          head,     \* HEAD: commits are numbered 1, 2, ... in their order
          hpc,      \* terminal -> next step of its post-commit hook
          hash,     \* terminal -> the --hash its hook passed
          model,    \* IsModelPresent()
          epc,      \* daemon -> next step of its embedPending
          batch,    \* daemon -> the intents it listed
          vectors,  \* daemon -> what EmbedBatch returned
          next      \* daemon -> index into batch and vectors

writerVars == <<wpc, draft, sessions, now>>
gitVars    == <<head, hpc, hash>>
loopVars   == <<epc, batch, vectors, next>>
vars == <<storeVars, writerVars, gitVars, model, loopVars>>

NoDraft == [ts |-> 0, file |-> CHOOSE f \in Files : TRUE,
            type |-> "change", commit |-> NoCommit]

PipelineInit ==
  /\ wpc = [w \in Writers |-> "idle"]
  /\ draft = [w \in Writers |-> NoDraft]
  /\ sessions = 0
  /\ now = 0
  /\ head = NoCommit
  /\ hpc = [t \in Terminals |-> "idle"]
  /\ hash = [t \in Terminals |-> NoCommit]
  /\ model = FALSE
  /\ epc = [d \in Daemons |-> "idle"]
  /\ batch = [d \in Daemons |-> <<>>]
  /\ vectors = [d \in Daemons |-> <<>>]
  /\ next = [d \in Daemons |-> 1]

Init == StoreInit /\ PipelineInit
-----------------------------------------------------------------------------
(* synth note *)

\* Mutant: the note type is asked for without looking at the registry.
CheckNothing(w, f) ==
  /\ wpc[w] = "idle"
  /\ sessions < MaxSessions
  /\ sessions' = sessions + 1
  /\ wpc' = [wpc EXCEPT ![w] = "asking"]
  /\ draft' = [draft EXCEPT ![w].file = f, ![w].type = "new_file"]
  /\ UNCHANGED <<storeVars, now, gitVars, model, loopVars>>

\* Step 3 of runNoteInteractive: the registry decides which note to ask for.
CheckRegistry(w, f) ==
  /\ wpc[w] = "idle"
  /\ sessions < MaxSessions
  /\ sessions' = sessions + 1
  /\ wpc' = [wpc EXCEPT ![w] = "asking"]
  /\ draft' = [draft EXCEPT ![w].file = f,
                            ![w].type = IF GetFileRegistry(f)
                                        THEN "change" ELSE "new_file"]
  /\ UNCHANGED <<storeVars, now, gitVars, model, loopVars>>

\* The answers are in: the Intent is built with the time of this moment, which
\* is not yet the time of its INSERT.
BuildIntent(w) ==
  /\ wpc[w] = "asking"
  /\ wpc' = [wpc EXCEPT ![w] = "built"]
  /\ draft' = [draft EXCEPT ![w].ts = now]
  /\ now' \in {now, now + 1}
  /\ UNCHANGED <<storeVars, sessions, gitVars, model, loopVars>>

\* Mutant: the error of the INSERT is ignored.
SaveIntentUnchecked(w) ==
  /\ wpc[w] = "built"
  /\ InsertIntent(draft[w]) \/ UNCHANGED intents
  /\ IF draft[w].type = "new_file"
     THEN wpc' = [wpc EXCEPT ![w] = "declared"] /\ UNCHANGED draft
     ELSE /\ wpc' = [wpc EXCEPT ![w] = "idle"]
          /\ draft' = [draft EXCEPT ![w] = NoDraft]
  /\ UNCHANGED <<registry, embeddings, daemonState, sessions, now, gitVars,
                 model, loopVars>>

\* saveExistingFileNote ends here; saveNewFileNote goes on to the registry.
SaveIntent(w) ==
  /\ wpc[w] = "built"
  /\ InsertIntent(draft[w])
  /\ IF draft[w].type = "new_file"
     THEN wpc' = [wpc EXCEPT ![w] = "declared"] /\ UNCHANGED draft
     ELSE /\ wpc' = [wpc EXCEPT ![w] = "idle"]
          /\ draft' = [draft EXCEPT ![w] = NoDraft]
  /\ UNCHANGED <<registry, embeddings, daemonState, sessions, now, gitVars,
                 model, loopVars>>

SaveRegistry(w) ==
  /\ wpc[w] = "declared"
  /\ UpsertFileRegistry(draft[w].file)
  /\ wpc' = [wpc EXCEPT ![w] = "idle"]
  /\ draft' = [draft EXCEPT ![w] = NoDraft]
  /\ UNCHANGED <<intents, embeddings, daemonState, sessions, now, gitVars,
                 model, loopVars>>

\* A cancelled prompt, a store error that is returned, or a killed command.
Abandon(w) ==
  /\ wpc[w] # "idle"
  /\ wpc' = [wpc EXCEPT ![w] = "idle"]
  /\ draft' = [draft EXCEPT ![w] = NoDraft]
  /\ UNCHANGED <<storeVars, sessions, now, gitVars, model, loopVars>>
-----------------------------------------------------------------------------
(* git commit and the hook it runs.  git runs post-commit after it moved HEAD *)
(* and released its locks, so another terminal may commit meanwhile.          *)

GitCommit(t) ==
  /\ hpc[t] = "idle"
  /\ head < MaxCommits
  /\ head' = head + 1
  /\ hpc' = [hpc EXCEPT ![t] = "hook"]
  /\ UNCHANGED <<storeVars, writerVars, hash, model, loopVars>>

\* --hash="$(git rev-parse HEAD)": HEAD when the hook runs, not the commit's.
RevParse(t) ==
  /\ hpc[t] = "hook"
  /\ hash' = [hash EXCEPT ![t] = head]
  /\ hpc' = [hpc EXCEPT ![t] = "link"]
  /\ UNCHANGED <<storeVars, writerVars, head, model, loopVars>>

LinkCommitHash(t) ==
  /\ hpc[t] = "link"
  /\ UpdateUncommittedIntents(hash[t])
  /\ hpc' = [hpc EXCEPT ![t] = "idle"]
  /\ hash' = [hash EXCEPT ![t] = NoCommit]
  /\ UNCHANGED <<registry, embeddings, daemonState, writerVars, head, model,
                 loopVars>>

\* runPostCommit never fails aloud: an error in any of its steps, a missing
\* binary or a killed hook ends it with exit code 0 and no link.
HookGivesUp(t) ==
  /\ hpc[t] # "idle"
  /\ hpc' = [hpc EXCEPT ![t] = "idle"]
  /\ hash' = [hash EXCEPT ![t] = NoCommit]
  /\ UNCHANGED <<storeVars, writerVars, head, model, loopVars>>
-----------------------------------------------------------------------------
(* The daemon's embedding loop *)

\* `synth model download' completed; nothing removes the model again.
ModelDownloaded ==
  /\ ~model
  /\ model' = TRUE
  /\ UNCHANGED <<storeVars, writerVars, gitVars, loopVars>>

ToIdle(d) ==
  /\ epc' = [epc EXCEPT ![d] = "idle"]
  /\ batch' = [batch EXCEPT ![d] = <<>>]
  /\ vectors' = [vectors EXCEPT ![d] = <<>>]
  /\ next' = [next EXCEPT ![d] = 1]

\* A tick of the loop: without a model, or without a note, it does nothing.
ListPending(d) ==
  /\ epc[d] = "idle"
  /\ model
  /\ Unembedded # {}
  /\ \E s \in ListIntentsWithoutEmbeddings(BatchSize) :
       batch' = [batch EXCEPT ![d] = s]
  /\ epc' = [epc EXCEPT ![d] = "listed"]
  /\ UNCHANGED <<storeVars, writerVars, gitVars, model, vectors, next>>

\* Mutant: the vectors come back in another order than the texts.
EmbedBatchReversed(d) ==
  /\ epc[d] = "listed"
  /\ vectors' = [vectors EXCEPT ![d] = [k \in DOMAIN batch[d] |->
                                         batch[d][Len(batch[d]) + 1 - k]]]
  /\ epc' = [epc EXCEPT ![d] = "storing"]
  /\ UNCHANGED <<storeVars, writerVars, gitVars, model, batch, next>>

\* One vector per text, in the order of the texts.
EmbedBatch(d) ==
  /\ epc[d] = "listed"
  /\ vectors' = [vectors EXCEPT ![d] = batch[d]]
  /\ epc' = [epc EXCEPT ![d] = "storing"]
  /\ UNCHANGED <<storeVars, writerVars, gitVars, model, batch, next>>

\* The whole batch is given up, and listed again by a later tick.
EmbedBatchFails(d) ==
  /\ epc[d] = "listed"
  /\ ToIdle(d)
  /\ UNCHANGED <<storeVars, writerVars, gitVars, model>>

StoreEmbedding(d) ==
  /\ epc[d] = "storing"
  /\ next[d] <= Len(batch[d])
  /\ InsertEmbedding(batch[d][next[d]], vectors[d][next[d]])
  /\ next' = [next EXCEPT ![d] = @ + 1]
  /\ UNCHANGED <<intents, registry, daemonState, writerVars, gitVars, model,
                 epc, batch, vectors>>

\* The error is logged and the loop continues with the next intent.
StoreEmbeddingFails(d) ==
  /\ epc[d] = "storing"
  /\ next[d] <= Len(batch[d])
  /\ next' = [next EXCEPT ![d] = @ + 1]
  /\ UNCHANGED <<storeVars, writerVars, gitVars, model, epc, batch, vectors>>

\* last_embed_run is recorded whether or not a single INSERT succeeded; the
\* error of recording it is dropped.
FinishBatch(d) ==
  /\ epc[d] = "storing"
  /\ next[d] > Len(batch[d])
  /\ SetDaemonState("last_embed_run") \/ UNCHANGED daemonState
  /\ ToIdle(d)
  /\ UNCHANGED <<intents, registry, embeddings, writerVars, gitVars, model>>

\* The daemon dies in mid-batch and is started again.
DaemonRestarts(d) ==
  /\ epc[d] # "idle"
  /\ ToIdle(d)
  /\ UNCHANGED <<storeVars, writerVars, gitVars, model>>
-----------------------------------------------------------------------------
WriterStep(w) ==
  \/ \E f \in Files : CheckRegistry(w, f)
  \/ BuildIntent(w)
  \/ SaveIntent(w)
  \/ SaveRegistry(w)
  \/ Abandon(w)

GitStep(t) ==
  \/ GitCommit(t)
  \/ RevParse(t)
  \/ LinkCommitHash(t)
  \/ HookGivesUp(t)

LoopStep(d) ==
  \/ ListPending(d)
  \/ EmbedBatch(d)
  \/ EmbedBatchFails(d)
  \/ StoreEmbedding(d)
  \/ StoreEmbeddingFails(d)
  \/ FinishBatch(d)
  \/ DaemonRestarts(d)

Next ==
  \/ \E w \in Writers : WriterStep(w)
  \/ \E t \in Terminals : GitStep(t)
  \/ ModelDownloaded
  \/ \E d \in Daemons : LoopStep(d)

Spec == Init /\ [][Next]_vars

\* The 5 s ticker keeps running embedPending, and an error of the engine or of
\* the store is transient: a call that is retried for ever succeeds at last.
LoopFairness ==
  \A d \in Daemons :
    /\ WF_vars(ListPending(d))
    /\ SF_vars(EmbedBatch(d))
    /\ SF_vars(StoreEmbedding(d))
    /\ WF_vars(FinishBatch(d))

FairSpec == Spec /\ LoopFairness
-----------------------------------------------------------------------------
(* Properties *)

TypeOK ==
  /\ StoreTypeOK
  /\ wpc \in [Writers -> {"idle", "asking", "built", "declared"}]
  /\ draft \in [Writers -> Row]
  /\ sessions \in 0..MaxSessions
  /\ now \in Nat
  /\ head \in 0..MaxCommits
  /\ hpc \in [Terminals -> {"idle", "hook", "link"}]
  /\ hash \in [Terminals -> 0..MaxCommits]
  /\ model \in BOOLEAN
  /\ epc \in [Daemons -> {"idle", "listed", "storing"}]
  /\ batch \in [Daemons -> Seq(Nat)]
  /\ vectors \in [Daemons -> Seq(Nat)]
  /\ next \in [Daemons -> 1..BatchSize + 1]

\* A stored vector belongs to a saved note and was computed from that note's
\* own text, whichever daemon stored it and however often it was retried
\* (the index arithmetic of embedPending, the foreign key of the table).
EmbeddingsMatchNotes ==
  \A i \in DOMAIN embeddings : i \in DOMAIN intents /\ embeddings[i] = i

\* i is a note that declares the file f.
Declares(i, f) == intents[i].type = "new_file" /\ intents[i].file = f

\* A file has a registry entry only after its declaration was saved, although
\* saveNewFileNote writes the two without a transaction: a crash between them
\* may lose the entry, never the note.
RegisteredFilesDeclared ==
  \A f \in registry : \E i \in DOMAIN intents : Declares(i, f)

\* `synth log' can show, for each change, why the file exists: the declaration
\* was saved before the change, by whichever session.
ChangesFollowDeclaration ==
  \A i \in DOMAIN intents :
    intents[i].type = "change" =>
      \E j \in 1..i-1 : Declares(j, intents[i].file)

\* The commit a note was linked to is never replaced, by whatever later,
\* delayed or concurrent hook.
CommitNeverRewritten ==
  [][\A i \in DOMAIN intents :
       ~Uncommitted(intents[i]) => intents'[i] = intents[i]]_vars

\* A hook leaves no note behind: a linked note has no unlinked note before it.
NoNoteLeftBehind ==
  \A j \in DOMAIN intents : \A i \in 1..j :
    Uncommitted(intents[i]) => Uncommitted(intents[j])

\* Commits are made one after the other, each with its hook.
SerialCommits == \A s, t \in Terminals : s = t

\* When they are, notes are attributed in the order in which they were saved:
\* a hook that failed delays its notes to a later commit, and never lets a
\* later note overtake them.
NotesFollowCommitOrder ==
  \A i, j \in DOMAIN intents :
    (i < j /\ ~Uncommitted(intents[j])) => intents[i].commit <= intents[j].commit

\* New-file notes of f that are saved or on their way.
Declarations(f) ==
  Cardinality({i \in DOMAIN intents : Declares(i, f)})
    + Cardinality({w \in Writers : /\ wpc[w] \in {"asking", "built"}
                                   /\ draft[w].type = "new_file"
                                   /\ draft[w].file = f})

\* Two sessions may both declare a file, and so may a retry after a crash; but
\* once the file is registered no further declaration begins.
NoDeclarationAfterRegistration ==
  [][\A f \in registry : Declarations(f)' <= Declarations(f)]_vars

\* With a model, every saved note is embedded at last, although a batch fails
\* as a whole, a row fails alone, and the daemon may be restarted.
EveryNoteEmbedded ==
  \A i \in 1..MaxSessions :
    (model /\ i \in DOMAIN intents) ~> (i \in DOMAIN embeddings)

\* The abstract life of a note, implemented by the three processes.
Lifecycle == INSTANCE NoteLifecycle WITH
               notes <- [i \in DOMAIN intents |-> intents[i].commit],
               indexed <- DOMAIN embeddings

\* Every step of the pipeline is a step of a note's life, or none.
ImplementsLifecycle == Lifecycle!Spec
=============================================================================
