------------------------- MODULE NotePipeline_proofs -------------------------
(***************************************************************************)
(* Theorems about NotePipeline, for any files, writers, terminals, daemons *)
(* and bounds.  The argument goes in layers: types and the shape of the    *)
(* daemons' batches first; then what each property needs of the processes  *)
(* that are between two of their steps.                                    *)
(***************************************************************************)
EXTENDS NotePipeline, FiniteSetTheorems, TLAPS

USE FilesAssumption, PipelineAssumption DEF FilesAssumption, PipelineAssumption
-----------------------------------------------------------------------------
(* The statements of IntentStore *)

\* A batch is a list of at most `limit' rowids of saved notes.
LEMMA ListedBatch ==
  ASSUME StoreTypeOK, NEW limit \in Nat,
         NEW s \in ListIntentsWithoutEmbeddings(limit)
  PROVE  /\ s \in Seq(Nat)
         /\ Len(s) <= limit
         /\ \A k \in 1..Len(s) : s[k] \in DOMAIN intents
<1>1. DOMAIN intents = 1..Len(intents) /\ Len(intents) \in Nat
  BY DEF StoreTypeOK
<1>2. IsFiniteSet(DOMAIN intents)
  BY <1>1, FS_Interval
<1>3. IsFiniteSet(Unembedded)
  BY <1>2, FS_Subset DEF Unembedded
<1>4. Cardinality(Unembedded) \in Nat
  BY <1>3, FS_CardinalityType
<1>5. PICK n \in Nat : n <= limit /\ s \in [1..n -> Unembedded]
  BY <1>4 DEF ListIntentsWithoutEmbeddings
<1>6. Unembedded \subseteq DOMAIN intents /\ Unembedded \subseteq Nat
  BY <1>1 DEF Unembedded
<1>7. s \in Seq(Unembedded) /\ Len(s) = n
  BY <1>5
<1> QED BY <1>5, <1>6, <1>7

\* UPDATE changes no column but commit_hash, and that only where it was empty.
LEMMA LinkUpdate ==
  ASSUME StoreTypeOK, NEW c \in Nat, UpdateUncommittedIntents(c)
  PROVE  /\ intents' \in Seq(Row)
         /\ Len(intents') = Len(intents)
         /\ DOMAIN intents' = DOMAIN intents
         /\ \A i \in DOMAIN intents :
              /\ intents'[i].file = intents[i].file
              /\ intents'[i].type = intents[i].type
              /\ intents'[i].commit = IF Uncommitted(intents[i])
                                      THEN c ELSE intents[i].commit
              /\ ~Uncommitted(intents[i]) => intents'[i] = intents[i]
<1>1. DOMAIN intents = 1..Len(intents) /\ Len(intents) \in Nat
  BY DEF StoreTypeOK
<1>2. \A i \in DOMAIN intents : intents[i] \in Row
  BY DEF StoreTypeOK
<1>3. \A i \in DOMAIN intents : [intents[i] EXCEPT !.commit = c] \in Row
  BY <1>2 DEF Row
<1>4. intents' \in [1..Len(intents) -> Row]
  BY <1>1, <1>2, <1>3 DEF UpdateUncommittedIntents
<1>5. intents' \in Seq(Row) /\ Len(intents') = Len(intents)
  BY <1>1, <1>4
<1> QED BY <1>1, <1>2, <1>5 DEF UpdateUncommittedIntents, Row
-----------------------------------------------------------------------------
(* Type correctness *)

\* What a daemon in mid-batch holds.  `next' stays in range because a batch is
\* never longer than BatchSize.
BatchShape ==
  \A d \in Daemons :
    /\ Len(batch[d]) <= BatchSize
    /\ \A k \in 1..Len(batch[d]) : batch[d][k] \in DOMAIN intents
    /\ epc[d] = "storing" => vectors[d] = batch[d]

IndTypeOK == TypeOK /\ BatchShape

LEMMA InitTypeOK == Init => IndTypeOK
<1> SUFFICES ASSUME Init PROVE IndTypeOK
  OBVIOUS
<1> USE DEF Init, StoreInit, PipelineInit, NoCommit
<1>1. NoDraft \in Row
  BY DEF NoDraft, Row, NoteTypes
<1>2. StoreTypeOK
  BY DEF StoreTypeOK
<1>3. <<>> \in Seq(Nat) /\ Len(<<>>) = 0
  OBVIOUS
<1>4. /\ batch \in [Daemons -> Seq(Nat)]
      /\ vectors \in [Daemons -> Seq(Nat)]
      /\ next \in [Daemons -> 1..BatchSize + 1]
  BY <1>3
<1>5. TypeOK
  <2>1. /\ wpc \in [Writers -> {"idle", "asking", "built", "declared"}]
        /\ draft \in [Writers -> Row]
    BY <1>1
  <2>2. /\ sessions \in 0..MaxSessions
        /\ now \in Nat
        /\ head \in 0..MaxCommits
    OBVIOUS
  <2>5. model \in BOOLEAN
    OBVIOUS
  <2>3. /\ hpc \in [Terminals -> {"idle", "hook", "link"}]
        /\ hash \in [Terminals -> 0..MaxCommits]
        /\ epc \in [Daemons -> {"idle", "listed", "storing"}]
    OBVIOUS
  <2>4. StoreTypeOK
    BY <1>2
  <2> HIDE DEF Init, StoreInit, PipelineInit, NoCommit
  <2> QED BY <1>4, <2>1, <2>2, <2>3, <2>4, <2>5 DEF TypeOK
<1>6. BatchShape
  BY DEF BatchShape
<1> QED BY <1>5, <1>6 DEF IndTypeOK

LEMMA StepTypeOK == IndTypeOK /\ [Next]_vars => IndTypeOK'
<1> SUFFICES ASSUME IndTypeOK, [Next]_vars PROVE IndTypeOK'
  OBVIOUS
<1> USE DEF IndTypeOK, TypeOK, writerVars, gitVars, loopVars, storeVars
<1>0. NoDraft \in Row
  BY DEF NoDraft, Row, NoteTypes, NoCommit
<1>a. ASSUME NEW d \in Daemons, ToIdle(d),
             UNCHANGED <<intents, registry, embeddings>>,
             UNCHANGED <<writerVars, gitVars, model>>,
             daemonState' \in SUBSET {"last_embed_run"}
      PROVE  IndTypeOK'
  <2>1. <<>> \in Seq(Nat) /\ Len(<<>>) = 0 /\ 1 \in 1..BatchSize + 1
    OBVIOUS
  <2>2. /\ batch' \in [Daemons -> Seq(Nat)]
        /\ vectors' \in [Daemons -> Seq(Nat)]
        /\ next' \in [Daemons -> 1..BatchSize + 1]
        /\ epc' \in [Daemons -> {"idle", "listed", "storing"}]
    BY <1>a, <2>1 DEF ToIdle
  <2>3. StoreTypeOK'
    BY <1>a DEF StoreTypeOK
  <2>4. TypeOK'
    BY <1>a, <2>2, <2>3
  <2>5. BatchShape'
    <3> SUFFICES ASSUME NEW e \in Daemons
                 PROVE  /\ Len(batch'[e]) <= BatchSize
                        /\ \A k \in 1..Len(batch'[e]) :
                             batch'[e][k] \in DOMAIN intents
                        /\ epc'[e] = "storing" => vectors'[e] = batch'[e]
      BY <1>a DEF BatchShape
    <3>1. CASE e = d
      BY <1>a, <2>1, <3>1 DEF ToIdle
    <3>2. CASE e # d
      BY <1>a, <3>2 DEF ToIdle, BatchShape
    <3> QED BY <3>1, <3>2
  <2> QED BY <2>4, <2>5
<1>1. ASSUME NEW w \in Writers, NEW f \in Files, CheckRegistry(w, f)
      PROVE  IndTypeOK'
  <2>1. PICK y \in NoteTypes :
          draft' = [draft EXCEPT ![w].file = f, ![w].type = y]
    BY <1>1 DEF CheckRegistry, NoteTypes
  <2>2. draft' \in [Writers -> Row]
    BY <2>1 DEF Row
  <2>3. StoreTypeOK' /\ BatchShape'
    BY <1>1 DEF CheckRegistry, StoreTypeOK, BatchShape
  <2>4. sessions' \in 0..MaxSessions
    BY <1>1 DEF CheckRegistry
  <2> QED BY <1>1, <2>2, <2>3, <2>4 DEF CheckRegistry
<1>2. ASSUME NEW w \in Writers, BuildIntent(w)
      PROVE  IndTypeOK'
  <2>1. [draft[w] EXCEPT !.ts = now] \in Row
    BY DEF Row
  <2>2. draft' \in [Writers -> Row]
    BY <1>2, <2>1 DEF BuildIntent
  <2>3. now' \in Nat
    BY <1>2 DEF BuildIntent
  <2>4. StoreTypeOK' /\ BatchShape'
    BY <1>2 DEF BuildIntent, StoreTypeOK, BatchShape
  <2> QED BY <1>2, <2>2, <2>3, <2>4 DEF BuildIntent
<1>3. ASSUME NEW w \in Writers, SaveIntent(w)
      PROVE  IndTypeOK'
  <2>1. intents' \in Seq(Row) /\ DOMAIN intents \subseteq DOMAIN intents'
    BY <1>3 DEF SaveIntent, InsertIntent, StoreTypeOK
  <2>2. StoreTypeOK'
    BY <1>3, <2>1 DEF SaveIntent, StoreTypeOK
  <2>3. TypeOK'
    BY <1>0, <1>3, <2>2 DEF SaveIntent
  <2>4. BatchShape'
    BY <1>3, <2>1 DEF SaveIntent, BatchShape
  <2> QED BY <2>3, <2>4
<1>4. ASSUME NEW w \in Writers, SaveRegistry(w)
      PROVE  IndTypeOK'
  <2>1. draft[w].file \in Files
    BY DEF Row
  <2> QED BY <1>0, <1>4, <2>1
          DEF SaveRegistry, UpsertFileRegistry, StoreTypeOK, BatchShape
<1>5. ASSUME NEW w \in Writers, Abandon(w)
      PROVE  IndTypeOK'
  BY <1>0, <1>5 DEF Abandon, StoreTypeOK, BatchShape
<1>6. ASSUME NEW t \in Terminals, GitCommit(t)
      PROVE  IndTypeOK'
  BY <1>6 DEF GitCommit, StoreTypeOK, BatchShape
<1>7. ASSUME NEW t \in Terminals, RevParse(t)
      PROVE  IndTypeOK'
  BY <1>7 DEF RevParse, StoreTypeOK, BatchShape
<1>8. ASSUME NEW t \in Terminals, LinkCommitHash(t)
      PROVE  IndTypeOK'
  <2>1. hash[t] \in Nat /\ UpdateUncommittedIntents(hash[t])
    BY <1>8 DEF LinkCommitHash
  <2>2. intents' \in Seq(Row) /\ DOMAIN intents' = DOMAIN intents
    BY <2>1, LinkUpdate
  <2> QED BY <1>8, <2>2 DEF LinkCommitHash, StoreTypeOK, BatchShape, NoCommit
<1>9. ASSUME NEW t \in Terminals, HookGivesUp(t)
      PROVE  IndTypeOK'
  <2>1. hash' \in [Terminals -> 0..MaxCommits]
    BY <1>9 DEF HookGivesUp, NoCommit
  <2> QED BY <1>9, <2>1 DEF HookGivesUp, StoreTypeOK, BatchShape
<1>10. ASSUME ModelDownloaded
       PROVE  IndTypeOK'
  BY <1>10 DEF ModelDownloaded, StoreTypeOK, BatchShape
<1>11. ASSUME NEW d \in Daemons, ListPending(d)
       PROVE  IndTypeOK'
  <2>1. PICK s \in ListIntentsWithoutEmbeddings(BatchSize) :
               batch' = [batch EXCEPT ![d] = s]
    BY <1>11 DEF ListPending
  <2>2. /\ s \in Seq(Nat) /\ Len(s) <= BatchSize
        /\ \A k \in 1..Len(s) : s[k] \in DOMAIN intents
    BY ListedBatch
  <2> QED BY <1>11, <2>1, <2>2 DEF ListPending, StoreTypeOK, BatchShape
<1>12. ASSUME NEW d \in Daemons, EmbedBatch(d)
       PROVE  IndTypeOK'
  BY <1>12 DEF EmbedBatch, StoreTypeOK, BatchShape
<1>13. ASSUME NEW d \in Daemons, EmbedBatchFails(d) \/ DaemonRestarts(d)
       PROVE  IndTypeOK'
  BY <1>a, <1>13 DEF EmbedBatchFails, DaemonRestarts, StoreTypeOK
<1>14. ASSUME NEW d \in Daemons, StoreEmbedding(d)
       PROVE  IndTypeOK'
  <2>1. next[d] \in 1..Len(batch[d]) /\ vectors[d] = batch[d]
    BY <1>14 DEF StoreEmbedding, BatchShape
  <2>2. batch[d][next[d]] \in Nat /\ vectors[d][next[d]] \in Nat
    BY <2>1
  <2>3. StoreTypeOK'
    BY <1>14, <2>2 DEF StoreEmbedding, InsertEmbedding, StoreTypeOK
  <2>4. next' \in [Daemons -> 1..BatchSize + 1]
    BY <1>14, <2>1 DEF StoreEmbedding, BatchShape
  <2> QED BY <1>14, <2>3, <2>4 DEF StoreEmbedding, BatchShape
<1>15. ASSUME NEW d \in Daemons, StoreEmbeddingFails(d)
       PROVE  IndTypeOK'
  <2>1. next' \in [Daemons -> 1..BatchSize + 1]
    BY <1>15 DEF StoreEmbeddingFails, BatchShape
  <2> QED BY <1>15, <2>1 DEF StoreEmbeddingFails, StoreTypeOK, BatchShape
<1>16. ASSUME NEW d \in Daemons, FinishBatch(d)
       PROVE  IndTypeOK'
  <2>1. daemonState' \in SUBSET {"last_embed_run"}
    BY <1>16 DEF FinishBatch, SetDaemonState, StoreTypeOK
  <2> QED BY <1>a, <1>16, <2>1 DEF FinishBatch
<1>17. CASE UNCHANGED vars
  BY <1>17 DEF vars, StoreTypeOK, BatchShape
<1> QED BY <1>1, <1>2, <1>3, <1>4, <1>5, <1>6, <1>7, <1>8, <1>9, <1>10, <1>11,
           <1>12, <1>13, <1>14, <1>15, <1>16, <1>17
        DEF Next, WriterStep, GitStep, LoopStep

\* Every variable keeps its type, and no daemon reads its batch out of range.
THEOREM TypeCorrect == Spec => [](TypeOK /\ BatchShape)
<1>1. IndTypeOK => TypeOK /\ BatchShape
  BY DEF IndTypeOK
<1> QED BY <1>1, InitTypeOK, StepTypeOK, PTL DEF Spec
-----------------------------------------------------------------------------
(* Notes are kept *)

\* The columns of row i that no step changes, in the next state.
RowKept(i) ==
  /\ i \in DOMAIN intents'
  /\ intents'[i].file = intents[i].file
  /\ intents'[i].type = intents[i].type
  /\ ~Uncommitted(intents[i]) => intents'[i] = intents[i]

\* Only SaveIntent and LinkCommitHash write the table, and neither loses a row,
\* its file, its type, or the commit it is linked to.
LEMMA RowsKept ==
  ASSUME TypeOK, [Next]_vars
  PROVE  \A i \in DOMAIN intents : RowKept(i)
<1>1. ASSUME NEW w \in Writers, SaveIntent(w)
      PROVE  \A i \in DOMAIN intents : RowKept(i)
  BY <1>1 DEF SaveIntent, InsertIntent, RowKept, TypeOK, StoreTypeOK
<1>2. ASSUME NEW t \in Terminals, LinkCommitHash(t)
      PROVE  \A i \in DOMAIN intents : RowKept(i)
  <2>1. hash[t] \in Nat /\ StoreTypeOK /\ UpdateUncommittedIntents(hash[t])
    BY <1>2 DEF LinkCommitHash, TypeOK
  <2> QED BY <2>1, LinkUpdate DEF RowKept
<1>3. CASE UNCHANGED intents
  BY <1>3 DEF RowKept
<1>4. \/ \E w \in Writers : SaveIntent(w)
      \/ \E t \in Terminals : LinkCommitHash(t)
      \/ UNCHANGED intents
  BY DEF Next, WriterStep, GitStep, LoopStep, CheckRegistry, BuildIntent,
         SaveRegistry, Abandon, GitCommit, RevParse, HookGivesUp,
         ModelDownloaded, ListPending, EmbedBatch, EmbedBatchFails,
         StoreEmbedding, StoreEmbeddingFails, FinishBatch, DaemonRestarts,
         storeVars, vars
<1> QED BY <1>1, <1>2, <1>3, <1>4

\* The commit a note was linked to is never replaced.
THEOREM CommitsPermanent == Spec => CommitNeverRewritten
<1>1. IndTypeOK /\ [Next]_vars =>
        [\A i \in DOMAIN intents :
           ~Uncommitted(intents[i]) => intents'[i] = intents[i]]_vars
  BY RowsKept DEF IndTypeOK, RowKept
<1> QED BY <1>1, InitTypeOK, StepTypeOK, PTL DEF Spec, CommitNeverRewritten
-----------------------------------------------------------------------------
(* Embeddings *)

LEMMA StepEmbeddings ==
  IndTypeOK /\ EmbeddingsMatchNotes /\ [Next]_vars => EmbeddingsMatchNotes'
<1> SUFFICES ASSUME IndTypeOK, EmbeddingsMatchNotes, [Next]_vars
             PROVE  EmbeddingsMatchNotes'
  OBVIOUS
<1>1. DOMAIN intents \subseteq DOMAIN intents'
  BY RowsKept DEF IndTypeOK, RowKept
<1>2. ASSUME NEW d \in Daemons, StoreEmbedding(d)
      PROVE  EmbeddingsMatchNotes'
  <2>1. next[d] \in 1..Len(batch[d]) /\ vectors[d] = batch[d]
    BY <1>2 DEF StoreEmbedding, IndTypeOK, BatchShape, TypeOK
  <2>2. batch[d][next[d]] \in DOMAIN intents
    BY <2>1 DEF IndTypeOK, BatchShape
  <2> QED BY <1>1, <1>2, <2>1, <2>2
          DEF StoreEmbedding, InsertEmbedding, EmbeddingsMatchNotes
<1>3. CASE UNCHANGED embeddings
  BY <1>1, <1>3 DEF EmbeddingsMatchNotes
<1>4. (\E d \in Daemons : StoreEmbedding(d)) \/ UNCHANGED embeddings
  BY DEF Next, WriterStep, GitStep, LoopStep, CheckRegistry, BuildIntent,
         SaveIntent, SaveRegistry, Abandon, GitCommit, RevParse,
         LinkCommitHash, HookGivesUp, ModelDownloaded, ListPending, EmbedBatch,
         EmbedBatchFails, StoreEmbeddingFails, FinishBatch, DaemonRestarts,
         storeVars, vars
<1> QED BY <1>2, <1>3, <1>4

\* Every stored vector is that of a saved note, with any number of daemons on
\* the same database, restarts and failed statements.
THEOREM EmbeddingsCorrect == Spec => []EmbeddingsMatchNotes
<1>1. Init => EmbeddingsMatchNotes
  BY DEF Init, StoreInit, EmbeddingsMatchNotes
<1> QED BY <1>1, InitTypeOK, StepTypeOK, StepEmbeddings, PTL DEF Spec
-----------------------------------------------------------------------------
(* Declarations *)

\* What a session that is between two of its steps knows: a change note is
\* prepared only for a registered file, a registry entry is written only after
\* the declaration was saved.
Knows(w) ==
  /\ wpc[w] \in {"asking", "built"} /\ draft[w].type = "change" =>
       draft[w].file \in registry
  /\ wpc[w] = "declared" =>
       \E i \in DOMAIN intents : Declares(i, draft[w].file)

SessionsKnow == \A w \in Writers : Knows(w)

DeclarationInv ==
  SessionsKnow /\ RegisteredFilesDeclared /\ ChangesFollowDeclaration

LEMMA StepDeclarations ==
  IndTypeOK /\ DeclarationInv /\ [Next]_vars => DeclarationInv'
<1> SUFFICES ASSUME IndTypeOK, DeclarationInv, [Next]_vars
             PROVE  DeclarationInv'
  OBVIOUS
<1> USE DEF IndTypeOK, DeclarationInv
<1>0. TypeOK /\ DOMAIN intents = 1..Len(intents) /\ Len(intents) \in Nat
  BY DEF TypeOK, StoreTypeOK
<1>1. \A i \in DOMAIN intents : RowKept(i)
  BY RowsKept
<1>2. ASSUME NEW f, \E i \in DOMAIN intents : Declares(i, f)
      PROVE  \E i \in DOMAIN intents' : Declares(i, f)'
  BY <1>1, <1>2 DEF RowKept, Declares
<1>3. ASSUME registry' = registry
      PROVE  RegisteredFilesDeclared'
  BY <1>2, <1>3 DEF RegisteredFilesDeclared
<1>4. ASSUME DOMAIN intents' = DOMAIN intents
      PROVE  ChangesFollowDeclaration'
  <2> SUFFICES ASSUME NEW i \in DOMAIN intents, intents'[i].type = "change"
               PROVE  \E j \in 1..i-1 : Declares(j, intents[i].file)'
    BY <1>1, <1>4 DEF ChangesFollowDeclaration, RowKept, Declares
  <2>1. PICK j \in 1..i-1 : Declares(j, intents[i].file)
    BY <1>1 DEF ChangesFollowDeclaration, RowKept
  <2>2. j \in DOMAIN intents
    BY <1>0
  <2>3. intents'[i].file = intents[i].file
    BY <1>1 DEF RowKept
  <2> QED BY <1>1, <2>1, <2>2, <2>3 DEF RowKept, Declares
<1>5. ASSUME NEW w \in Writers, UNCHANGED <<intents, registry>>, Knows(w)',
             \A v \in Writers \ {w} : wpc'[v] = wpc[v] /\ draft'[v] = draft[v]
      PROVE  SessionsKnow'
  BY <1>5 DEF SessionsKnow, Knows, Declares
<1>6. ASSUME UNCHANGED <<wpc, draft, registry>>
      PROVE  SessionsKnow'
  BY <1>6, <1>2 DEF SessionsKnow, Knows
<1>7. ASSUME NEW w \in Writers, SaveRegistry(w)
      PROVE  DeclarationInv'
  <2>1. RegisteredFilesDeclared'
    BY <1>7 DEF SaveRegistry, UpsertFileRegistry, RegisteredFilesDeclared,
                SessionsKnow, Knows, Declares
  <2>2. SessionsKnow'
    BY <1>0, <1>7 DEF SaveRegistry, UpsertFileRegistry, SessionsKnow, Knows,
                      TypeOK, Declares
  <2> QED BY <1>4, <1>7, <2>1, <2>2 DEF SaveRegistry
<1>8. ASSUME NEW w \in Writers, SaveIntent(w)
      PROVE  DeclarationInv'
  <2>0. PICK n \in Nat : n = Len(intents) + 1
    BY <1>0
  <2>1. /\ DOMAIN intents' = 1..n
        /\ intents'[n] = draft[w]
        /\ \A i \in DOMAIN intents : intents'[i] = intents[i]
    BY <1>0, <1>8, <2>0 DEF SaveIntent, InsertIntent, TypeOK, StoreTypeOK
  <2>2. SessionsKnow'
    <3> SUFFICES ASSUME NEW v \in Writers
                 PROVE  Knows(v)'
      BY DEF SessionsKnow
    <3>1. CASE v # w
      BY <1>0, <1>2, <1>8, <3>1 DEF SaveIntent, SessionsKnow, Knows, TypeOK
    <3>2. CASE v = w /\ draft[w].type = "new_file"
      <4>1. wpc'[w] = "declared" /\ draft' = draft
        BY <1>0, <1>8, <3>2 DEF SaveIntent, TypeOK
      <4>2. Declares(n, draft[w].file)'
        BY <2>1, <3>2, <4>1 DEF Declares
      <4>3. n \in DOMAIN intents'
        BY <1>0, <2>0, <2>1
      <4> QED BY <3>2, <4>1, <4>2, <4>3 DEF Knows
    <3>3. CASE v = w /\ draft[w].type # "new_file"
      BY <1>0, <1>8, <3>3 DEF SaveIntent, TypeOK, Knows
    <3> QED BY <3>1, <3>2, <3>3
  <2>3. ChangesFollowDeclaration'
    <3> SUFFICES ASSUME NEW i \in 1..n, intents'[i].type = "change"
                 PROVE  \E j \in 1..i-1 : Declares(j, intents[i].file)'
      BY <2>1 DEF ChangesFollowDeclaration, Declares
    <3>1. CASE i \in DOMAIN intents
      <4>1. PICK j \in 1..i-1 : Declares(j, intents[i].file)
        BY <2>1, <3>1 DEF ChangesFollowDeclaration
      <4> QED BY <1>0, <2>0, <2>1, <3>1, <4>1 DEF Declares
    <3>2. CASE i = n
      <4>1. draft[w].file \in registry
        BY <1>8, <2>1, <3>2 DEF SaveIntent, SessionsKnow, Knows, TypeOK, Row, NoteTypes
      <4>2. PICK j \in DOMAIN intents : Declares(j, draft[w].file)
        BY <4>1 DEF RegisteredFilesDeclared
      <4> QED BY <1>0, <2>0, <2>1, <3>2, <4>2 DEF Declares
    <3> QED BY <1>0, <2>0, <3>1, <3>2
  <2> QED BY <1>3, <1>8, <2>2, <2>3 DEF SaveIntent
<1>9. ASSUME UNCHANGED <<intents, registry>>, SessionsKnow'
      PROVE  DeclarationInv'
  BY <1>3, <1>4, <1>9
<1>10. ASSUME NEW t \in Terminals, LinkCommitHash(t)
       PROVE  DeclarationInv'
  <2>1. DOMAIN intents' = DOMAIN intents
    BY <1>10, LinkUpdate DEF LinkCommitHash, TypeOK
  <2> QED BY <1>3, <1>4, <1>6, <1>10, <2>1 DEF LinkCommitHash, writerVars
<1>11. ASSUME NEW w \in Writers, NEW f \in Files, CheckRegistry(w, f)
       PROVE  DeclarationInv'
  <2>1. /\ draft'[w].file = f
        /\ draft'[w].type = "change" => f \in registry
    BY <1>0, <1>11 DEF CheckRegistry, TypeOK, Row, GetFileRegistry
  <2>2. wpc'[w] = "asking"
    BY <1>0, <1>11 DEF CheckRegistry, TypeOK
  <2>3. Knows(w)' /\ UNCHANGED <<intents, registry>>
    BY <1>11, <2>1, <2>2 DEF Knows, CheckRegistry, storeVars
  <2>4. \A v \in Writers \ {w} : wpc'[v] = wpc[v] /\ draft'[v] = draft[v]
    BY <1>0, <1>11 DEF CheckRegistry, TypeOK
  <2> QED BY <1>5, <1>9, <2>3, <2>4
<1>12. ASSUME NEW w \in Writers, BuildIntent(w) \/ Abandon(w)
       PROVE  DeclarationInv'
  <2>1. UNCHANGED <<intents, registry>>
    BY <1>12 DEF BuildIntent, Abandon, storeVars
  <2>2. Knows(w)'
    <3>1. CASE BuildIntent(w)
      <4>1. /\ draft'[w].file = draft[w].file
            /\ draft'[w].type = draft[w].type
            /\ wpc'[w] = "built" /\ wpc[w] = "asking"
        BY <1>0, <3>1 DEF BuildIntent, TypeOK, Row
      <4> QED BY <2>1, <4>1 DEF SessionsKnow, Knows
    <3>2. CASE Abandon(w)
      BY <1>0, <3>2 DEF Abandon, Knows, TypeOK
    <3> QED BY <1>12, <3>1, <3>2
  <2>3. \A v \in Writers \ {w} : wpc'[v] = wpc[v] /\ draft'[v] = draft[v]
    BY <1>0, <1>12 DEF BuildIntent, Abandon, TypeOK
  <2> QED BY <1>5, <1>9, <2>1, <2>2, <2>3
<1>13. CASE UNCHANGED <<intents, registry, wpc, draft>>
  BY <1>6, <1>9, <1>13
<1>14. \/ \E w \in Writers : \/ \E f \in Files : CheckRegistry(w, f)
                             \/ BuildIntent(w) \/ Abandon(w)
                             \/ SaveIntent(w) \/ SaveRegistry(w)
       \/ \E t \in Terminals : LinkCommitHash(t)
       \/ UNCHANGED <<intents, registry, wpc, draft>>
  BY DEF Next, WriterStep, GitStep, LoopStep, GitCommit, RevParse, HookGivesUp,
         ModelDownloaded, ListPending, EmbedBatch, EmbedBatchFails,
         StoreEmbedding, StoreEmbeddingFails, FinishBatch, DaemonRestarts,
         storeVars, writerVars, vars
<1> QED BY <1>7, <1>8, <1>10, <1>11, <1>12, <1>13, <1>14

\* The registry never runs ahead of the notes, and no change note precedes the
\* declaration of its file.
THEOREM DeclarationsCorrect ==
  Spec => [](RegisteredFilesDeclared /\ ChangesFollowDeclaration)
<1>1. Init => DeclarationInv
  BY DEF Init, StoreInit, PipelineInit, DeclarationInv, SessionsKnow,
         Knows, RegisteredFilesDeclared, ChangesFollowDeclaration
<1>2. DeclarationInv => RegisteredFilesDeclared /\ ChangesFollowDeclaration
  BY DEF DeclarationInv
<1> QED BY <1>1, <1>2, InitTypeOK, StepTypeOK, StepDeclarations, PTL DEF Spec

\* saveNewFileNote registers a file only after its declaration is in the table,
\* so a crash between the two leaves a declared file and never the opposite.
THEOREM RegistryCorrect == Spec => []RegisteredFilesDeclared
<1> QED BY DeclarationsCorrect, PTL
-----------------------------------------------------------------------------
(* Links *)

\* Hooks run only after a commit and pass the hash of a commit; notes are
\* saved unlinked.
HooksKnow ==
  /\ \A w \in Writers : Uncommitted(draft[w])
  /\ \A t \in Terminals : hpc[t] # "idle" => head >= 1
  /\ \A t \in Terminals : hpc[t] = "link" => hash[t] \in 1..head

LinkInv == HooksKnow /\ NoNoteLeftBehind

LEMMA StepHooks == IndTypeOK /\ HooksKnow /\ [Next]_vars => HooksKnow'
<1> SUFFICES ASSUME IndTypeOK, HooksKnow, [Next]_vars PROVE HooksKnow'
  OBVIOUS
<1> USE DEF IndTypeOK, TypeOK, HooksKnow
<1>1. ASSUME NEW w \in Writers, UNCHANGED gitVars, Uncommitted(draft[w])',
             \A v \in Writers \ {w} : draft'[v] = draft[v]
      PROVE  HooksKnow'
  BY <1>1 DEF gitVars, Uncommitted
<1>2. ASSUME NEW w \in Writers, WriterStep(w)
      PROVE  HooksKnow'
  <2>1. UNCHANGED gitVars
    BY <1>2 DEF WriterStep, CheckRegistry, BuildIntent, SaveIntent,
                SaveRegistry, Abandon
  <2>2. \A v \in Writers \ {w} : draft'[v] = draft[v]
    BY <1>2 DEF WriterStep, CheckRegistry, BuildIntent, SaveIntent,
                SaveRegistry, Abandon
  <2>3. Uncommitted(NoDraft)
    BY DEF Uncommitted, NoDraft
  <2>4. Uncommitted(draft[w])'
    <3>1. CASE \E f \in Files : CheckRegistry(w, f)
      BY <3>1 DEF CheckRegistry, Uncommitted, Row
    <3>2. CASE BuildIntent(w)
      BY <3>2 DEF BuildIntent, Uncommitted, Row
    <3>3. CASE SaveIntent(w) \/ SaveRegistry(w) \/ Abandon(w)
      BY <2>3, <3>3 DEF SaveIntent, SaveRegistry, Abandon, Uncommitted
    <3> QED BY <1>2, <3>1, <3>2, <3>3 DEF WriterStep
  <2> QED BY <1>1, <2>1, <2>2, <2>4
<1>3. ASSUME NEW t \in Terminals, GitStep(t)
      PROVE  HooksKnow'
  <2>1. UNCHANGED draft
    BY <1>3 DEF GitStep, GitCommit, RevParse, LinkCommitHash, HookGivesUp,
                writerVars
  <2>2. CASE GitCommit(t)
    BY <2>1, <2>2 DEF GitCommit, Uncommitted
  <2>3. CASE RevParse(t)
    BY <2>1, <2>3 DEF RevParse, Uncommitted
  <2>4. CASE LinkCommitHash(t) \/ HookGivesUp(t)
    BY <2>1, <2>4 DEF LinkCommitHash, HookGivesUp, Uncommitted
  <2> QED BY <1>3, <2>2, <2>3, <2>4 DEF GitStep
<1>4. CASE UNCHANGED <<writerVars, gitVars>>
  BY <1>4 DEF writerVars, gitVars, Uncommitted
<1>5. \/ \E w \in Writers : WriterStep(w)
      \/ \E t \in Terminals : GitStep(t)
      \/ UNCHANGED <<writerVars, gitVars>>
  BY DEF Next, LoopStep, ModelDownloaded, ListPending, EmbedBatch,
         EmbedBatchFails, StoreEmbedding, StoreEmbeddingFails, FinishBatch,
         DaemonRestarts, vars
<1> QED BY <1>2, <1>3, <1>4, <1>5

LEMMA RowsTyped ==
  ASSUME StoreTypeOK
  PROVE  /\ DOMAIN intents = 1..Len(intents)
         /\ Len(intents) \in Nat
         /\ \A i \in DOMAIN intents : intents[i].commit \in Nat
<1>1. \A i \in DOMAIN intents : intents[i] \in Row
  BY DEF StoreTypeOK
<1>2. \A r \in Row : r.commit \in Nat
  BY DEF Row
<1> QED BY <1>1, <1>2 DEF StoreTypeOK

\* How the table of notes can change: a note without a commit is appended, or
\* every note without one is linked to a commit that exists.
Appended == \E r \in Row : Uncommitted(r) /\ intents' = Append(intents, r)
Linked   == \E t \in Terminals : /\ hpc[t] = "link"
                                 /\ UpdateUncommittedIntents(hash[t])

LEMMA IntentsChange ==
  ASSUME IndTypeOK, HooksKnow, [Next]_vars
  PROVE  Appended \/ Linked \/ UNCHANGED intents
<1>1. ASSUME NEW w \in Writers, SaveIntent(w)
      PROVE  Appended
  BY <1>1 DEF SaveIntent, InsertIntent, Appended, HooksKnow, IndTypeOK, TypeOK
<1>2. ASSUME NEW t \in Terminals, LinkCommitHash(t)
      PROVE  Linked
  BY <1>2 DEF LinkCommitHash, Linked
<1> QED
  BY <1>1, <1>2
  DEF Next, WriterStep, GitStep, LoopStep, CheckRegistry, BuildIntent,
      SaveRegistry, Abandon, GitCommit, RevParse, HookGivesUp,
      ModelDownloaded, ListPending, EmbedBatch, EmbedBatchFails,
      StoreEmbedding, StoreEmbeddingFails, FinishBatch, DaemonRestarts,
      storeVars, vars

LEMMA StepNoNoteLeftBehind ==
  IndTypeOK /\ LinkInv /\ [Next]_vars => NoNoteLeftBehind'
<1> SUFFICES ASSUME IndTypeOK, LinkInv, [Next]_vars PROVE NoNoteLeftBehind'
  OBVIOUS
<1>0. /\ StoreTypeOK /\ DOMAIN intents = 1..Len(intents)
      /\ Len(intents) \in Nat /\ intents \in Seq(Row)
  BY DEF IndTypeOK, TypeOK, StoreTypeOK
<1>1. CASE Appended
  <2>1. PICK r \in Row : Uncommitted(r) /\ intents' = Append(intents, r)
    BY <1>1 DEF Appended
  <2>2. \A i \in DOMAIN intents' :
          \/ i \in DOMAIN intents /\ intents'[i] = intents[i]
          \/ Uncommitted(intents'[i])
    BY <1>0, <2>1
  <2>3. SUFFICES ASSUME NEW j \in DOMAIN intents', NEW i \in 1..j,
                        Uncommitted(intents'[i]), ~Uncommitted(intents'[j])
                 PROVE  FALSE
    BY DEF NoNoteLeftBehind, Uncommitted
  <2>4. j \in DOMAIN intents /\ intents'[j] = intents[j]
    BY <2>2, <2>3
  <2>5. i \in DOMAIN intents /\ intents'[i] = intents[i]
    BY <1>0, <2>1, <2>4
  <2> QED BY <2>3, <2>4, <2>5 DEF LinkInv, NoNoteLeftBehind
<1>2. CASE Linked
  <2>1. PICK t \in Terminals : hash[t] \in Nat /\ hash[t] # 0
                               /\ UpdateUncommittedIntents(hash[t])
    <3>1. PICK t \in Terminals : /\ hpc[t] = "link"
                                 /\ UpdateUncommittedIntents(hash[t])
      BY <1>2 DEF Linked
    <3>2. head \in Nat /\ hash[t] \in 1..head
      BY <3>1 DEF LinkInv, HooksKnow, IndTypeOK, TypeOK
    <3> QED BY <3>1, <3>2
  <2>2. DOMAIN intents' = DOMAIN intents
    BY <1>0, <2>1, LinkUpdate
  <2>3. \A i \in DOMAIN intents : ~Uncommitted(intents'[i])
    BY <1>0, <2>1, LinkUpdate DEF Uncommitted, NoCommit
  <2> QED BY <1>0, <2>2, <2>3 DEF NoNoteLeftBehind, Uncommitted
<1>3. CASE UNCHANGED intents
  BY <1>3 DEF LinkInv, NoNoteLeftBehind, Uncommitted
<1> QED BY <1>1, <1>2, <1>3, IntentsChange DEF LinkInv

LEMMA InitLinks == Init => LinkInv
  BY DEF Init, StoreInit, PipelineInit, LinkInv, HooksKnow, NoNoteLeftBehind,
         Uncommitted, NoDraft

\* No hook, however late, links a note and leaves an older one unlinked.
THEOREM NoneLeftBehind == Spec => []NoNoteLeftBehind
<1>1. IndTypeOK /\ LinkInv /\ [Next]_vars => LinkInv'
  BY StepHooks, StepNoNoteLeftBehind DEF LinkInv
<1>2. LinkInv => NoNoteLeftBehind
  BY DEF LinkInv
<1> QED BY <1>1, <1>2, InitLinks, InitTypeOK, StepTypeOK, PTL DEF Spec
-----------------------------------------------------------------------------
(* Notes follow the order of commits, when commits are serial *)

\* No note is linked to a commit that does not exist yet, and a hook that is
\* about to link holds the hash of HEAD: no other commit could be made since.
HooksCurrent ==
  /\ \A i \in DOMAIN intents : intents[i].commit <= head
  /\ \A t \in Terminals : hpc[t] = "link" => hash[t] = head

OrderInv == HooksCurrent /\ NotesFollowCommitOrder

LEMMA StepHooksCurrent ==
  SerialCommits /\ IndTypeOK /\ LinkInv /\ HooksCurrent /\ [Next]_vars
    => HooksCurrent'
<1> SUFFICES ASSUME SerialCommits, IndTypeOK, LinkInv, HooksCurrent, [Next]_vars
             PROVE  HooksCurrent'
  OBVIOUS
<1> USE DEF IndTypeOK, TypeOK
<1>0. /\ DOMAIN intents = 1..Len(intents) /\ Len(intents) \in Nat
      /\ \A i \in DOMAIN intents : intents[i].commit \in Nat
  BY RowsTyped
<1>1. head' \in Nat /\ head <= head'
  <2>1. head \in Nat
    OBVIOUS
  <2>2. head' = head \/ head' = head + 1
    BY DEF Next, WriterStep, GitStep, LoopStep, CheckRegistry, BuildIntent,
         SaveIntent, SaveRegistry, Abandon, GitCommit, RevParse,
         LinkCommitHash, HookGivesUp, ModelDownloaded, ListPending, EmbedBatch,
         EmbedBatchFails, StoreEmbedding, StoreEmbeddingFails, FinishBatch,
         DaemonRestarts, gitVars, vars
  <2> QED BY <2>1, <2>2
<1>2. \A i \in DOMAIN intents' : intents'[i].commit <= head'
  <2>1. CASE Appended
    BY <1>0, <1>1, <2>1 DEF Appended, Uncommitted, NoCommit, HooksCurrent,
                            StoreTypeOK, Row
  <2>2. CASE Linked
    <3>1. PICK t \in Terminals : hash[t] = head
                                 /\ UpdateUncommittedIntents(hash[t])
      BY <2>2 DEF Linked, HooksCurrent
    <3>2. DOMAIN intents' = DOMAIN intents
      BY <3>1, LinkUpdate
    <3>3. \A i \in DOMAIN intents :
            intents'[i].commit = head \/ intents'[i].commit = intents[i].commit
      BY <3>1, LinkUpdate
    <3>4. ASSUME NEW i \in DOMAIN intents
          PROVE  intents'[i].commit <= head'
      <4>1. /\ intents[i].commit \in Nat /\ intents[i].commit <= head
            /\ head \in Nat /\ head' \in Nat /\ head <= head'
        BY <1>0, <1>1 DEF HooksCurrent
      <4>2. CASE intents'[i].commit = head
        BY <4>1, <4>2
      <4>3. CASE intents'[i].commit = intents[i].commit
        BY <4>1, <4>3
      <4> QED BY <3>3, <4>2, <4>3
    <3> QED BY <3>2, <3>4
  <2>3. CASE UNCHANGED intents
    BY <1>0, <1>1, <2>3 DEF HooksCurrent
  <2> QED BY <2>1, <2>2, <2>3, IntentsChange DEF LinkInv
<1>3. \A t \in Terminals : hpc'[t] = "link" => hash'[t] = head'
  <2>1. ASSUME NEW t \in Terminals, GitCommit(t)
        PROVE  \A s \in Terminals : hpc'[s] = "link" => hash'[s] = head'
    BY <2>1 DEF GitCommit, SerialCommits
  <2>2. ASSUME NEW t \in Terminals, RevParse(t)
        PROVE  \A s \in Terminals : hpc'[s] = "link" => hash'[s] = head'
    BY <2>2 DEF RevParse, HooksCurrent
  <2>3. ASSUME NEW t \in Terminals, LinkCommitHash(t) \/ HookGivesUp(t)
        PROVE  \A s \in Terminals : hpc'[s] = "link" => hash'[s] = head'
    BY <2>3 DEF LinkCommitHash, HookGivesUp, HooksCurrent
  <2>4. CASE UNCHANGED gitVars
    BY <2>4 DEF gitVars, HooksCurrent
  <2>5. UNCHANGED gitVars \/ \E t \in Terminals : GitStep(t)
    BY DEF Next, WriterStep, LoopStep, CheckRegistry, BuildIntent, SaveIntent,
           SaveRegistry, Abandon, ModelDownloaded, ListPending, EmbedBatch,
           EmbedBatchFails, StoreEmbedding, StoreEmbeddingFails, FinishBatch,
           DaemonRestarts, vars
  <2> QED BY <2>1, <2>2, <2>3, <2>4, <2>5 DEF GitStep
<1> QED BY <1>2, <1>3 DEF HooksCurrent

LEMMA StepOrder ==
  SerialCommits /\ IndTypeOK /\ LinkInv /\ OrderInv /\ [Next]_vars
    => NotesFollowCommitOrder'
<1> SUFFICES ASSUME SerialCommits, IndTypeOK, LinkInv, OrderInv, [Next]_vars,
                    NEW i \in DOMAIN intents', NEW j \in DOMAIN intents',
                    i < j, ~Uncommitted(intents'[j])
             PROVE  intents'[i].commit <= intents'[j].commit
  BY DEF NotesFollowCommitOrder, Uncommitted
<1>0. /\ StoreTypeOK /\ intents \in Seq(Row)
      /\ DOMAIN intents = 1..Len(intents) /\ Len(intents) \in Nat
      /\ \A k \in DOMAIN intents : intents[k].commit \in Nat
  BY RowsTyped DEF IndTypeOK, TypeOK, StoreTypeOK
<1>1. CASE Appended
  <2>1. PICK r \in Row : Uncommitted(r) /\ intents' = Append(intents, r)
    BY <1>1 DEF Appended
  <2>2. j \in DOMAIN intents /\ intents'[j] = intents[j]
    BY <1>0, <2>1
  <2>3. i \in DOMAIN intents /\ intents'[i] = intents[i]
    BY <1>0, <2>1, <2>2
  <2> QED BY <2>2, <2>3 DEF OrderInv, NotesFollowCommitOrder
<1>2. CASE Linked
  <2>1. PICK t \in Terminals : hash[t] = head
                               /\ UpdateUncommittedIntents(hash[t])
    BY <1>2 DEF Linked, OrderInv, HooksCurrent
  <2>2. head \in Nat
    BY DEF IndTypeOK, TypeOK
  <2>3. DOMAIN intents' = DOMAIN intents
    BY <1>0, <2>1, <2>2, LinkUpdate
  <2>4. \A k \in DOMAIN intents :
          intents'[k].commit = IF Uncommitted(intents[k])
                               THEN head ELSE intents[k].commit
    BY <1>0, <2>1, <2>2, LinkUpdate
  <2>5. intents[i].commit <= head
    BY <2>3 DEF OrderInv, HooksCurrent
  <2>6. CASE Uncommitted(intents[j])
    BY <1>0, <2>2, <2>3, <2>4, <2>5, <2>6
  <2>7. CASE ~Uncommitted(intents[j])
    <3>1. ~Uncommitted(intents[i])
      BY <1>0, <2>3, <2>7 DEF LinkInv, NoNoteLeftBehind
    <3> QED BY <2>3, <2>4, <2>7, <3>1 DEF OrderInv, NotesFollowCommitOrder
  <2> QED BY <2>6, <2>7
<1>3. CASE UNCHANGED intents
  BY <1>3 DEF OrderInv, NotesFollowCommitOrder, Uncommitted
<1> QED BY <1>1, <1>2, <1>3, IntentsChange DEF LinkInv

\* Notes are attributed to commits in the order in which they were saved.  The
\* hypothesis is needed: with two terminals a delayed hook may link a later
\* note to an older commit.
THEOREM OrderCorrect == SerialCommits => (Spec => []NotesFollowCommitOrder)
<1>1. Init => OrderInv
  BY DEF Init, StoreInit, PipelineInit, OrderInv, HooksCurrent,
         NotesFollowCommitOrder
<1>2. IndTypeOK /\ LinkInv /\ [Next]_vars => LinkInv'
  BY StepHooks, StepNoNoteLeftBehind DEF LinkInv
<1>3. ASSUME SerialCommits
      PROVE  IndTypeOK /\ LinkInv /\ OrderInv /\ [Next]_vars => OrderInv'
  BY <1>3, StepHooksCurrent, StepOrder DEF OrderInv
<1>4. OrderInv => NotesFollowCommitOrder
  BY DEF OrderInv
<1>5. ASSUME SerialCommits PROVE Spec => []NotesFollowCommitOrder
  BY <1>1, <1>2, <1>3, <1>4, <1>5, InitLinks, InitTypeOK, StepTypeOK, PTL
     DEF Spec
<1> QED BY <1>5
-----------------------------------------------------------------------------
(* Refinement of NoteLifecycle *)

LEMMA FunctionIsSequence ==
  ASSUME NEW S, NEW n \in Nat, NEW f \in [1..n -> S]
  PROVE  f \in Seq(S) /\ Len(f) = n
  OBVIOUS

Notes == [i \in DOMAIN intents |-> intents[i].commit]

LEMMA InitLifecycle == Init => Lifecycle!Init
<1> SUFFICES ASSUME Init PROVE Lifecycle!Init
  OBVIOUS
<1>1. intents = <<>> /\ DOMAIN embeddings = {} /\ head = 0
  BY DEF Init, StoreInit, PipelineInit, NoCommit
<1>2. Notes = <<>>
  BY <1>1 DEF Notes
<1> QED BY <1>1, <1>2 DEF Lifecycle!Init, Notes

LEMMA StepLifecycle ==
  IndTypeOK /\ LinkInv /\ [Next]_vars => [Lifecycle!Next]_(Lifecycle!vars)
<1> SUFFICES ASSUME IndTypeOK, LinkInv, [Next]_vars
             PROVE  Lifecycle!Next \/ UNCHANGED Lifecycle!vars
  OBVIOUS
<1> USE DEF IndTypeOK, TypeOK
<1>0. /\ intents \in Seq(Row) /\ DOMAIN intents = 1..Len(intents)
      /\ Len(intents) \in Nat
  BY RowsTyped DEF StoreTypeOK
<1>1. ASSUME NEW w \in Writers, SaveIntent(w)
      PROVE  Lifecycle!Capture
  <2>1. draft[w] \in Row /\ draft[w].commit = 0 /\ intents' = Append(intents, draft[w])
    BY <1>1 DEF SaveIntent, InsertIntent, LinkInv, HooksKnow, Uncommitted,
                NoCommit
  <2>2. DOMAIN intents' = 1..Len(intents) + 1
    BY <1>0, <2>1
  <2>3. \A i \in DOMAIN intents' :
          intents'[i] = IF i = Len(intents) + 1 THEN draft[w] ELSE intents[i]
    BY <1>0, <2>1
  <2>4. Notes \in Seq(Nat) /\ Len(Notes) = Len(intents)
    <3>1. Notes \in [1..Len(intents) -> Nat]
      BY <1>0, RowsTyped DEF Notes
    <3> QED BY <1>0, <3>1, FunctionIsSequence
  <2>5. \A i \in 1..Len(intents) + 1 :
          Notes'[i] = IF i = Len(intents) + 1 THEN 0 ELSE Notes[i]
    BY <1>0, <2>1, <2>2, <2>3 DEF Notes
  <2>6. Notes' = Append(Notes, 0)
    <3>1. /\ Append(Notes, 0) \in Seq(Nat)
          /\ Len(Append(Notes, 0)) = Len(intents) + 1
          /\ \A i \in 1..Len(intents) + 1 :
               Append(Notes, 0)[i] = IF i = Len(intents) + 1 THEN 0 ELSE Notes[i]
      BY <1>0, <2>4
    <3>2. /\ Notes' = [i \in 1..Len(intents) + 1 |-> Notes'[i]]
          /\ Append(Notes, 0) =
               [i \in 1..Len(intents) + 1 |-> Append(Notes, 0)[i]]
      BY <2>2, <3>1 DEF Notes
    <3> QED BY <2>5, <3>1, <3>2
  <2> QED BY <1>1, <2>6 DEF SaveIntent, gitVars, Lifecycle!Capture, Notes
<1>2. ASSUME NEW t \in Terminals, LinkCommitHash(t)
      PROVE  Lifecycle!LinkAll(hash[t]) /\ hash[t] \in 1..head
  <2>1. hash[t] \in 1..head /\ hash[t] \in Nat /\ UpdateUncommittedIntents(hash[t])
    BY <1>2 DEF LinkCommitHash, LinkInv, HooksKnow
  <2>2. DOMAIN intents' = DOMAIN intents
    BY <2>1, LinkUpdate
  <2>3. \A i \in DOMAIN intents :
          intents'[i].commit = IF intents[i].commit = 0
                               THEN hash[t] ELSE intents[i].commit
    BY <2>1, LinkUpdate DEF Uncommitted, NoCommit
  <2>4. Notes' = [i \in DOMAIN Notes |->
                    IF Notes[i] = 0 THEN hash[t] ELSE Notes[i]]
    BY <2>2, <2>3 DEF Notes
  <2> QED BY <1>2, <2>1, <2>4
          DEF LinkCommitHash, Lifecycle!LinkAll, Notes
<1>3. ASSUME NEW t \in Terminals, GitCommit(t)
      PROVE  Lifecycle!Commit
  BY <1>3 DEF GitCommit, storeVars, Lifecycle!Commit
<1>4. ASSUME NEW d \in Daemons, StoreEmbedding(d)
      PROVE  \E i \in DOMAIN intents : Lifecycle!Index(i)
  <2>1. next[d] \in 1..Len(batch[d])
    BY <1>4 DEF StoreEmbedding
  <2>2. batch[d][next[d]] \in DOMAIN intents
    BY <2>1 DEF BatchShape
  <2>3. DOMAIN embeddings' = DOMAIN embeddings \cup {batch[d][next[d]]}
    BY <1>4 DEF StoreEmbedding, InsertEmbedding
  <2>4. UNCHANGED <<intents, head>>
    BY <1>4 DEF StoreEmbedding, gitVars
  <2> QED BY <2>2, <2>3, <2>4 DEF Lifecycle!Index
<1>5. CASE UNCHANGED <<intents, embeddings, head>>
  BY <1>5 DEF Lifecycle!vars
<1>6. \/ \E w \in Writers : SaveIntent(w)
      \/ \E t \in Terminals : LinkCommitHash(t) \/ GitCommit(t)
      \/ \E d \in Daemons : StoreEmbedding(d)
      \/ UNCHANGED <<intents, embeddings, head>>
  BY DEF Next, WriterStep, GitStep, LoopStep, CheckRegistry, BuildIntent,
         SaveRegistry, Abandon, RevParse, HookGivesUp, ModelDownloaded,
         ListPending, EmbedBatch, EmbedBatchFails, StoreEmbeddingFails,
         FinishBatch, DaemonRestarts, storeVars, gitVars, vars
<1>7. ASSUME NEW t \in Terminals, LinkCommitHash(t)
      PROVE  Lifecycle!Next
  <2>1. \E c \in 1..head : Lifecycle!LinkAll(c)
    BY <1>2, <1>7 DEF Lifecycle!LinkAll
  <2> QED BY <2>1 DEF Lifecycle!Next
<1>8. ASSUME NEW d \in Daemons, StoreEmbedding(d)
      PROVE  Lifecycle!Next
  <2>1. DOMAIN Notes = DOMAIN intents
    BY DEF Notes
  <2> QED BY <1>4, <1>8, <2>1 DEF Lifecycle!Next, Notes
<1>9. Lifecycle!Capture \/ Lifecycle!Commit => Lifecycle!Next
  BY DEF Lifecycle!Next
<1> QED BY <1>1, <1>3, <1>5, <1>6, <1>7, <1>8, <1>9

\* Whatever the sessions, hooks and daemons do, a saved note lives as
\* NoteLifecycle says.
THEOREM LifecycleCorrect == Spec => ImplementsLifecycle
<1>1. IndTypeOK /\ LinkInv /\ [Next]_vars => LinkInv'
  BY StepHooks, StepNoNoteLeftBehind DEF LinkInv
<1> QED BY <1>1, InitLinks, InitTypeOK, StepTypeOK, InitLifecycle, StepLifecycle,
           PTL DEF Spec, Lifecycle!Spec, ImplementsLifecycle
-----------------------------------------------------------------------------
(* Declarations of a registered file *)

\* The two halves of Declarations(f): rows, and sessions about to write one.
Saved(f) == {i \in DOMAIN intents : Declares(i, f)}
Pending(f) == {w \in Writers : /\ wpc[w] \in {"asking", "built"}
                               /\ draft[w].type = "new_file"
                               /\ draft[w].file = f}

\* Writers may be an infinite set: only finitely many of them are at work.
FewAtWork == IsFiniteSet({w \in Writers : wpc[w] # "idle"})

LEMMA StepFewAtWork == IndTypeOK /\ FewAtWork /\ [Next]_vars => FewAtWork'
<1> SUFFICES ASSUME IndTypeOK, FewAtWork, [Next]_vars PROVE FewAtWork'
  OBVIOUS
<1> DEFINE AtWork == {w \in Writers : wpc[w] # "idle"}
<1>1. wpc \in [Writers -> {"idle", "asking", "built", "declared"}]
  BY DEF IndTypeOK, TypeOK
<1>2. \/ \E w \in Writers : WriterStep(w)
      \/ UNCHANGED wpc
  BY DEF Next, GitStep, LoopStep, GitCommit, RevParse, LinkCommitHash,
         HookGivesUp, ModelDownloaded, ListPending, EmbedBatch, EmbedBatchFails,
         StoreEmbedding, StoreEmbeddingFails, FinishBatch, DaemonRestarts,
         writerVars, vars
<1>3. \/ \E w \in Writers : AtWork' \subseteq AtWork \cup {w}
      \/ AtWork' = AtWork
  BY <1>1, <1>2 DEF WriterStep, CheckRegistry, BuildIntent, SaveIntent,
                    SaveRegistry, Abandon
<1>4. ASSUME NEW w \in Writers, AtWork' \subseteq AtWork \cup {w}
      PROVE  IsFiniteSet(AtWork')
  <2>1. IsFiniteSet(AtWork \cup {w})
    BY FS_AddElement DEF FewAtWork
  <2> QED BY <1>4, <2>1, FS_Subset
<1> QED BY <1>3, <1>4 DEF FewAtWork

\* Both halves are finite, so Declarations counts them.
LEMMA HalvesFinite ==
  ASSUME StoreTypeOK, FewAtWork, NEW f
  PROVE  /\ IsFiniteSet(Saved(f)) /\ Cardinality(Saved(f)) \in Nat
         /\ IsFiniteSet(Pending(f)) /\ Cardinality(Pending(f)) \in Nat
         /\ Declarations(f) = Cardinality(Saved(f)) + Cardinality(Pending(f))
<1>1. DOMAIN intents = 1..Len(intents) /\ Len(intents) \in Nat
  BY DEF StoreTypeOK
<1>2. IsFiniteSet(DOMAIN intents)
  BY <1>1, FS_Interval
<1>3. IsFiniteSet(Saved(f))
  BY <1>2, FS_Subset DEF Saved
<1>4. Pending(f) \subseteq {w \in Writers : wpc[w] # "idle"}
  BY DEF Pending
<1>5. IsFiniteSet(Pending(f))
  BY <1>4, FS_Subset DEF FewAtWork
<1> QED BY <1>3, <1>5, FS_CardinalityType DEF Declarations, Saved, Pending

\* The INSERT of a declaration turns a pending one into a saved one.
LEMMA SaveMovesDeclaration ==
  ASSUME TypeOK, NEW w \in Writers, SaveIntent(w), NEW f
  PROVE  \/ Saved(f)' = Saved(f) /\ Pending(f)' = Pending(f)
         \/ \E n : /\ n \notin Saved(f) /\ Saved(f)' = Saved(f) \cup {n}
                   /\ w \in Pending(f) /\ Pending(f)' = Pending(f) \ {w}
<1>0. PICK n : n = Len(intents) + 1
  OBVIOUS
<1>1. /\ DOMAIN intents = 1..Len(intents) /\ Len(intents) \in Nat
      /\ DOMAIN intents' = 1..n
      /\ \A i \in DOMAIN intents : intents'[i] = intents[i]
      /\ intents'[n] = draft[w]
      /\ n \notin DOMAIN intents
  BY <1>0 DEF SaveIntent, InsertIntent, TypeOK, StoreTypeOK
<1>2. \A i \in DOMAIN intents : Declares(i, f)' <=> Declares(i, f)
  BY <1>1 DEF Declares
<1>3. Declares(n, f)' <=> draft[w].type = "new_file" /\ draft[w].file = f
  BY <1>1 DEF Declares
<1>4. DOMAIN intents' = DOMAIN intents \cup {n}
  BY <1>0, <1>1
<1>5. /\ wpc \in [Writers -> {"idle", "asking", "built", "declared"}]
      /\ draft \in [Writers -> Row]
  BY DEF TypeOK
<1>6. /\ wpc[w] = "built" /\ wpc'[w] \notin {"asking", "built"}
      /\ \A v \in Writers \ {w} : wpc'[v] = wpc[v] /\ draft'[v] = draft[v]
  BY <1>5 DEF SaveIntent
<1>7. Pending(f)' = Pending(f) \ {w}
  BY <1>6 DEF Pending
<1>8. CASE draft[w].type = "new_file" /\ draft[w].file = f
  <2>1. w \in Pending(f)
    BY <1>6, <1>8 DEF Pending
  <2>2. n \notin Saved(f) /\ Saved(f)' = Saved(f) \cup {n}
    BY <1>1, <1>2, <1>3, <1>4, <1>8 DEF Saved
  <2> QED BY <1>7, <2>1, <2>2
<1>9. CASE ~(draft[w].type = "new_file" /\ draft[w].file = f)
  <2>1. w \notin Pending(f)
    BY <1>9 DEF Pending
  <2>2. Saved(f)' = Saved(f)
    BY <1>1, <1>2, <1>3, <1>4, <1>9 DEF Saved
  <2> QED BY <1>7, <2>1, <2>2
<1> QED BY <1>8, <1>9

\* A session that starts on a registered file asks for a change note, and no
\* other step begins a declaration.
LEMMA StepRegistered ==
  ASSUME IndTypeOK, FewAtWork, [Next]_vars, NEW f \in registry
  PROVE  Declarations(f)' <= Declarations(f)
<1>1. FewAtWork' /\ StoreTypeOK' /\ StoreTypeOK /\ TypeOK
  BY StepFewAtWork, StepTypeOK DEF IndTypeOK, TypeOK
<1>2. /\ IsFiniteSet(Saved(f)) /\ Cardinality(Saved(f)) \in Nat
      /\ IsFiniteSet(Pending(f)) /\ Cardinality(Pending(f)) \in Nat
      /\ Declarations(f) = Cardinality(Saved(f)) + Cardinality(Pending(f))
  BY <1>1, HalvesFinite
<1>3. Declarations(f)' = Cardinality(Saved(f)') + Cardinality(Pending(f)')
  BY DEF Declarations, Saved, Pending
<1>4. CASE Saved(f)' = Saved(f) /\ Pending(f)' \subseteq Pending(f)
  <2>1. /\ Cardinality(Pending(f)') \in Nat
        /\ Cardinality(Pending(f)') <= Cardinality(Pending(f))
    BY <1>2, <1>4, FS_Subset, FS_CardinalityType
  <2> QED BY <1>2, <1>3, <1>4, <2>1
<1>5. ASSUME NEW w \in Writers, SaveIntent(w)
      PROVE  Declarations(f)' <= Declarations(f)
  <2>1. CASE Saved(f)' = Saved(f) /\ Pending(f)' = Pending(f)
    BY <1>4, <2>1
  <2>2. CASE \E n : /\ n \notin Saved(f) /\ Saved(f)' = Saved(f) \cup {n}
                    /\ w \in Pending(f) /\ Pending(f)' = Pending(f) \ {w}
    <3> DEFINE S == Saved(f)  T == Saved(f)'
    <3>1. Cardinality(T) = Cardinality(S) + 1
      <4>1. PICK n : n \notin S /\ T = S \cup {n}
        BY <2>2
      <4> HIDE DEF S, T
      <4>2. IsFiniteSet(S)
        BY <1>2 DEF S
      <4>3. QED
        BY <4>1, <4>2, FS_AddElement
    <3>2. Cardinality(Pending(f)') = Cardinality(Pending(f)) - 1
      <4>1. IsFiniteSet(Pending(f)) /\ w \in Pending(f) /\ Pending(f)' = Pending(f) \ {w}
        BY <1>2, <2>2
      <4>2. QED
        BY <4>1, FS_RemoveElement
    <3> QED BY <1>2, <1>3, <3>1, <3>2
  <2> QED BY <1>1, <1>5, <2>1, <2>2, SaveMovesDeclaration
<1>6. /\ wpc \in [Writers -> {"idle", "asking", "built", "declared"}]
      /\ draft \in [Writers -> Row]
  BY <1>1 DEF TypeOK
<1>7. ASSUME NEW w \in Writers, NEW g \in Files, CheckRegistry(w, g)
      PROVE  Pending(f)' = Pending(f)
  <2>1. /\ wpc[w] = "idle" /\ draft'[w].file = g
        /\ draft'[w].type = IF g \in registry THEN "change" ELSE "new_file"
        /\ \A v \in Writers \ {w} : wpc'[v] = wpc[v] /\ draft'[v] = draft[v]
    BY <1>6, <1>7 DEF CheckRegistry, GetFileRegistry, Row
  <2>2. w \notin Pending(f) /\ w \notin Pending(f)'
    BY <2>1 DEF Pending
  <2> QED BY <2>1, <2>2 DEF Pending
<1>8. ASSUME NEW w \in Writers, BuildIntent(w)
      PROVE  Pending(f)' = Pending(f)
  BY <1>6, <1>8 DEF BuildIntent, Pending, Row
<1>9. ASSUME NEW w \in Writers, SaveRegistry(w) \/ Abandon(w)
      PROVE  Pending(f)' \subseteq Pending(f)
  BY <1>6, <1>9 DEF SaveRegistry, Abandon, Pending
<1>10. ASSUME NEW t \in Terminals, LinkCommitHash(t)
       PROVE  Saved(f)' = Saved(f) /\ Pending(f)' = Pending(f)
  <2>1. hash[t] \in Nat /\ UpdateUncommittedIntents(hash[t])
    BY <1>1, <1>10 DEF LinkCommitHash, TypeOK
  <2> QED BY <1>1, <1>10, <2>1, LinkUpdate
          DEF LinkCommitHash, writerVars, Saved, Pending, Declares
<1>11. CASE UNCHANGED <<intents, wpc, draft>>
  BY <1>4, <1>11 DEF Saved, Pending, Declares
<1>12. UNCHANGED intents => Saved(f)' = Saved(f)
  BY DEF Saved, Declares
<1>13. ASSUME NEW w \in Writers, \/ \E g \in Files : CheckRegistry(w, g)
                                 \/ BuildIntent(w)
                                 \/ SaveRegistry(w) \/ Abandon(w)
       PROVE  Declarations(f)' <= Declarations(f)
  <2>1. UNCHANGED intents
    BY <1>13 DEF CheckRegistry, BuildIntent, SaveRegistry, Abandon, storeVars
  <2> QED BY <1>4, <1>7, <1>8, <1>9, <1>12, <1>13, <2>1
<1>14. \/ \E w \in Writers : WriterStep(w)
       \/ \E t \in Terminals : LinkCommitHash(t)
       \/ UNCHANGED <<intents, wpc, draft>>
  BY DEF Next, GitStep, LoopStep, GitCommit, RevParse, HookGivesUp,
         ModelDownloaded, ListPending, EmbedBatch, EmbedBatchFails,
         StoreEmbedding, StoreEmbeddingFails, FinishBatch, DaemonRestarts,
         storeVars, writerVars, vars
<1> QED BY <1>4, <1>5, <1>10, <1>11, <1>13, <1>14 DEF WriterStep

\* Once a file is registered, no session begins another declaration of it,
\* whichever sessions, retries and crashes there are: the registry is read
\* when `synth note' starts, and an entry is never removed.
THEOREM RegistrationFinal == Spec => NoDeclarationAfterRegistration
<1>1. Init => FewAtWork
  <2> SUFFICES ASSUME Init PROVE FewAtWork
    OBVIOUS
  <2>1. {w \in Writers : wpc[w] # "idle"} = {}
    BY DEF Init, PipelineInit
  <2> QED BY <2>1, FS_EmptySet DEF FewAtWork
<1>2. IndTypeOK /\ FewAtWork /\ [Next]_vars =>
        [\A f \in registry : Declarations(f)' <= Declarations(f)]_vars
  BY StepRegistered
<1> QED BY <1>1, <1>2, InitTypeOK, StepTypeOK, StepFewAtWork,
           PTL DEF Spec, NoDeclarationAfterRegistration
=============================================================================
