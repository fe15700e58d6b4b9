SPECIFICATION FairSpec
CONSTANTS
  Files = {f1}
  Writers = {w1}
  Terminals = {t1}
  Daemons = {d1}
  BatchSize = 2
  MaxSessions = 3
  MaxCommits = 2
INVARIANTS
  EmbeddingsMatchNotes
  NotesFollowCommitOrder
PROPERTIES
  ImplementsLifecycle
  EveryNoteEmbedded
\* A bounded run ends when its sessions and commits are used up.
CHECK_DEADLOCK FALSE
