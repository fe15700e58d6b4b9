SPECIFICATION Spec
CONSTANTS
  Files = {f1, f2}
  Writers = {w1, w2}
  Terminals = {t1, t2}
  Daemons = {}
  BatchSize = 2
  MaxSessions = 3
  MaxCommits = 3
SYMMETRY Symmetry
INVARIANTS
  RegisteredFilesDeclared
  ChangesFollowDeclaration
  NoNoteLeftBehind
PROPERTIES
  NoDeclarationAfterRegistration
  CommitNeverRewritten
\* A bounded run ends when its sessions and commits are used up.
CHECK_DEADLOCK FALSE
