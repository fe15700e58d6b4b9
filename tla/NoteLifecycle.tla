---------------------------- MODULE NoteLifecycle ----------------------------
(***************************************************************************)
(* What the note pipeline promises about a note that was saved: it is kept,*)
(* it is linked to at most one commit, to which every other unlinked note  *)
(* is linked with it, and it is indexed for search at most once.  Nothing  *)
(* here says which process does it or how often it fails.                  *)
(***************************************************************************)
EXTENDS Naturals, Sequences

VARIABLES notes,   \* one entry per saved note: its commit, or 0
          indexed, \* the notes that semantic search can find
          head     \* how many commits there are

vars == <<notes, indexed, head>>

Init == notes = <<>> /\ indexed = {} /\ head = 0

Capture == /\ notes' = Append(notes, 0)
           /\ UNCHANGED <<indexed, head>>

Commit == /\ head' = head + 1
          /\ UNCHANGED <<notes, indexed>>

LinkAll(c) == /\ notes' = [i \in DOMAIN notes |->
                             IF notes[i] = 0 THEN c ELSE notes[i]]
              /\ UNCHANGED <<indexed, head>>

Index(i) == /\ indexed' = indexed \cup {i}
            /\ UNCHANGED <<notes, head>>

Next == \/ Capture
        \/ Commit
        \/ \E c \in 1..head : LinkAll(c)
        \/ \E i \in DOMAIN notes : Index(i)

Spec == Init /\ [][Next]_vars
=============================================================================
