----------------------------- MODULE LowContext -----------------------------
(* Low-context detection in one project: the file watcher that counts saves  *)
(* (src/internal/daemon/watcher.go), `synth note`, the scan that the daemon  *)
(* repeats and caches (lowcontext.go, lowcontext_loop.go) and the list that  *)
(* `synth status` shows while the daemon is off (cli/log.go).  Time is the   *)
(* machine's clock in milliseconds, scaled down; fsnotify is external.       *)
EXTENDS Integers, FiniteSets, Sequences, SequencesExt

CONSTANTS Files,
          None,          \* no file, no time
          Threshold,     \* Behavior.LowContextThreshold
          DebounceD,     \* the watcher's debounce window
          MaxTime,       \* bound on the clock
          MaxWrites,     \* bound on the writes of the editor
          MaxNotes,      \* bound on the notes
          MaxRestarts,   \* bound on the daemon's restarts
          MayFail        \* may a statement of the daemon fail?

ASSUME LowContextAssumption ==
    /\ None \notin Files /\ None \notin Int
    /\ Threshold \in Nat \ {0} /\ DebounceD \in Nat \ {0}
    /\ MaxTime \in Nat \ {0} /\ MaxWrites \in Nat /\ MaxNotes \in Nat
    /\ MaxRestarts \in Nat /\ MayFail \in BOOLEAN

VARIABLES clock,
          saves,       \* table file_saves, in the order of the inserts
          notes,       \* table intents: file and timestamp of each note
          cache,       \* daemon_state "low_context_files", None before the first scan
          drafts,      \* notes whose timestamp is taken and that are not inserted yet
          up,          \* is the daemon running?
          restarts,
          writes,      \* writes of the editor so far
          events,      \* fsWatcher.Events
          debounce,    \* Watcher.debounce: time of the last accepted event of a file
          handling,    \* the file whose save handleEvent is about to record
          scan,        \* where the low-context loop is
          counts,      \* what its first query returned
          results      \* the files it is about to cache

tables == <<saves, notes, cache>>
watcher == <<events, debounce, handling>>
loop == <<scan, counts, results>>
daemon == <<up, restarts>>
vars == <<clock, tables, drafts, daemon, writes, watcher, loop>>

Times == 0 .. MaxTime
Item == [file : Files, count : 0 .. MaxWrites, noted : BOOLEAN]

TypeOK == /\ clock \in Times
          /\ saves \in Seq([file : Files, at : Times, has_note : {FALSE}])
          /\ Len(saves) <= writes
          /\ notes \subseteq [file : Files, at : Times]
          /\ cache \in (SUBSET Item) \cup {None}
          /\ drafts \subseteq [file : Files, at : Times]
          /\ up \in BOOLEAN /\ restarts \in 0 .. MaxRestarts
          /\ writes \in 0 .. MaxWrites
          /\ events \in Seq(Files)
          /\ debounce \in [Files -> Times \cup {None}]
          /\ handling \in Files \cup {None}
          /\ scan \in {"wait", "times", "cache"}
          /\ counts \in [Files -> 0 .. MaxWrites]
          /\ results \subseteq Item

-----------------------------------------------------------------------------
(* The queries. *)

Rows(f) == {i \in DOMAIN saves : saves[i].file = f}

\* mutant: the notes of every file of the project count
LastNoteOfProject(f) == LET at == {n.at : n \in notes}
                        IN IF at = {} THEN 0 ELSE CHOOSE t \in at : \A u \in at : u <= t

\* mutant: a file counts as noted when any note is in the table
AnyNote(f) == notes # {}

\* SELECT MAX(timestamp) ... for a file, 0 when there is no note (COALESCE)
LastNote(f) == LET at == {n.at : n \in {m \in notes : m.file = f}}
               IN IF at = {} THEN 0 ELSE CHOOSE t \in at : \A u \in at : u <= t

Noted(f) == \E n \in notes : n.file = f

SavesSinceLastNote(f) == Cardinality({i \in Rows(f) : saves[i].at > LastNote(f)})

\* GetSaveCountsSinceLastNote
SaveCountsSinceLastNote == [f \in Files |-> SavesSinceLastNote(f)]

\* the offline list: saves whose has_note is 0, whatever was noted since
GetLowContextFiles ==
    {f \in Files : Cardinality({i \in Rows(f) : ~ saves[i].has_note}) >= Threshold}

-----------------------------------------------------------------------------
(* What a daemon that is not running, or has just started, has in memory. *)
Fresh == /\ events' = <<>>
         /\ debounce' = [f \in Files |-> None]
         /\ handling' = None
         /\ scan' = "wait"
         /\ counts' = [f \in Files |-> 0]
         /\ results' = {}

Init == /\ clock = 1
        /\ saves = <<>> /\ notes = {} /\ cache = None /\ drafts = {}
        /\ up = TRUE /\ restarts = 0
        /\ writes = 0
        /\ events = <<>>
        /\ debounce = [f \in Files |-> None]
        /\ handling = None
        /\ scan = "wait"
        /\ counts = [f \in Files |-> 0]
        /\ results = {}

Tick == /\ clock < MaxTime
        /\ clock' = clock + 1
        /\ UNCHANGED <<tables, drafts, daemon, writes, watcher, loop>>

(* The editor writes a tracked file: fsnotify queues an event, if it runs. *)
Write(f) == /\ writes < MaxWrites
            /\ writes' = writes + 1
            /\ events' = IF up THEN Append(events, f) ELSE events
            /\ UNCHANGED <<clock, tables, drafts, daemon, debounce, handling, loop>>

(* handleEvent, up to the debounce map: an event too close to the last       *)
(* accepted one is dropped.                                                  *)
Recent(f) == debounce[f] # None /\ clock - debounce[f] < DebounceD

\* mutant: an accepted event is not remembered
HandleEventForgetfully == /\ handling = None
                          /\ events # <<>>
                          /\ events' = Tail(events)
                          /\ handling' = IF Recent(Head(events)) THEN None
                                         ELSE Head(events)
                          /\ UNCHANGED <<clock, tables, drafts, daemon, writes,
                                         debounce, loop>>

HandleEvent == /\ handling = None
               /\ events # <<>>
               /\ events' = Tail(events)
               /\ IF Recent(Head(events))
                  THEN UNCHANGED <<debounce, handling>>
                  ELSE /\ debounce' = [debounce EXCEPT ![Head(events)] = clock]
                       /\ handling' = Head(events)
               /\ UNCHANGED <<clock, tables, drafts, daemon, writes, loop>>

\* mutant: the save is recorded again and again
RecordFileSaveAgain == /\ handling # None
                       /\ saves' = Append(saves, [file |-> handling, at |-> clock,
                                                  has_note |-> FALSE])
                       /\ UNCHANGED <<clock, notes, cache, drafts, daemon, writes,
                                      watcher, loop>>

(* ... and RecordFileSave, which has a clock reading of its own. *)
RecordFileSave == /\ handling # None
                  /\ saves' = Append(saves, [file |-> handling, at |-> clock,
                                             has_note |-> FALSE])
                  /\ handling' = None
                  /\ UNCHANGED <<clock, notes, cache, drafts, daemon, writes,
                                 events, debounce, loop>>

RecordFileSaveFails == /\ MayFail
                       /\ handling # None
                       /\ handling' = None
                       /\ UNCHANGED <<clock, tables, drafts, daemon, writes,
                                      events, debounce, loop>>

(* `synth note`: the timestamp is taken, and then the note is inserted. *)
BuildIntent(f) == /\ Cardinality(notes) + Cardinality(drafts) < MaxNotes
                  /\ drafts' = drafts \cup {[file |-> f, at |-> clock]}
                  /\ UNCHANGED <<clock, tables, daemon, writes, watcher, loop>>

InsertIntent(n) == /\ n \in drafts
                   /\ notes' = notes \cup {n}
                   /\ drafts' = drafts \ {n}
                   /\ UNCHANGED <<clock, saves, cache, daemon, writes, watcher, loop>>

-----------------------------------------------------------------------------
(* ComputeLowContextFiles reads the counts and then, in a second query, the  *)
(* notes; tick caches the outcome.  An error ends the tick.                  *)
ReadCounts == /\ up
              /\ scan = "wait"
              /\ counts' = SaveCountsSinceLastNote
              /\ scan' = "times"
              /\ UNCHANGED <<clock, tables, drafts, daemon, writes, watcher, results>>

ReadNoteTimes ==
    /\ scan = "times"
    /\ results' = {[file |-> f, count |-> counts[f], noted |-> Noted(f)] :
                       f \in {g \in Files : counts[g] >= Threshold}}
    /\ scan' = "cache"
    /\ UNCHANGED <<clock, tables, drafts, daemon, writes, watcher, counts>>

\* mutant: an empty result is not worth a write
CacheNonemptyResults == /\ scan = "cache"
                        /\ cache' = IF results = {} THEN cache ELSE results
                        /\ scan' = "wait"
                        /\ UNCHANGED <<clock, saves, notes, drafts, daemon,
                                       writes, watcher, counts, results>>

CacheResults == /\ scan = "cache"
                /\ cache' = results
                /\ scan' = "wait"
                /\ UNCHANGED <<clock, saves, notes, drafts, daemon, writes,
                               watcher, counts, results>>

ScanFails == /\ MayFail
             /\ scan # "wait"
             /\ scan' = "wait"
             /\ UNCHANGED <<clock, tables, drafts, daemon, writes, watcher,
                            counts, results>>

(* The daemon stops, or dies, wherever it is; it starts anew. *)
StopDaemon == /\ up
              /\ up' = FALSE
              /\ Fresh
              /\ UNCHANGED <<clock, tables, drafts, restarts, writes>>

StartDaemon == /\ ~ up
               /\ restarts < MaxRestarts
               /\ up' = TRUE
               /\ restarts' = restarts + 1
               /\ Fresh
               /\ UNCHANGED <<clock, tables, drafts, writes>>

Next == \/ Tick
        \/ \E f \in Files : Write(f) \/ BuildIntent(f)
        \/ \E n \in drafts : InsertIntent(n)
        \/ HandleEvent \/ RecordFileSave \/ RecordFileSaveFails
        \/ ReadCounts \/ ReadNoteTimes \/ CacheResults \/ ScanFails
        \/ StopDaemon \/ StartDaemon

Spec == Init /\ [][Next]_vars

(* The ticker goes on ticking, and a statement that may fail does not fail   *)
(* for ever (SQLite's errors here are a busy database's).                    *)
FairSpec == /\ Spec
            /\ SF_vars(ReadCounts) /\ SF_vars(ReadNoteTimes) /\ SF_vars(CacheResults)

-----------------------------------------------------------------------------
(* A burst of writes does not flag a file: over a time T, at most 1 +        *)
(* T / DebounceD saves of it are counted, and one more per restart of the    *)
(* daemon, however many events came and however late a row was inserted.     *)
BurstsAreDebounced ==
    \A f \in Files :
        Cardinality(Rows(f)) + (IF handling = f THEN 1 ELSE 0)
            <= 1 + restarts + (clock - 1) \div DebounceD

(* The number of saves since the last note changes for two reasons only: one *)
(* recorded save adds at most one to the count of its file, and only a note  *)
(* of that file lowers it.  A restart forgets nothing.                       *)
CountsFollowSavesAndNotes ==
    [][\A f \in Files :
          /\ SavesSinceLastNote(f)' > SavesSinceLastNote(f) =>
                /\ SavesSinceLastNote(f)' = SavesSinceLastNote(f) + 1
                /\ Last(saves').file = f
          /\ SavesSinceLastNote(f)' < SavesSinceLastNote(f) =>
                \E n \in notes' \ notes : n.file = f]_vars

(* What should be flagged now, after config.go 105: "Number of saves to a    *)
(* file (since its last note) before it is flagged".                         *)
LowContextNow == {[file |-> f, count |-> SavesSinceLastNote(f), noted |-> Noted(f)] :
                      f \in {g \in Files : SavesSinceLastNote(g) >= Threshold}}

(* The cache never invents a file: an item was counted from saves that are   *)
(* in the table, and a file that the cache calls noted has a note.           *)
CacheIsGrounded ==
    cache # None => \A x \in cache : /\ x.count \in Threshold .. Cardinality(Rows(x.file))
                                     /\ x.noted => \E n \in notes : n.file = x.file

(* Once the saves and the notes have stopped, a daemon that stays up shows   *)
(* exactly the files that need a note: a scan that read between two writes,  *)
(* failed or was cut by a restart is made good by a later one.               *)
CacheConverges == <>[]up => <>[](cache = LowContextNow)

(* `synth status --low-context` without a daemon lists files "with changes   *)
(* but no recorded intent" (README.md 109): a file in the list has Threshold *)
(* saves since its last note.  The code breaks this: no row ever has         *)
(* has_note = 1, so the query counts every save ever recorded.               *)
OfflineListHonoursNotes ==
    \A f \in GetLowContextFiles : SavesSinceLastNote(f) >= Threshold
=============================================================================
