# A verification model of synth

Synth records why a file exists and why it was changed. Developers write notes
with `synth note`, a git hook links them to commits, a background daemon indexes
them, counts the saves of files that nobody explained, and answers searches over a
Unix socket. This directory holds TLA+ modules translated from the Go source, TLC
configurations that check them on small instances, and TLAPS proofs of the
properties that matter most for every instance.

File and line references are relative to the repository (`internal/...` stands for
`src/internal/...`). `PROJECT.json` maps every definition to its lines.

## 1. The system

| component | state it keeps | operations | talks to | what makes it correct |
|---|---|---|---|---|
| project store (`internal/store`) | SQLite tables `intents`, `file_registry`, `file_saves`, `intent_embeddings`, `daemon_state`, `intents_fts` | one statement per method; no caller uses a transaction | every process opens the file itself (WAL, one connection, `busy_timeout` 5 s) | statements touch the rows they should and no others |
| migrations (`internal/store/db.go`, `migrations.go`) | `schema_migrations` | version check, one transaction per migration | every process, at open | whoever is in finds the whole schema; the version is true after any crash |
| `synth note` (`internal/cli/note.go`) | the draft in memory | registry check, prompts, INSERT, registry upsert | store | declarations come before changes; the registry never outruns the notes |
| post-commit hook (`internal/git/hooks.go`, `internal/cli/post_commit.go`) | none | `git rev-parse HEAD`, link all unlinked notes | git, store | a link is never replaced, nobody is left behind |
| embedding loop (`internal/daemon/embedder.go`) | the batch in memory | list, embed, store each, record the run | engine, store | each vector is its own note's; every note is embedded at last |
| embedding engine (`internal/embed/engine.go`) | session, pipeline, idle timer, mutex | `Embed`, `EmbedBatch`, idle unload, `Shutdown` | hugot, Go timers | no batch on a destroyed session; an idle model is unloaded |
| daemon process (`internal/daemon/daemon.go`) | PID file, socket, signal channel | `Run`, `Shutdown` | all loops | one daemon, reachable by the PID file and the socket |
| daemon commands (`internal/cli/daemon.go`) | none | start, stop, restart, status, ping | PID file, signals | they tell the truth and return |
| IPC (`internal/ipc`) | handlers, `connLimit`, listener | accept, serve, close; dial, send | daemon, search command | slots are not lost; every search ends |
| search (`internal/search`, `internal/daemon/search_handler.go`) | none | ping, ask, fall back | IPC, store | results are labelled as what they are |
| watcher, low-context scorer and loop (`internal/daemon/watcher.go`, `lowcontext*.go`) | debounce map, cached list | count a save; scan and cache | fsnotify, store | bursts count once; the list converges to the files that need a note |
| log and status (`internal/cli/log.go`) | none | queries and printing | store, IPC | they show this repository, and what they print fits together |
| `synth init` (`internal/cli/init.go`, `internal/config/config.go`) | `.synth/config.toml`, the project's database | check, directory, config, database, hook, `.gitignore`; clean-up | files, store | it ends with a whole project or with none |
| hook file (`internal/git/hooks.go`) | `.git/hooks/post-commit` | install, upgrade, uninstall | init | the user's lines survive; there is one whole block |
| model download (`internal/embed/download.go`, `internal/cli/model.go`) | model files, `.tmp` files | stat, get, copy, rename per file | HTTP, files | a file in place is a whole file |
| daemon logger (`internal/daemon/logger.go`) | `daemon.log`, `daemon.log.1` | write an entry, rotate | every daemon | bounded size; recent entries are kept |
| service files, server stub, VS Code client, git access, terminal UI | none of their own | see `PROJECT.json` | | not modelled, section 8 |

What is hard about it:

* **Processes without locks.** CLI, hook and daemons share files and a database and
  interleave between any two system calls or SQL statements.
* **No transactions around two statements.** A crash leaves what the first one wrote.
* **Liveness files.** The PID file and the socket path are removed by whoever thinks
  it should, without a look at whose they are by then.
* **Timers and a mutex** in the engine: stopping a timer does not recall a callback
  that already waits.
* **Late registration**: the server accepts before the search handler exists.
* **Ticks that fail**: the loops log errors and rely on the next tick.
* **Files that are rewritten in place**: `os.WriteFile` truncates the user's hook,
  `.gitignore` and the PID file before it writes; two downloads share one `.tmp`; two daemons
  rotate one log.
* **One daemon for the machine**: PID file and socket do not say which repository they serve.

The hazards, each at the line where it bites, with the properties that watch over
it, are listed in `PROJECT.json`.

## 2. Modules

| module | stands for | extends |
|---|---|---|
| `IntentStore` | the tables and statements the note pipeline uses | |
| `NotePipeline` | `synth note`, the hook, the embedding loop: three kinds of processes over one store | `IntentStore` |
| `NoteLifecycle` | the abstract promise: a note is kept, linked at most once with all other unlinked notes, indexed | |
| `DaemonLifecycle` | daemon processes, PID file, socket, signals, and the commands | |
| `EmbedEngine` | the engine's mutex, session, timer | |
| `LowContext` | watcher, notes, scan and cache, offline list | |
| `Migrations` | opening a database from several processes; the index triggers | |
| `IpcSearch` | server, client, search command with fallback | |
| `HookFile` | what installing, upgrading and uninstalling make of the lines of a hook: operators only | |
| `ProjectInit` | `synth init`, its failures and crashes, and a user who edits in between | `HookFile` |
| `ModelDownload` | downloads of the model that share their `.tmp` files | |
| `DaemonLog` | daemons that append to and rotate one log | |
| `Queries` | the commands that read, beside writers and a daemon | |
| `MCCommands` | `Migrations`, `ProjectInit`, `ModelDownload`, `DaemonLog` or `Queries`, one in each behaviour, for TLC | all five |
| `MC*` | symmetry sets and instances for TLC | the module |
| `Model_proofs` | invariants and theorems of the engine and of the downloads | `EmbedEngine`, `ModelDownload`, `TLAPS` |
| `Reports_proofs` | invariants and theorems of the log and of the commands that read | `DaemonLog`, `Queries`, `TLAPS` |
| `DaemonLifecycle_proofs`, `IpcSearch_proofs`, `LowContext_proofs`, `Migrations_proofs`, `NotePipeline_proofs`, `ProjectInit_proofs` | inductive invariants and theorems | the module and `TLAPS` |

`NotePipeline` composes the store, three writers of it and the git repository.
`NotePipeline` implements `NoteLifecycle` under the refinement mapping
`notes <- commits of the intents`, `indexed <- DOMAIN embeddings`.
The engine is a single step of the pipeline (`EmbedBatch`, which may fail), because
its callers see nothing else of it; its inside is `EmbedEngine`.

### State and actions against the code

**IntentStore.** A row of `intents` is known by its rowid; nothing deletes one. The
text of a note, and the vector computed from it, are stood for by the same number,
so that "the vector of this note's text" can be said at all.
`ListIntentsWithoutEmbeddings` returns any list that `ORDER BY timestamp LIMIT` allows:
notes of the same millisecond come in either order, and the order of timestamps
need not be the order of rowids.

**NotePipeline.** `CheckRegistry` (steps 1-4 of `runNoteInteractive`) decides the note
type before the prompts; `BuildIntent` takes the timestamp; `SaveIntent` and
`SaveRegistry` are the two statements of `saveNewFileNote`; `Abandon` is each of a
cancelled prompt, a failed statement and a killed process. `GitCommit` moves HEAD;
`RevParse` is the hook's `git rev-parse HEAD`, taken later; `LinkCommitHash` the
`UPDATE`; `HookGivesUp` each of the silent `return nil`s of `runPostCommit`.
`ListPending`, `EmbedBatch`, `StoreEmbedding`, `FinishBatch` are `embedPending`, with
its failing twins and a crash (`DaemonRestarts`) between any two.

**DaemonLifecycle.** Each action is one system call: `OpenPID` (truncate) and `WritePID`
are the two halves of `os.WriteFile`; a file that was unlinked in between takes the
PID with it (`orphans`). `Notify`, `RemoveSocket`, `Listen`, `EnterLoop` follow `Run`.
`TakeSignal`, `DeferredRemovePID`, `CloseListener`, `Exit` are its end, where the closing
of the listener (a goroutine) may come before, after or not at all, and nothing bounds how
long a process takes from its `RemovePID` to its end: successors start meanwhile.
`WritePIDFails` is the error return of `WritePID`, before the truncation or after it; it and a
`Crash` in "opened" leave the PID file empty. `ReadPID`, `IsProcessRunning`,
`RemoveStalePID` are `IsDaemonRunning`, and every command runs through them; `IfRunning` and
`IfNotRunning` say where each command goes on. `seen` is the PID that was just read; `target`
is the process that stop found and goes on to signal. Between `signal.Notify` and the deferred
`signal.Stop` a SIGTERM waits for the loop (`Handled`); before and after, it is a daemon's
death (`Unhandled`). A `Fault` is a crash, a PID file that cannot be written or a spawn that fails.

**EmbedEngine.** `mu` is held from `Lock` to `Return`; `NewSession` and `NewPipeline` (together
`load`), `Run`, `ResetIdleTimer` are steps in between, during which timers fire. `LoadFails` is
the load that finds no model or gets no session, `NewPipelineFails` the one that destroys the
session again. A timer is armed, then fired (its callback
waits for `mu`), then done (`IdleUnload`). `Stop` takes a timer out of `armed` and has no
effect on `fired`. The daemon has no call of `Shutdown`; it is modelled as a call
that may come at any time.

**LowContext.** `HandleEvent` is `handleEvent` up to the debounce map, `RecordFileSave` its
statement, which reads the clock again. `ReadCounts` and `ReadNoteTimes` are the two
queries of `ComputeLowContextFiles`; `CacheResults` the write. A restart empties
everything that is in memory (`Fresh`).

**Migrations.** `GetCurrentVersion` reads outside of any transaction; `Exec`, `Record` and
`Commit` are one transaction of `applyMigration`, whose effects are in `tx` until the
commit. `RecordExists` is the primary-key error of a second writer. `InsertIntent` and
`UpdateIntents` run the triggers if they exist. `Close` is an end at any point.

**IpcSearch.** A connection is a pair of a client and what it asks. `Accept` takes a slot
or refuses; `DecodeError`, `Dispatch`, `UnknownType`, `Answer` are `handleConnection`; `Finish`
its defers. On the client, `DialPing`, `Send`, `PingAnswered`, `DialSearch`, `SearchAnswered`
are the good path; `Refused`, `TimesOut` and `Fallback` the others.

**HookFile and ProjectInit.** A hook is a sequence of lines, of which the model tells apart the
markers, the body of the block in this and in an older release, blank lines, the shebang and
the user's. `Installed`, `Uninstalled`, `ReplaceSynthBlock` and `RemoveSynthBlock` are the functions of
`hooks.go`, with the first start and the first end marker found as `strings.Index` finds
them. In `ProjectInit`, `step` is the next system call of `runInit`: `MakeSynthDir`, `CreateConfig`
and `WriteConfig` (`os.Create` and the write after it), `OpenStore`, then `ReadFile`,
`TruncateFile`, `FillFile` for the hook and for `.gitignore`. `Fail` is each error return with its
`cleanup()`, `FailEarly` those before it exists, `SkipFile` the warnings. The user adds lines
(`AddUserLine`), cuts a marker (`CutMarker`), removes `.synth/` (`RemoveProject`); `UninstallHook` has
no command yet. `userHook` remembers the user's lines; `UserLinesAre` says that a file has these, each
once and in their order: there are as many of them, and the one that is the k-th of the
user's in the file is the k-th that was written.

**ModelDownload.** A file is the set of its chunks that were written. `CreateTmp` truncates the
`.tmp`, another download's too; `handle` says under which name an open file goes by now, since a
rename or a removal by another process moves it. `IsModelComplete` asks for a size above
zero and for nothing more, as the code does.

**DaemonLog.** `ShouldRotate`, `StatBackup`, `RemoveBackup`, `RenameLog`, `OpenLog` and `AppendEntry` are the
system calls of `rotate` and `writeEntry`. The code drops all their errors: `RotationFails` (the
stat or the rename of a log that is there), `BackupStays` and `EntryLost` are what then happens. The mutex of a `Logger` makes them a sequence within one
daemon; nothing does so between two. `openLog` follows a file through renames and removals.

**Queries.** A note is known by its place in the order of timestamps. `ListIntents`, `SearchFTS`,
`GetAllEmbeddings` are the store's; `RunLog`, the four reads of status, `SearchKeyword`, and
`HandleVectors` and `HandleRows` of the daemon are the steps of the commands. `Best` is the
most relevant notes under a ranking that may be any. `Truncate` is what is left of the time of
`--since` when it is sent to the daemon as RFC 3339, whole seconds. `daemon` is the project that the daemon
was started in.

**MCCommands.** None of the five modules reads what another one writes (`Queries` starts with a
migrated database), so a product of their behaviours would show nothing more: `part` chooses
which of them runs and the others stand still.

## 3. Runs

`tlc -workers 2 -config X.cfg MCModule`, from a few seconds to about a minute each. Expected
verdict: pass, except where the table says *violated*.

| run | configuration | checks | what it shows |
|---|---|---|---|
| notes_capture | `MCNotePipeline_capture` | `RegisteredFilesDeclared`, `ChangesFollowDeclaration`, `NoNoteLeftBehind`, `NoDeclarationAfterRegistration`, `CommitNeverRewritten` | two terminals write notes on two files, cancel, fail and crash between the two writes, while two others commit, with overlapping hooks that are late, fail or read another HEAD |
| notes_life | `MCNotePipeline_life` | `EmbeddingsMatchNotes`, `NotesFollowCommitOrder`, `ImplementsLifecycle`, `EveryNoteEmbedded` | the whole life of a note, from the prompt to its vector: serial commits, a daemon whose batches and rows fail and that restarts, and the refinement of `NoteLifecycle` |
| daemon_commands | `MCDaemonLifecycle_commands` | `OneDaemon`, `PIDFileNamesDaemon`, `SocketLostOnlyToPredecessor`, `StopIsTruthful`, `CommandsReturn`, `StartRecovers` | one terminal starts, stops and restarts daemons that crash at any step, cannot write their PID or are late to exit; on an orderly machine what it is told is true, and on the worst one too every command returns |
| daemon_twostarts | `MCDaemonLifecycle_twostarts` | `OneDaemon` *violated* | two terminals start at once |
| daemon_emptypid | `MCDaemonLifecycle_emptypid` | `StalePIDFileRemoved` *violated* | a daemon ends between truncation and write of its PID file |
| engine_run | `MCEmbedEngine_run` | `RunsOnLiveSession`, `NoSessionLeaked`, `OnlyNewestTimerArmed`, `UsedModelUnloaded` | callers, loads that fail before and after there is a session, failing runs, shutdowns and stale timer callbacks |
| engine_idlefail | `MCEmbedEngine_idlefail` | `IdleModelUnloaded` *violated* | a run fails after its load |
| lowctx_loop | `MCLowContext_loop` | `TypeOK`, `CacheIsGrounded`, `BurstsAreDebounced`, `CountsFollowSavesAndNotes`, `CacheConverges` | two files, bursts, notes, torn and failed scans, a restart |
| lowctx_offline | `MCLowContext_offline` | `OfflineListHonoursNotes` *violated* | the offline list ignores notes |
| ipc_search | `MCIpcSearch` | `TypeOK`, `SlotsCountConnections`, `ResultsAreHonest`, `SearchesEnd`, `SlotsAreFreed` | more searches than slots, whatever the daemon and the clients do |
| commands | `MCCommands` | `OpenIsMigrated`, `VersionTruthful`, `NotesStaySearchable`, `InitIsAllOrNothing`, `UserLinesSurvive`, `OneWholeBlock`, `QuietModelIsWhole`, `RecentEntriesKept`, `LogBounded`, `StatusAddsUp`, `SearchLosesOnlyToTheLimit` | three processes open a fresh or an old database, fail, die and write notes; init fails, dies and is repeated over a hook that the user edits; two downloads of the model share one `.tmp`; two daemons rotate one log, with rotations that fail; status and search read while notes are saved and embedded |
| status_otherproject | `Queries_otherproject` | `StatusOfThisRepository` *violated* | the daemon serves another repository |

### Disagreements with the code's own words

1. **Two daemons** (`daemon_twostarts`): check and spawn are not atomic and the child
   does not check again (`internal/cli/daemon.go:196`, `internal/daemon/daemon.go:139`).
2. **A model that stays loaded** (`engine_idlefail`): the idle timer is armed by a
   successful run only. What does hold is `UsedModelUnloaded`: a model that served
   a call is unloaded once the calls stop.
3. **An offline list that ignores notes** (`lowctx_offline`): `has_note` is never set.
4. **Another repository's files** (`status_otherproject`): the low-context list of `synth status`
   comes from the one daemon of the machine, whichever repository it was started in
   (`internal/cli/log.go:249`), while the help speaks of "this repository"
   (`internal/cli/log.go:183`). The semantic search has the same reach
   (`internal/daemon/search_handler.go:75`).
5. **An empty PID file** (`daemon_emptypid`): a daemon that ends between the truncation
   and the write leaves a file that is an error of every later start and stop, and nothing
   removes it (`internal/daemon/daemon.go:55`, `internal/cli/daemon.go:197`). `StartRecovers` is
   about all the other states that a crash leaves.

Three more things the models show, without a run of their own:

* *A socket that leads nowhere.* `Run` removes the PID file before its process has closed
  the listener (`internal/daemon/daemon.go:145`, 236-241), stop returns when that file is
  gone (`internal/cli/daemon.go:260`), and the late `Close` unlinks the path that the successor has
  bound (`internal/ipc/server.go:126`). The old process has to be late by as much as a start
  takes. What does hold is `SocketLostOnlyToPredecessor`: nobody else unlinks the path of a
  daemon that serves.
* *A model that is unloaded early.* A timer callback that waited for the mutex during a batch
  unloads the model right after it (`internal/embed/engine.go:154`), against "how long the
  engine waits after the last embed call" (`engine.go:32`). It costs the next call a load and
  nothing else: `RunsOnLiveSession` and `OnlyNewestTimerArmed` are proved.
* *A process that is refused.* One that opens a new database while another migrates it meets
  the primary key of `schema_migrations` although the schema is complete (`RecordExists`); it
  can simply be run again.

### Bounds and why they are enough

* *NotePipeline*: 3 sessions. Two declare at once or one declares and crashes, a third
  retries or changes. In `notes_capture` 3 commits from 2 terminals: one before a late hook's
  own commit and one after. In `notes_life` a batch of 2 with 3 notes makes the list both
  full and partial. One terminal commits there, because `NotesFollowCommitOrder` is claimed for
  serial commits only, and one daemon embeds. Overlap of any number of daemons, writers and
  hooks is covered by the proofs of section 4.
* *DaemonLifecycle*: three PIDs (a dead, a stopping and a starting daemon) and two
  faults, with one terminal. The worst machine hands out two PIDs, since its service manager
  and its slow starts multiply the states. Two terminals break `OneDaemon` with no fault at all.
  The safety properties are proved for any number of PIDs and faults.
* *EmbedEngine*: three callers, four calls and as many timers, so that a stale callback, a fresh
  timer and a running call coexist.
* *LowContext*: threshold 2, window 2 ticks: an event inside the window, one after it, a
  flagged file, and a note between two saves. The clock stops at `MaxTime`.
* *Migrations*: two migrations as in the code; three processes: one that migrates, one that
  read the version before, one that comes after.
* *IpcSearch*: one connection more than slots. 32 is only a number here: the proof of
  `SlotsCountConnections` is for any limit.
* *ProjectInit*: three inits, one killed, and three acts of the user: an init that dies or
  fails, what the user makes of it, an init that repeats it, and one more on a hook that has a
  block already. `UserLinesSurvive` and `OneWholeBlock` except what the code cannot help or warns
  of: a rewrite that was cut off between truncation and writing (`torn`), and a user who edited
  the markers, "do not edit this block manually" (`edited`), whose lines may be
  doubled and are never lost.
* *ModelDownload*: two downloaders, three downloads, two files of two chunks: a download is cut
  off in the middle of a file, and another one is at the same file or at the next. What
  `QuietModelIsWhole` excepts is a copy that ran beside another one and was cut off (`cut`): its
  neighbour may rename the part that it has left.
* *DaemonLog*: `MaxBytes` = 2 stands for 10 MB, and an entry counts for one byte; six entries
  are three rotations, the last without its entry, and one of them may fail (`MaxFailures`): one that
  fails leaves the log at the limit, and the next entry goes beyond it. `RecentEntriesKept` is about a daemon that runs alone (`paired`): two that
  rotate at once lose the backup that the first one has just made.
* *Queries*: `DefaultLimit` = 2 stands for the 20 of `ListIntents`, three notes exceed it; two
  projects, two paths, a limit of 1 and one that is not given. A second has two milliseconds
  (`MsPerSecond`), so that `--since` lies at its beginning or in it.

Deadlock checking is off where a bounded run ends because its sessions, calls or clock
are used up, or its command is done. It is on for all of `DaemonLifecycle`, which never stops.

Symmetry is used in runs without liveness properties, over sets whose members no definition
singles out (`NoDraft` chooses a file, so the files are not among them).

### Machines

The daemon's properties depend on the machine it runs on, and `Machine` names what matters: a
service manager starts daemons or not (`service`), a child writes its PID within the 3 s for
which start waits or not (`quick`); it hands out certain PIDs (`pids`, a bound). `Init` takes
any of the machines that the constant `Machines` considers. `CommandsReturn` holds on all;
`OneDaemon`, `PIDFileNamesDaemon`, `SocketLostOnlyToPredecessor`, `StopIsTruthful` and
`StartRecovers` are stated for an `Orderly` one (no service manager, quick). How long a daemon
takes to end is bounded on neither.

### Fairness

* `NotePipeline`: the 5 s ticker runs `embedPending` again and again (`WF` of `ListPending`
  and `FinishBatch`); an engine or store error is transient (`SF` of `EmbedBatch` and
  `StoreEmbedding`). Nobody has to write notes or commit. A text that fails for ever
  would block the oldest batch for ever; this is what the assumption excludes.
* `DaemonLifecycle`: a process that can go on does (`WF`), and polling loops reach their
  deadline (`SF` of the two deadlines). No fairness for closing the listener, faults, or
  the service manager.
* `EmbedEngine`: `sync.Mutex` is starvation-free (`SF` of a caller's step and of the callback),
  and the runtime fires armed timers. `UsedModelUnloaded` says of itself that the calls stop.
* `LowContext`: the ticker repeats the scan, and its statements succeed at last.
* `IpcSearch`: fairness is the antecedent of each property. `SearchesEnd` assumes only
  that the commands run (`ClientsGoOn`; their deadlines are their own), `SlotsAreFreed` only
  that the server's goroutines do (`ServerGoesOn`).

## 4. Proofs

`tlapm M_proofs.tla`. Each theorem holds for every value of the constants that satisfies
the named assumptions of its module. With it, every safety and every action property that a
passing run checks is proved, some under the hypothesis that the table names.

| theorem | statement | argument |
|---|---|---|
| `NotePipeline_proofs!TypeCorrect` | `[](TypeOK /\ BatchShape)` | `IndTypeOK`: types, and that a batch is no longer than `BatchSize`, that the vectors of a batch that is being stored are its texts, and that a listed intent exists. The last is what keeps `next` within bounds. |
| `EmbeddingsCorrect` | `[]EmbeddingsMatchNotes` | from `BatchShape`: the vector at `next` is the text at `next` |
| `CommitsPermanent` | `CommitNeverRewritten` | every step keeps a linked row (`RowKept`) |
| `DeclarationsCorrect` | `[](RegisteredFilesDeclared /\ ChangesFollowDeclaration)` | `DeclarationInv`: the two do not follow from each other's steps. A session that prepares a change already knows of a saved declaration (`SessionsKnow`), because the registry entry it read had one, and one that is about to register has saved its own. |
| `NoneLeftBehind` | `[]NoNoteLeftBehind` | `LinkInv`: a hook that is about to link has a real hash |
| `OrderCorrect` | `SerialCommits => []NotesFollowCommitOrder` | `OrderInv`: with one terminal the hash of a hook is HEAD, and no link is larger than HEAD |
| `LifecycleCorrect` | `ImplementsLifecycle` | step simulation, one lemma per kind of step |
| `RegistryCorrect` | `[]RegisteredFilesDeclared` | the half of `DeclarationsCorrect` about crashes |
| `RegistrationFinal` | `NoDeclarationAfterRegistration` | the declarations of a file are the saved ones (`Saved`) and those under way (`Pending`), counted apart; `FewAtWork` (at any time finitely many sessions are open) makes the second half countable, and `SaveIntent` moves one declaration from it to the first |
| `Model_proofs!EngineSafe` | `[](RunsOnLiveSession /\ NoSessionLeaked /\ OnlyNewestTimerArmed)` | `MutexInv`: whoever is between `Lock` and `Return` holds `mu`, so nobody else is; `SessionInv`: session, pipeline and the live set agree, but for a session inside `load` that has no pipeline yet, which is live and the engine's all the same, and gone if its pipeline cannot be built |
| `NoLeak`, `TimersCorrect`, `EngineTypeCorrect` | `[]NoSessionLeaked`, `[]OnlyNewestTimerArmed`, `[]TypeOK` | parts of the same invariant |
| `DownloadTypeCorrect` | `[]DownloadTypeOK` | `DownInv`: types, and where each download is. A handle other than to the download's own `.tmp` means that another download is or was beside it. |
| `QuietModelCorrect` | `[]QuietModelIsWhole` | `FinalInv` and `TmpInv`, see below |
| `Migrations_proofs!SchemaCorrect` | `[](OpenIsMigrated /\ VersionTruthful /\ NotesStaySearchable)` | `SchemaInv` (what a transaction would commit is one version more than what is there) and `OpenerInv` (a process at migration `m` has seen all before `m` applied; applied versions are never taken back) |
| `VersionCorrect`, `IndexCorrect` | `[]VersionTruthful`, `[]NotesStaySearchable` | parts of it |
| `IpcSearch_proofs!ResultsHonest` | `[]ResultsAreHonest` | `HonestInv`: an `ok` on the wire was written by a handler for a request that was sent |
| `IpcSearch_proofs!SlotsCorrect` | `[]SlotsCountConnections` | counting: each action moves at most one connection in or out of service, or all of them (`Exit`), and the cardinality lemmas of the library |
| `IpcTypeCorrect` | `[]TypeOK` | with the count above, the slots stay within the limit |
| `LowContext_proofs!LowContextTypeCorrect` | `[]TypeOK` | types, and that every row of `file_saves` was a write: one per event, one event in hand |
| `CacheCorrect` | `[]CacheIsGrounded` | `GroundedInv` says it of all three places a count passes through: the counts that were read, the results, the cache. Rows and notes only grow, so what was true when it was read stays true. |
| `BurstsCorrect` | `[]BurstsAreDebounced` | `BurstInv`: the saves of a file are counted against the windows up to its entry in the debounce map, not up to the clock; an accepted event moves the entry by a whole window, and a restart, which forgets the entry, pays for one save |
| `CountsCorrect` | `CountsFollowSavesAndNotes` | the last note of a file is the maximum of its note times. That a finite set of numbers has one is no induction here: `>` is well-founded on an interval (`LatestTime`). An insert then adds at most one save to those after it, and a later note takes saves away. |
| `Reports_proofs!SizeCorrect` | `[]LogBounded` | `SizeInv`: whoever is bound to append to a file, because its look at the size is behind it, is counted as if it had; a rename carries such writers along with the file, and a rotation that fails allows the log one entry more |
| `RecentCorrect` | `[]RecentEntriesKept` | `AloneInv`: entries are numbered without a gap across backup and log, and a daemon that is rotating has a log of `MaxBytes` in its hands |
| `QueriesTypeCorrect` | `[]QueriesTypeOK` | `QueryTypeInv`: types, and that what a command knows is its project's |
| `StatusCorrect` | `[]StatusAddsUp` | `StatusInv` compares each number that was read with the table of now: the total is at most the rows up to the last note that was read after it, and these at most the rows that are listed after both |
| `SearchCorrect` | `[]SearchLosesOnlyToTheLimit` | `SearchInv`: the hits gathered so far are of one project and match; while the rows of a semantic answer are fetched, a hit of this repository is missing only if there are more than the limit, or the daemon serves another repository |
| `ProjectInit_proofs!InitCorrect` | `[]InitIsAllOrNothing` | `ProgressInv`: what the steps so far have made is there until the init ends |
| `InstallTwice` | `Installed(Installed(file)) = Installed(file)` | for every hook without a block, or with a whole one |
| `BlockCorrect` | `[]OneWholeBlock` | `HookInv`, see below |
| `UserLinesCorrect` | `[]UserLinesSurvive` | `LinesInv` and `IgnoreInv`, see below |
| `DaemonLifecycle_proofs!LifecycleTypeCorrect` | `[]TypeOK` | `TypeInv`, with what `job` and `seen` can be at each step of a command (`Fits`) |
| `OneDaemonCorrect`, `PIDFileCorrect` | `OneTerminal => []OneDaemon`, `OneTerminal => []PIDFileNamesDaemon` | see below |
| `StopCorrect` | `OneTerminal => StopIsTruthful` | from the same invariant: stop lets go of its target only when `Owners` is empty |
| `SocketCorrect` | `OneTerminal => SocketLostOnlyToPredecessor` | from the same invariant: three actions change the socket path, and whoever takes one of them is an owner of the PID file, hence the serving daemon itself, or is past its `RemovePID` and closes its listener |

`OneDaemon` is far from inductive: nothing in it speaks of the PID file. The invariant `OwnerInv`
says who owns that file: a daemon from its first step until its deferred `RemovePID`. There is at
most one owner; a file that is written names it; an owner that has not written yet is the child
of a start command that still polls. And it says what a command knows at each step (`Knows`):
between the read and the probe of a PID nobody but that process owns the file; a command that is
about to remove it, or to spawn a child, knows that there is no owner. The late `RemovePID`
of an ending daemon is harmless because it is by definition the end of that daemon's
ownership; that of stop, because it follows a `SIGKILL`. The second terminal is what breaks
`Knows`, which is why the four theorems have the hypothesis `OneTerminal` (all members
of `Commands` are the same), and `daemon_twostarts` has two. Their properties are about
orderly machines, as in the run. In the same way `OrderCorrect` has the hypothesis
`SerialCommits`.

The hook theorems are about files of any length, which the user and synth change in turn. Every
such change is a splice: lines `a + 1` to `c - 1` of the file become other lines (`IsSplice`). Installing
puts a block where no line was or in the place of all from the first start marker to the first
end marker (`InstalledIs`); uninstalling takes these away and the blank lines around them
(`UninstalledIs`). Three facts about a file are carried over each splice. *Whole*: it has no line of a
block, or exactly one block (`HookInv` says so of the file on disk and of the one that was read, because
the second will replace the first). *The user's lines in order* (`UserLinesAre`): a splice
that touches none of them moves the rest by an order-preserving map, and such a map keeps the rank of
each line among them (`MovedInOrder`, `MovedKeeps`). *Exposed*: once the user has edited the markers the two facts
above are lost, and the code may double lines or leave half a block. What still holds is
that each line of the user's is before the first start marker or behind the last end marker,
out of reach of what is replaced. That is stronger than "it is there", and inductive. The third
fact was found to be needed when the plain statement turned out not to be inductive: a line between a start
and an end marker is there, and the next install would remove it.

`QuietModelIsWhole` says nothing of files that are being filled. `FinalInv` and `TmpInv` do: a file
that is not whole is open in a download that has put all the chunks up to its own position into
it. One that truncates a file which another one fills starts again at the first chunk: from then
on it is the one that will complete the file. A copy that is cut off
beside another one (`cut`) leaves nobody to complete it, which is why the property excepts it. A
`.tmp` is included only as long as somebody may rename it: what a lone download leaves
behind is truncated before the next rename.

Assumptions: `FilesAssumption`, `PipelineAssumption`, `EngineAssumption`, `MigrationsAssumption`,
`IpcAssumption`, `LowContextAssumption`, `LogAssumption`, `HookAssumption`, `InitAssumption`,
`DownloadAssumption`, `QueriesAssumption`, `LifecycleAssumption`; all are evaluated by TLC in the runs of their module.

## 5. Model-checked only

* Liveness (`EveryNoteEmbedded`, `StartRecovers`, `CommandsReturn`, `UsedModelUnloaded`,
  `CacheConverges`, `SearchesEnd`, `SlotsAreFreed`): `ENABLED` and fairness are out of the
  prover's reach.
* Facts about recursive definitions (induction over data) are out of its reach, too. The modules
  contain none. The user's lines of a hook are therefore not a selected subsequence (`SelectSeq`,
  which is recursive): `UserLinesAre` relates the two by ranks.
* `NoteLifecycle` has no fairness of its own, so `ImplementsLifecycle` is a safety property; that
  its notes are indexed at last is `EveryNoteEmbedded`.

Two things that the models contain and no property is about:

* `synth log --all` ("show all entries (no limit)", `internal/cli/log.go:45`) sets the limit to 0
  (`log.go:128`), and `ListIntents` takes 0 for 20 (`internal/store/intents.go:151`, 189-192): `AskLog` with
  limit 0 and `DefaultLimit` behave so.
* Notes that a first-release database holds when migration 2 makes the full-text index are
  not put into it (`002_phase1.sql` 35-46 creates it empty): `NotesStaySearchable` is about
  notes that are written or updated under the schema.

## 6. Abstractions

A file, a note's text and a vector are model values or numbers; only which one belongs to
which is kept. JSON framing is well-formed or not. Time is a counter where a window or an
order matters (`NotePipeline`, `LowContext`) and "a deadline may pass at any moment" where it
does not. One project and one model directory. SQL statements are atomic, as in SQLite's WAL
mode with one connection per process; a statement that fails with `SQLITE_BUSY` is the failing
twin of its action. Processes that reuse a dead daemon's PID are daemons.

## 7. Mutants

Every property of every passing run has a mutant: an operator beside the definition it
replaces, which changes it as a plausible bug would (a missing `WHERE` clause, an unchecked
error, a callback without its mutex). With the mutant in place TLC finds the property
violated. They are marked `mutant` in the modules and listed in `PROJECT.json`.

## 8. Not modelled, and the plan

Not modelled:

* `internal/ui` and the rendering in `internal/cli` (presentation), `internal/git/repo.go` (runs git and
  parses its output), the service unit files and the calls of launchctl and systemctl in
  `internal/daemon/service.go` (I/O; the restart they ask for is in `DaemonLifecycle`),
  `cmd/synth-server` and `internal/server` (a stub without clients). The VS Code extension is a
  read-only client of the socket.
* The file menu of `synth note` and the normalisation of paths: the session of the model is
  given its file.
* Which directories are watched. A directory that is created later is not, so its saves are
  not counted; every file of `LowContext` is in a directory that is. A set of watched
  directories beside each file would multiply the states of `lowctx_loop`, the largest run
  (650 000), for a fact that no fairness or order changes.
* Two inits at once, the escaping of names in the TOML text, and the global config, which no
  command writes.
* Processes that are no daemons and reuse a dead daemon's PID.
* `IsModelPresent`, by which the daemon decides whether to embed, asks for two files of the list:
  in `NotePipeline` the model is there or not.

The plan, in this order:

1. Theorems for two terminals: what of `PIDFileNamesDaemon` and `StopIsTruthful` is left when
   several commands run at once, as weaker properties with their own run.
2. Lemmas about `Uninstalled` after `Installed`: which blank lines an install and an uninstall
   leave behind.
3. Watched directories, in an instance of their own if not in `lowctx_loop`.
