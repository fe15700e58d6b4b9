--------------------------- MODULE DaemonLifecycle ---------------------------
(***************************************************************************)
(* Daemon processes, the PID file and the socket path they share, and the  *)
(* commands that start, stop and restart them (internal/daemon/daemon.go,  *)
(* internal/ipc/server.go, internal/cli/daemon.go).                        *)
(*                                                                         *)
(* Nothing but the two paths tells a daemon from another one: there is no  *)
(* lock, and every step below (open, write, read, unlink, bind, signal) is *)
(* a system call that other processes interleave with.  A signal goes to   *)
(* whatever daemon has the PID at that moment.                             *)
(***************************************************************************)
EXTENDS Naturals, FiniteSets

CONSTANTS Pids,       \* process ids
          Commands,   \* terminals that run `synth daemon ...'
          NoPid,      \* the path does not exist
          Machines,   \* the machines considered, see below
          MaxFaults   \* bound: daemons that crash or cannot write their PID,
                      \* and spawns that fail

\* A machine runs the daemon as a service of launchd or systemd, or not; and it
\* is so quick that a child writes its PID within the 3 s for which start waits,
\* or not.  It hands out these process ids (a bound).
Machine == [service : BOOLEAN, quick : BOOLEAN, pids : SUBSET Pids]

Empty == "empty"  \* os.WriteFile truncated the file and has not written yet

ASSUME LifecycleAssumption ==
  /\ NoPid \notin Pids /\ Empty \notin Pids /\ Empty # NoPid
  /\ Machines \subseteq Machine
  /\ MaxFaults \in Nat

VARIABLES machine,    \* the machine, which never changes
          proc,       \* pid -> how far the daemon of that pid has come
          pidFile,    \* whose pid ~/.synth/daemon.pid holds
          orphans,    \* daemons whose open PID file was unlinked
          sock,       \* which daemon bound the file at the socket path
          listening,  \* daemons whose listener is open
          signalled,  \* daemons with a SIGTERM in sigCh
          faults,     \* how much went wrong so far
          supervised, \* the child of the service manager
          cpc,        \* command -> its next step
          job,        \* command -> what it is doing
          seen        \* command -> the pid it read

hostVars    == <<machine, supervised>>
daemonVars  == <<proc, orphans, listening, signalled, faults, hostVars>>
fileVars    == <<pidFile, sock>>
commandVars == <<cpc, job, seen>>
vars == <<daemonVars, fileVars, commandVars>>

\* "waiting": Run has left its loop and its deferred functions are next.
Steps == {"free", "boot", "opened", "written", "notified", "unlinked",
          "serving", "loop", "waiting", "exiting"}
Alive(p) == proc[p] # "free"

\* A daemon that is starting or running, and has not begun to clean up.
Running(p) == Alive(p) /\ proc[p] \notin {"waiting", "exiting"}

\* "target" is the process that stop found, and signals to the end, whatever
\* the PID file names by then.
Jobs == [op : {"start", "stop"}, phase : {"check", "poll"}, restart : BOOLEAN,
         target : Pids \cup {NoPid}]
NewJob(op, restart) ==
  [op |-> op, phase |-> "check", restart |-> restart, target |-> NoPid]
NoJob == NewJob("start", FALSE)

Init ==
  /\ machine \in Machines
  /\ proc = [p \in Pids |-> "free"]
  /\ pidFile = NoPid
  /\ orphans = {}
  /\ sock = NoPid
  /\ listening = {}
  /\ signalled = {}
  /\ faults = 0
  /\ supervised = NoPid
  /\ cpc = [c \in Commands |-> "idle"]
  /\ job = [c \in Commands |-> NoJob]
  /\ seen = [c \in Commands |-> NoPid]
-----------------------------------------------------------------------------
(* Daemon.Run, up to its loop *)

Goto(p, step) == proc' = [proc EXCEPT ![p] = step]

Fault ==
  /\ faults < MaxFaults
  /\ faults' = faults + 1

\* What the kernel does at the end of a process: the files stay.
Vanish(p) ==
  /\ Goto(p, "free")
  /\ listening' = listening \ {p}
  /\ signalled' = signalled \ {p}
  /\ orphans' = orphans \ {p}

\* The path is unlinked whatever it holds; who has the file open keeps a file
\* without a name.
RemovePID ==
  /\ pidFile' = NoPid
  /\ orphans' = orphans \cup {p \in Pids : proc[p] = "opened"}

\* WritePID, first half: os.WriteFile opens the file with O_TRUNC.
OpenPID(p) ==
  /\ proc[p] = "boot"
  /\ Goto(p, "opened")
  /\ pidFile' = Empty
  /\ UNCHANGED <<orphans, sock, listening, signalled, faults, hostVars,
                 commandVars>>

\* os.MkdirAll or os.WriteFile fails, before the file is truncated or after it:
\* Run returns before it has deferred anything, and the process ends.
WritePIDFails(p) ==
  /\ proc[p] \in {"boot", "opened"}
  /\ Fault
  /\ Vanish(p)
  /\ UNCHANGED <<hostVars, fileVars, commandVars>>

\* Second half: a file that lost its name meanwhile takes the pid with it.
WritePID(p) ==
  /\ proc[p] = "opened"
  /\ Goto(p, "written")
  /\ pidFile' = IF p \in orphans THEN pidFile ELSE p
  /\ orphans' = orphans \ {p}
  /\ UNCHANGED <<sock, listening, signalled, faults, hostVars, commandVars>>

Notify(p) ==
  /\ proc[p] = "written"
  /\ Goto(p, "notified")
  /\ UNCHANGED <<orphans, listening, signalled, faults, hostVars, fileVars,
                 commandVars>>

\* Mutant: the path is left as the last daemon left it.
KeepSocket(p) ==
  /\ proc[p] = "notified"
  /\ Goto(p, "unlinked")
  /\ UNCHANGED <<orphans, listening, signalled, faults, hostVars, fileVars,
                 commandVars>>

\* Server.Start removes whatever is at the socket path, a live socket included.
RemoveSocket(p) ==
  /\ proc[p] = "notified"
  /\ Goto(p, "unlinked")
  /\ sock' = NoPid
  /\ UNCHANGED <<pidFile, orphans, listening, signalled, faults, hostVars,
                 commandVars>>

Listen(p) ==
  /\ proc[p] = "unlinked"
  /\ sock = NoPid
  /\ Goto(p, "serving")
  /\ sock' = p
  /\ listening' = listening \cup {p}
  /\ UNCHANGED <<pidFile, orphans, signalled, faults, hostVars, commandVars>>

\* Another daemon bound the path since: Run returns the error.
ListenFails(p) ==
  /\ proc[p] = "unlinked"
  /\ sock # NoPid
  /\ Goto(p, "waiting")
  /\ UNCHANGED <<orphans, listening, signalled, faults, hostVars, fileVars,
                 commandVars>>

\* The store, the watcher, the embedder, the handlers and the scorer are up.
EnterLoop(p) ==
  /\ proc[p] = "serving"
  /\ Goto(p, "loop")
  /\ UNCHANGED <<orphans, listening, signalled, faults, hostVars, fileVars,
                 commandVars>>
-----------------------------------------------------------------------------
(* Its end *)

\* Run starts Shutdown in a goroutine and returns without waiting for it.
TakeSignal(p) ==
  /\ proc[p] = "loop"
  /\ p \in signalled
  /\ Goto(p, "waiting")
  /\ signalled' = signalled \ {p}
  /\ UNCHANGED <<orphans, listening, faults, hostVars, fileVars, commandVars>>

\* The deferred RemovePID does not look whose PID the file holds.
DeferredRemovePID(p) ==
  /\ proc[p] = "waiting"
  /\ Goto(p, "exiting")
  /\ RemovePID
  /\ UNCHANGED <<sock, listening, signalled, faults, hostVars, commandVars>>

\* Shutdown's goroutine and watchShutdown may or may not get to run before the
\* process ends.  Closing the listener unlinks the path, whoever bound it last.
CloseListener(p) ==
  /\ proc[p] \in {"waiting", "exiting"}
  /\ p \in listening
  /\ listening' = listening \ {p}
  /\ sock' = NoPid
  /\ UNCHANGED <<proc, pidFile, orphans, signalled, faults, hostVars,
                 commandVars>>

Exit(p) ==
  /\ proc[p] = "exiting"
  /\ Vanish(p)
  /\ UNCHANGED <<faults, hostVars, fileVars, commandVars>>

Crash(p) ==
  /\ Alive(p)
  /\ Fault
  /\ Vanish(p)
  /\ UNCHANGED <<hostVars, fileVars, commandVars>>
-----------------------------------------------------------------------------
(* Who starts a daemon *)

Spawn(p) ==
  /\ p \in machine.pids
  /\ proc[p] = "free"
  /\ Goto(p, "boot")

\* launchd (KeepAlive) and systemd (Restart=on-failure, or a login) run the
\* child directly: nothing looks at the PID file first.
ServiceStarts(p) ==
  /\ machine.service
  /\ supervised \in Pids => ~Alive(supervised)
  /\ Spawn(p)
  /\ supervised' = p
  /\ UNCHANGED <<machine, orphans, listening, signalled, faults, fileVars,
                 commandVars>>

Set(c, step, newJob, pid) ==
  /\ cpc' = [cpc EXCEPT ![c] = step]
  /\ job' = [job EXCEPT ![c] = newJob]
  /\ seen' = [seen EXCEPT ![c] = pid]

Done(c) == Set(c, "idle", NoJob, NoPid)

StartCommand(c) ==
  /\ cpc[c] = "idle"
  /\ Set(c, "read", NewJob("start", FALSE), NoPid)
  /\ UNCHANGED <<daemonVars, fileVars>>

StopCommand(c) ==
  /\ cpc[c] = "idle"
  /\ \E r \in BOOLEAN : Set(c, "read", NewJob("stop", r), NoPid)
  /\ UNCHANGED <<daemonVars, fileVars>>

\* What a command does once IsDaemonRunning answered: each line is a return or
\* the next statement of runDaemonStart and runDaemonStop.
IfRunning(c) ==
  \/ job[c].op = "start" /\ Done(c)
  \/ /\ job[c].op = "stop" /\ job[c].phase = "check"
     /\ Set(c, "term", [job[c] EXCEPT !.target = seen[c]], seen[c])
  \/ /\ job[c].op = "stop" /\ job[c].phase = "poll"
     /\ Set(c, "read", job[c], NoPid)

EndOfStop(c) ==
  IF job[c].restart
  THEN Set(c, "read", NewJob("start", FALSE), NoPid)
  ELSE Done(c)

IfNotRunning(c) ==
  \/ job[c].op = "stop" /\ EndOfStop(c)
  \/ /\ job[c].op = "start" /\ job[c].phase = "check"
     /\ Set(c, "spawn", job[c], NoPid)
  \/ /\ job[c].op = "start" /\ job[c].phase = "poll"
     /\ Set(c, "read", job[c], NoPid)

\* The file exists and holds no number.  Only the first check reports it; the
\* polling loops take it for "not running".
IfUnreadable(c) ==
  IF job[c].phase = "check" THEN Done(c) ELSE IfNotRunning(c)

ReadPID(c) ==
  /\ cpc[c] = "read"
  /\ \/ pidFile = NoPid /\ IfNotRunning(c)
     \/ pidFile = Empty /\ IfUnreadable(c)
     \/ pidFile \in Pids /\ Set(c, "probe", job[c], pidFile)
  /\ UNCHANGED <<daemonVars, fileVars>>

\* Mutant: signal 0 is never delivered, so every PID seems to be dead.
NoProcessIsRunning(c) ==
  /\ cpc[c] = "probe"
  /\ Set(c, "clean", job[c], seen[c])
  /\ UNCHANGED <<daemonVars, fileVars>>

IsProcessRunning(c) ==
  /\ cpc[c] = "probe"
  /\ IF Alive(seen[c]) THEN IfRunning(c)
                       ELSE Set(c, "clean", job[c], seen[c])
  /\ UNCHANGED <<daemonVars, fileVars>>

\* A dead daemon's PID file is removed, and so is one that another daemon wrote
\* since it was read.
RemoveStalePID(c) ==
  /\ cpc[c] = "clean"
  /\ RemovePID
  /\ IfNotRunning(c)
  /\ UNCHANGED <<proc, sock, listening, signalled, faults, hostVars>>

SpawnChild(c) ==
  /\ cpc[c] = "spawn"
  /\ \E p \in Pids : Spawn(p)
  /\ Set(c, "read", [job[c] EXCEPT !.phase = "poll"], NoPid)
  /\ UNCHANGED <<orphans, listening, signalled, faults, hostVars, fileVars>>

\* The executable is not found, or the system has no process to spare: it fails
\* once in a while, and as long as every process id is taken.
SpawnFails(c) ==
  /\ cpc[c] = "spawn"
  /\ \/ Fault
     \/ (\A p \in machine.pids : Alive(p)) /\ UNCHANGED faults
  /\ Done(c)
  /\ UNCHANGED <<proc, orphans, listening, signalled, hostVars, fileVars>>

\* Mutant: the command does not wait for the daemon it signalled.
SignalAndReturn(c) ==
  /\ cpc[c] = "term"
  /\ Alive(job[c].target)
  /\ EndOfStop(c)
  /\ signalled' = signalled \cup {job[c].target}
  /\ UNCHANGED <<proc, orphans, listening, faults, hostVars, fileVars>>

\* The first of the deferred functions is signal.Stop, which comes somewhere in
\* "waiting".
Handled == {"notified", "unlinked", "serving", "loop", "waiting"}
Unhandled == {"boot", "opened", "written", "waiting", "exiting"}

\* SIGTERM.  Between signal.Notify and signal.Stop it waits in sigCh until the
\* loop is reached; otherwise it kills the daemon, whose deferred functions do
\* not run any more.
Terminate(c) ==
  /\ cpc[c] = "term"
  /\ IF Alive(job[c].target)
     THEN /\ Set(c, "read", [job[c] EXCEPT !.phase = "poll"], NoPid)
          /\ \/ proc[job[c].target] \in Unhandled /\ Vanish(job[c].target)
             \/ /\ proc[job[c].target] \in Handled
                /\ signalled' = signalled \cup {job[c].target}
                /\ UNCHANGED <<proc, orphans, listening>>
     ELSE Done(c) /\ UNCHANGED <<proc, orphans, listening, signalled>>
  /\ UNCHANGED <<faults, hostVars, fileVars>>

\* Mutant: start polls until the daemon answers.
NoStartDeadline(c) == FALSE /\ UNCHANGED vars

\* The 3 s of start are over: it fails, and leaves the child alone.
StartDeadline(c) ==
  /\ cpc[c] = "read"
  /\ job[c].op = "start" /\ job[c].phase = "poll"
  /\ machine.quick => \A p \in Pids : proc[p] \notin {"boot", "opened"}
  /\ Done(c)
  /\ UNCHANGED <<daemonVars, fileVars>>

\* Mutant: the PID file is removed and the daemon is not killed.
StopDeadlineWithoutKill(c) ==
  /\ cpc[c] = "read"
  /\ job[c].op = "stop" /\ job[c].phase = "poll"
  /\ Set(c, "unpid", job[c], NoPid)
  /\ UNCHANGED <<daemonVars, fileVars>>

\* The 5 s of stop are over.
StopDeadline(c) ==
  /\ cpc[c] = "read"
  /\ job[c].op = "stop" /\ job[c].phase = "poll"
  /\ Set(c, "kill", job[c], NoPid)
  /\ UNCHANGED <<daemonVars, fileVars>>

Kill(c) ==
  /\ cpc[c] = "kill"
  /\ IF Alive(job[c].target)
     THEN Vanish(job[c].target)
     ELSE UNCHANGED <<proc, listening, signalled, orphans>>
  /\ Set(c, "unpid", job[c], NoPid)
  /\ UNCHANGED <<faults, hostVars, fileVars>>

ForcedRemovePID(c) ==
  /\ cpc[c] = "unpid"
  /\ RemovePID
  /\ EndOfStop(c)
  /\ UNCHANGED <<proc, sock, listening, signalled, faults, hostVars>>
-----------------------------------------------------------------------------
Boot(p) ==
  OpenPID(p) \/ WritePID(p) \/ Notify(p) \/ RemoveSocket(p) \/ Listen(p)
    \/ ListenFails(p) \/ EnterLoop(p)

Ending(p) == TakeSignal(p) \/ DeferredRemovePID(p) \/ Exit(p)

Command(c) ==
  ReadPID(c) \/ IsProcessRunning(c) \/ RemoveStalePID(c) \/ SpawnChild(c)
    \/ SpawnFails(c) \/ Terminate(c) \/ Kill(c) \/ ForcedRemovePID(c)

Next ==
  \/ \E p \in Pids : \/ Boot(p) \/ Ending(p) \/ CloseListener(p)
                     \/ WritePIDFails(p) \/ Crash(p) \/ ServiceStarts(p)
  \/ \E c \in Commands : \/ StartCommand(c) \/ StopCommand(c) \/ Command(c)
                         \/ StartDeadline(c) \/ StopDeadline(c)

Spec == Init /\ [][Next]_vars

\* Processes run, and time passes: a polling loop that goes on for ever would
\* outlast its deadline.
Fairness ==
  /\ \A p \in Pids : WF_vars(Boot(p)) /\ WF_vars(Ending(p))
  /\ \A c \in Commands : /\ WF_vars(Command(c))
                         /\ SF_vars(StartDeadline(c))
                         /\ SF_vars(StopDeadline(c))

FairSpec == Spec /\ Fairness
-----------------------------------------------------------------------------
(* Properties *)

TypeOK ==
  /\ machine \in Machines
  /\ proc \in [Pids -> Steps]
  /\ pidFile \in Pids \cup {NoPid, Empty}
  /\ orphans \in SUBSET Pids
  /\ sock \in Pids \cup {NoPid}
  /\ listening \in SUBSET Pids
  /\ signalled \in SUBSET Pids
  /\ faults \in 0..MaxFaults
  /\ supervised \in Pids \cup {NoPid}
  /\ cpc \in [Commands -> {"idle", "read", "probe", "clean", "spawn", "term",
                           "kill", "unpid"}]
  /\ job \in [Commands -> Jobs]
  /\ seen \in [Commands -> Pids \cup {NoPid}]

\* No service manager starts daemons of its own, and none is slow to begin.
Orderly == ~machine.service /\ machine.quick

\* `synth daemon start' refuses to start a second daemon.
OneDaemon ==
  Orderly => \A p, q \in Pids : Running(p) /\ Running(q) => p = q

\* As long as a daemon serves, the PID file leads the commands to it.
PIDFileNamesDaemon ==
  Orderly =>
    \A p \in Pids :
      Running(p) /\ proc[p] \notin {"boot", "opened"} => pidFile = p

Serving(p) == proc[p] \in {"serving", "loop"}

\* A daemon that serves loses its socket to nobody who is starting: only a
\* predecessor that removed its PID file already, but is late to close its
\* listener, can unlink the path.
SocketLostOnlyToPredecessor ==
  [][\A p \in Pids :
       Orderly /\ Serving(p) /\ Serving(p)' /\ sock = p /\ sock' # p =>
         \E q \in Pids : proc[q] = "exiting" /\ q \in listening \ listening']_vars

\* When stop reports "daemon stopped", the daemon it found has left its loop: a
\* successor may be started.
StopIsTruthful ==
  [][\A c \in Commands, p \in Pids :
       Orderly /\ job[c].target = p /\ job'[c].target # p => ~Running(p)']_vars

\* No command hangs, whatever crashes in the meantime.
CommandsReturn == \A c \in Commands : cpc[c] # "idle" ~> cpc[c] = "idle"

\* A start recovers from a crash that left a PID file with a PID, a socket or
\* both: from the moment it looks at the file, if nothing goes wrong any more, a
\* daemon gets to its loop, unless the next command is a stop.  (What it does
\* not recover from is the empty file, see StalePIDFileRemoved.)
StartRecovers ==
  Orderly => \A c \in Commands :
    (/\ cpc[c] = "read" /\ job[c].op = "start" /\ job[c].phase = "check"
     /\ pidFile # Empty
     /\ faults = MaxFaults /\ \E p \in machine.pids : ~Alive(p)) ~>
      (\E p \in Pids : proc[p] = "loop") \/ job[c].op = "stop"

\* The PID file of a daemon that is gone does not stop a start: "expected stale
\* PID file to be removed" (daemon_test.go 168), so the first look at the file
\* turns a start away only if a daemon is alive.  The code breaks this: one that
\* ends between the truncation of the file and the write leaves it empty, and
\* an empty file is an error of every later start.
StalePIDFileRemoved ==
  [][\A c \in Commands :
       (/\ cpc[c] = "read" /\ job[c].op = "start" /\ job[c].phase = "check"
        /\ cpc'[c] = "idle") => \E p \in Pids : Alive(p)]_vars
=============================================================================
