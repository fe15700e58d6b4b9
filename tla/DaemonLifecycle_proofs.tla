------------------------ MODULE DaemonLifecycle_proofs ------------------------
(***************************************************************************)
(* One terminal, whatever it does: at most one daemon, to which the PID    *)
(* file leads, for any number of process ids and of faults, and whose      *)
(* socket only a daemon that is on its way out can unlink.  With two       *)
(* terminals all of it is false (run daemon_twostarts).                    *)
(***************************************************************************)
EXTENDS DaemonLifecycle, TLAPS

\* One command at a time; the daemons interleave with it as they please.
OneTerminal == \A c, d \in Commands : c = d

CommandSteps == {"idle", "read", "probe", "clean", "spawn", "term", "kill", "unpid"}

\* Where a command can be, by what it is doing.
Fits(step, work, pid) ==
  /\ step = "idle" => work.target = NoPid
  /\ step = "spawn" => work.op = "start" /\ work.phase = "check"
  /\ step \in {"probe", "clean"} => pid \in Pids
  /\ step = "term" =>
       work.op = "stop" /\ work.phase = "check" /\ work.target \in Pids
  /\ step \in {"kill", "unpid"} => work.op = "stop" /\ work.phase = "poll"
  /\ work.op = "start" => work.target = NoPid
  /\ work.phase = "check" /\ step # "term" => work.target = NoPid
  /\ work.op = "stop" /\ work.phase = "poll" => work.target \in Pids

CommandTypes ==
  /\ cpc \in [Commands -> CommandSteps]
  /\ job \in [Commands -> Jobs]
  /\ seen \in [Commands -> Pids \cup {NoPid}]
  /\ \A c \in Commands : Fits(cpc[c], job[c], seen[c])

DaemonTypes ==
  /\ machine \in Machines
  /\ proc \in [Pids -> Steps]
  /\ pidFile \in Pids \cup {NoPid, Empty}
  /\ orphans \in SUBSET Pids
  /\ sock \in Pids \cup {NoPid}
  /\ listening \in SUBSET Pids
  /\ signalled \in SUBSET Pids
  /\ faults \in 0..MaxFaults
  /\ supervised \in Pids \cup {NoPid}

TypeInv == CommandTypes /\ DaemonTypes

\* A daemon owns the PID file from its first step to its deferred RemovePID.
Owner(p) == proc[p] \notin {"free", "exiting"}
Owners == {p \in Pids : Owner(p)}
Booting(p) == proc[p] \in {"boot", "opened"}

\* The start command that waits for its child.
Polling(c) ==
  cpc[c] = "read" /\ job[c].op = "start" /\ job[c].phase = "poll"

\* What a command knows of the daemons at each of its steps.
Knows(c) ==
  /\ cpc[c] = "probe" => Owners \subseteq {seen[c]}
  /\ cpc[c] \in {"clean", "spawn", "unpid"} => Owners = {}
  /\ cpc[c] = "spawn" => pidFile = NoPid
  /\ job[c].target \in Pids => Owners \subseteq {job[c].target}

OwnerInv ==
  /\ orphans = {}
  /\ \A p \in Pids : Owner(p) /\ ~Booting(p) => pidFile = p
  /\ \A p \in Pids : Booting(p) =>
       /\ pidFile \in {NoPid, Empty}
       /\ \E c \in Commands : Polling(c)
  /\ \A p, q \in Pids : Booting(p) /\ Booting(q) => p = q
  /\ \A c \in Commands : Knows(c)
-----------------------------------------------------------------------------
(* Types *)

LEMMA TypeInvInit == Init => TypeInv
  BY LifecycleAssumption
  DEF Init, TypeInv, CommandTypes, CommandSteps, DaemonTypes, Fits, Steps, Jobs,
      NoJob, NewJob, Machine

\* A new record of what a command is doing.
LEMMA Works ==
  /\ \A op \in {"start", "stop"}, r \in BOOLEAN :
       /\ NewJob(op, r) \in Jobs /\ NewJob(op, r).op = op
       /\ NewJob(op, r).phase = "check" /\ NewJob(op, r).target = NoPid
  /\ NoJob \in Jobs /\ NoJob.op = "start" /\ NoJob.phase = "check"
  /\ NoJob.target = NoPid
  /\ \A work \in Jobs :
       /\ work.op \in {"start", "stop"} /\ work.phase \in {"check", "poll"}
       /\ work.target \in Pids \cup {NoPid}
       /\ [work EXCEPT !.phase = "poll"] \in Jobs
       /\ [work EXCEPT !.phase = "poll"].op = work.op
       /\ [work EXCEPT !.phase = "poll"].phase = "poll"
       /\ [work EXCEPT !.phase = "poll"].target = work.target
       /\ \A p \in Pids :
            /\ [work EXCEPT !.target = p] \in Jobs
            /\ [work EXCEPT !.target = p].op = work.op
            /\ [work EXCEPT !.target = p].phase = work.phase
            /\ [work EXCEPT !.target = p].target = p
  BY DEF Jobs, NewJob, NoJob

LEMMA SetTypes ==
  ASSUME CommandTypes, NEW c \in Commands, NEW step \in CommandSteps,
         NEW work \in Jobs, NEW pid \in Pids \cup {NoPid},
         Set(c, step, work, pid), Fits(step, work, pid)
  PROVE  CommandTypes'
  BY DEF CommandTypes, Set

LEMMA DoneTypes ==
  ASSUME CommandTypes, NEW c \in Commands, Done(c) \/ EndOfStop(c)
  PROVE  CommandTypes'
<1>1. CASE Done(c)
  <2>1. Fits("idle", NoJob, NoPid) /\ "idle" \in CommandSteps
    BY Works, LifecycleAssumption DEF Fits, CommandSteps
  <2>2. QED BY <1>1, <2>1, Works, SetTypes DEF Done
<1>2. CASE Set(c, "read", NewJob("start", FALSE), NoPid)
  <2>1. Fits("read", NewJob("start", FALSE), NoPid) /\ "read" \in CommandSteps
    BY Works, LifecycleAssumption DEF Fits, CommandSteps
  <2>2. QED BY <1>2, <2>1, Works, SetTypes
<1> QED BY <1>1, <1>2 DEF EndOfStop

\* Whatever IsDaemonRunning answers.
LEMMA AnswerTypes ==
  ASSUME CommandTypes, NEW c \in Commands
  PROVE  /\ cpc[c] \in {"read", "clean"} /\ IfNotRunning(c) => CommandTypes'
         /\ cpc[c] = "read" /\ IfUnreadable(c) => CommandTypes'
         /\ cpc[c] = "probe" /\ IfRunning(c) => CommandTypes'
<1>1. /\ job[c] \in Jobs /\ Fits(cpc[c], job[c], seen[c])
      /\ {"read", "spawn", "term"} \subseteq CommandSteps
  BY DEF CommandTypes, CommandSteps
<1>2. ASSUME cpc[c] \in {"read", "clean"}, IfNotRunning(c)
      PROVE  CommandTypes'
  <2>1. ASSUME job[c].op = "start" PROVE Fits("read", job[c], NoPid)
    BY <1>1, <2>1, LifecycleAssumption DEF Fits
  <2>2. ASSUME job[c].op = "start", job[c].phase = "check"
        PROVE  Fits("spawn", job[c], NoPid)
    BY <1>1, <2>2, LifecycleAssumption DEF Fits
  <2> QED BY <1>1, <1>2, <2>1, <2>2, DoneTypes, SetTypes DEF IfNotRunning
<1>3. ASSUME cpc[c] = "read", IfUnreadable(c)
      PROVE  CommandTypes'
  BY <1>2, <1>3, DoneTypes DEF IfUnreadable
<1>4. ASSUME cpc[c] = "probe", IfRunning(c)
      PROVE  CommandTypes'
  <2>1. seen[c] \in Pids
    BY <1>1, <1>4 DEF Fits
  <2>2. CASE job[c].op = "stop" /\ job[c].phase = "check"
    <3>1. Fits("term", [job[c] EXCEPT !.target = seen[c]], seen[c])
      BY <1>1, <2>1, <2>2, Works, LifecycleAssumption DEF Fits
    <3> QED BY <1>1, <1>4, <2>1, <2>2, <3>1, Works, SetTypes DEF IfRunning
  <2>3. CASE job[c].op = "stop" /\ job[c].phase = "poll"
    <3>1. Fits("read", job[c], NoPid)
      BY <1>1, <2>3, LifecycleAssumption DEF Fits
    <3> QED BY <1>1, <1>4, <2>3, <3>1, SetTypes DEF IfRunning
  <2> QED BY <1>1, <1>4, <2>2, <2>3, Works, DoneTypes DEF IfRunning
<1> QED BY <1>2, <1>3, <1>4

CommandStep(c) == StartCommand(c) \/ StopCommand(c) \/ Command(c)
                    \/ StartDeadline(c) \/ StopDeadline(c)
DaemonStep(p) == Boot(p) \/ Ending(p) \/ CloseListener(p) \/ WritePIDFails(p)
                   \/ Crash(p) \/ ServiceStarts(p)

LEMMA CommandStepTypes ==
  ASSUME TypeInv, NEW c \in Commands, CommandStep(c)
  PROVE  CommandTypes'
<1>1. /\ CommandTypes /\ job[c] \in Jobs /\ Fits(cpc[c], job[c], seen[c])
      /\ CommandSteps = {"idle", "read", "probe", "clean", "spawn", "term", "kill",
                         "unpid"}
  BY DEF TypeInv, CommandTypes, CommandSteps
<1>2. CASE StartCommand(c) \/ StopCommand(c)
  <2>1. \A op \in {"start", "stop"}, r \in BOOLEAN :
          Fits("read", NewJob(op, r), NoPid) /\ NewJob(op, r) \in Jobs
    BY Works, LifecycleAssumption DEF Fits
  <2>2. \A op \in {"start", "stop"}, r \in BOOLEAN :
          Set(c, "read", NewJob(op, r), NoPid) => CommandTypes'
    BY <1>1, <2>1, SetTypes
  <2> QED BY <1>2, <2>2 DEF StartCommand, StopCommand
<1>3. CASE ReadPID(c)
  <2>1. CASE pidFile \in Pids /\ Set(c, "probe", job[c], pidFile)
    <3>1. Fits("probe", job[c], pidFile)
      BY <1>1, <1>3, <2>1 DEF Fits, ReadPID
    <3> QED BY <1>1, <2>1, <3>1, SetTypes
  <2>2. CASE IfNotRunning(c) \/ IfUnreadable(c)
    <3>1. cpc[c] = "read"
      BY <1>3 DEF ReadPID
    <3> QED BY <1>1, <2>2, <3>1, AnswerTypes
  <2> QED BY <1>3, <2>1, <2>2 DEF ReadPID
<1>4. CASE IsProcessRunning(c)
  <2>1. CASE Set(c, "clean", job[c], seen[c])
    <3>1. Fits("clean", job[c], seen[c]) /\ seen[c] \in Pids
      BY <1>1, <1>4 DEF Fits, IsProcessRunning
    <3> QED BY <1>1, <2>1, <3>1, SetTypes
  <2> QED BY <1>1, <1>4, <2>1, AnswerTypes DEF IsProcessRunning
<1>5. CASE RemoveStalePID(c)
  <2>1. IfNotRunning(c) /\ cpc[c] = "clean"
    BY <1>5 DEF RemoveStalePID
  <2> QED BY <1>1, <2>1, AnswerTypes
<1>6. CASE SpawnChild(c) \/ SpawnFails(c)
  <2>1. CASE Set(c, "read", [job[c] EXCEPT !.phase = "poll"], NoPid)
    <3>1. Fits("read", [job[c] EXCEPT !.phase = "poll"], NoPid)
      <4>1. job[c].op = "start"
        BY <1>1, <1>6 DEF Fits, SpawnChild, SpawnFails
      <4> QED BY <1>1, <4>1, Works, LifecycleAssumption DEF Fits
    <3> QED BY <1>1, <2>1, <3>1, Works, SetTypes
  <2> QED BY <1>1, <1>6, <2>1, DoneTypes DEF SpawnChild, SpawnFails
<1>7. CASE Terminate(c)
  <2>1. CASE Set(c, "read", [job[c] EXCEPT !.phase = "poll"], NoPid)
    <3>1. Fits("read", [job[c] EXCEPT !.phase = "poll"], NoPid)
      <4>1. job[c].op = "stop" /\ job[c].target \in Pids
        BY <1>1, <1>7 DEF Fits, Terminate
      <4> QED BY <1>1, <4>1, Works, LifecycleAssumption DEF Fits
    <3> QED BY <1>1, <2>1, <3>1, Works, SetTypes
  <2> QED BY <1>1, <1>7, <2>1, DoneTypes DEF Terminate
<1>8. CASE StopDeadline(c)
  <2>1. Fits("kill", job[c], NoPid) /\ Set(c, "kill", job[c], NoPid)
    BY <1>1, <1>8, LifecycleAssumption DEF Fits, StopDeadline
  <2> QED BY <1>1, <2>1, SetTypes
<1>9. CASE Kill(c)
  <2>1. Fits("unpid", job[c], NoPid) /\ Set(c, "unpid", job[c], NoPid)
    BY <1>1, <1>9, LifecycleAssumption DEF Fits, Kill
  <2> QED BY <1>1, <2>1, SetTypes
<1>10. CASE StartDeadline(c) \/ ForcedRemovePID(c)
  BY <1>1, <1>10, DoneTypes DEF StartDeadline, ForcedRemovePID
<1> QED BY <1>2, <1>3, <1>4, <1>5, <1>6, <1>7, <1>8, <1>9, <1>10
        DEF CommandStep, Command

LEMMA DaemonStepTypes ==
  ASSUME TypeInv, NEW p \in Pids, DaemonStep(p)
  PROVE  TypeInv'
<1>1. DaemonTypes /\ MaxFaults \in Nat
  BY LifecycleAssumption DEF TypeInv
<1>2. ASSUME NEW step \in Steps, Goto(p, step)
      PROVE  proc' \in [Pids -> Steps]
  BY <1>1, <1>2 DEF Goto, DaemonTypes
<1>3. \A step \in {"free", "boot", "opened", "written", "notified", "unlinked",
                    "serving", "loop", "waiting", "exiting"} : step \in Steps
  BY DEF Steps
<1>4. DaemonTypes'
  <2>1. CASE Boot(p)
    BY <1>1, <1>2, <1>3, <2>1
    DEF DaemonTypes, Boot, OpenPID, WritePID, Notify, RemoveSocket, Listen,
        ListenFails, EnterLoop, hostVars, fileVars
  <2>2. CASE Ending(p) \/ CloseListener(p)
    BY <1>1, <1>2, <1>3, <2>2
    DEF DaemonTypes, Ending, TakeSignal, DeferredRemovePID, Exit, Vanish, RemovePID,
        CloseListener, hostVars, fileVars
  <2>3. CASE WritePIDFails(p) \/ Crash(p)
    BY <1>1, <1>2, <1>3, <2>3
    DEF DaemonTypes, WritePIDFails, Crash, Fault, Vanish, hostVars, fileVars
  <2>4. CASE ServiceStarts(p)
    BY <1>1, <1>2, <1>3, <2>4 DEF DaemonTypes, ServiceStarts, Spawn, hostVars, fileVars
  <2> QED BY <2>1, <2>2, <2>3, <2>4 DEF DaemonStep
<1>5. UNCHANGED commandVars
  BY DEF DaemonStep, Boot, OpenPID, WritePID, Notify, RemoveSocket, Listen,
         ListenFails, EnterLoop, Ending, TakeSignal, DeferredRemovePID, Exit,
         CloseListener, WritePIDFails, Crash, ServiceStarts, commandVars
<1> QED BY <1>4, <1>5 DEF TypeInv, CommandTypes, commandVars

LEMMA CommandDaemonTypes ==
  ASSUME TypeInv, NEW c \in Commands, CommandStep(c)
  PROVE  DaemonTypes'
<1>1. DaemonTypes /\ Fits(cpc[c], job[c], seen[c])
  BY DEF TypeInv, CommandTypes
<1>2. CASE UNCHANGED <<daemonVars, fileVars>>
  BY <1>1, <1>2 DEF DaemonTypes, daemonVars, hostVars, fileVars
<1>3. CASE RemoveStalePID(c) \/ ForcedRemovePID(c)
  BY <1>1, <1>3
  DEF RemoveStalePID, ForcedRemovePID, RemovePID, DaemonTypes, hostVars
<1>4. CASE SpawnChild(c)
  BY <1>1, <1>4 DEF SpawnChild, Spawn, Goto, DaemonTypes, Steps, hostVars, fileVars
<1>5. CASE Terminate(c)
  <2>1. job[c].target \in Pids
    BY <1>1, <1>5 DEF Terminate, Fits
  <2> QED BY <1>1, <1>5, <2>1
      DEF Terminate, Vanish, Goto, DaemonTypes, Steps, hostVars, fileVars
<1>6. CASE Kill(c)
  <2>1. job[c].target \in Pids
    BY <1>1, <1>6 DEF Kill, Fits
  <2> QED BY <1>1, <1>6, <2>1
      DEF Kill, Vanish, Goto, DaemonTypes, Steps, hostVars, fileVars
<1>7. CASE SpawnFails(c)
  BY <1>1, <1>7, LifecycleAssumption
  DEF SpawnFails, Fault, DaemonTypes, hostVars, fileVars
<1> QED BY <1>2, <1>3, <1>4, <1>5, <1>6, <1>7
    DEF CommandStep, Command, StartCommand, StopCommand, ReadPID, IsProcessRunning,
        StartDeadline, StopDeadline

LEMMA TypeInvStep == TypeInv /\ [Next]_vars => TypeInv'
<1> SUFFICES ASSUME TypeInv, [Next]_vars PROVE TypeInv'
    OBVIOUS
<1>1. ASSUME NEW p \in Pids, DaemonStep(p) PROVE TypeInv'
  BY <1>1, DaemonStepTypes
<1>2. ASSUME NEW c \in Commands, CommandStep(c) PROVE TypeInv'
  BY <1>2, CommandStepTypes, CommandDaemonTypes DEF TypeInv
<1>3. CASE UNCHANGED vars
  BY <1>3 DEF TypeInv, CommandTypes, DaemonTypes, vars, daemonVars, hostVars, fileVars,
              commandVars
<1> QED BY <1>1, <1>2, <1>3 DEF Next, DaemonStep, CommandStep

\* Every variable of the machine, the daemons and the commands keeps its type.
THEOREM LifecycleTypeCorrect == Spec => []TypeOK
<1>1. TypeInv => TypeOK
  BY DEF TypeInv, CommandTypes, CommandSteps, DaemonTypes, TypeOK
<1> QED BY <1>1, TypeInvInit, TypeInvStep, PTL DEF Spec
-----------------------------------------------------------------------------
(* Owners *)

\* The processes and the files are as they were.
SameHost == UNCHANGED <<proc, pidFile, orphans>>

\* Only the terminal that waits for its child can meet a daemon that boots, and
\* any other daemon is the one that the PID file names.
LEMMA OwnersNamed ==
  ASSUME OneTerminal, OwnerInv, NEW c \in Commands, ~Polling(c)
  PROVE  /\ \A p \in Pids : ~Booting(p)
         /\ Owners \subseteq {pidFile}
  BY DEF OneTerminal, OwnerInv, Owners

LEMMA QuietStep ==
  ASSUME OneTerminal, OwnerInv, NEW c \in Commands, ~Polling(c), SameHost, Knows(c)'
  PROVE  OwnerInv'
<1>1. \A p \in Pids : ~Booting(p) /\ ~Booting(p)'
  BY OwnersNamed DEF SameHost, Booting
<1>2. \A d \in Commands : d = c
  BY DEF OneTerminal
<1>3. \A p \in Pids : Owner(p)' => Owner(p)
  BY DEF SameHost, Owner
<1>4. orphans' = {} /\ \A p \in Pids : Owner(p)' /\ ~Booting(p)' => pidFile' = p
  BY <1>1, <1>3 DEF OwnerInv, SameHost
<1> QED BY <1>1, <1>2, <1>4 DEF OwnerInv

\* When the last daemon has left, nothing is to be shown but for a spawn.
LEMMA EmptyStep ==
  ASSUME OneTerminal, NEW c \in Commands, Owners' = {}, orphans' = {},
         cpc'[c] = "spawn" => pidFile' = NoPid
  PROVE  OwnerInv'
<1>1. \A p \in Pids : ~Owner(p)' /\ ~Booting(p)'
  BY DEF Owners, Owner, Booting
<1>2. Knows(c)'
  BY DEF Knows
<1> QED BY <1>1, <1>2 DEF OneTerminal, OwnerInv

LEMMA VanishedOwner ==
  ASSUME TypeInv, OwnerInv, NEW p \in Pids, Vanish(p)
  PROVE  /\ orphans' = {} /\ Owners' = Owners \ {p}
         /\ \A q \in Pids : q # p => proc'[q] = proc[q]
         /\ ~Owner(p)' /\ ~Booting(p)'
  BY DEF TypeInv, DaemonTypes, OwnerInv, Vanish, Goto, Owners, Owner, Booting

\* A daemon that wrote its PID goes on.
LEMMA OwnerGoesOn ==
  ASSUME TypeInv, OwnerInv, NEW p \in Pids, Owner(p), ~Booting(p),
         NEW step \in Steps \ {"free", "exiting", "boot", "opened"}, Goto(p, step),
         UNCHANGED <<pidFile, orphans, commandVars>>
  PROVE  OwnerInv'
<1>1. \A q \in Pids : Owner(q)' = Owner(q) /\ Booting(q)' = Booting(q)
  BY DEF TypeInv, DaemonTypes, Goto, Owner, Booting
<1>2. Owners' = Owners
  BY <1>1 DEF Owners
<1> QED BY <1>1, <1>2 DEF OwnerInv, Knows, Polling, commandVars

LEMMA OwnerInvInit == Init => OwnerInv
  BY LifecycleAssumption DEF Init, OwnerInv, Owner, Booting, Knows, NoJob, NewJob, Owners

LEMMA DaemonStepOwners ==
  ASSUME OneTerminal, TypeInv, Orderly, OwnerInv, NEW p \in Pids, DaemonStep(p)
  PROVE  OwnerInv'
<1>1. proc \in [Pids -> Steps] /\ UNCHANGED commandVars
  <2>1. UNCHANGED commandVars
    BY DEF DaemonStep, Boot, OpenPID, WritePID, Notify, RemoveSocket, Listen,
           ListenFails, EnterLoop, Ending, TakeSignal, DeferredRemovePID, Exit,
           CloseListener, WritePIDFails, Crash, ServiceStarts, commandVars
  <2> QED BY <2>1 DEF TypeInv, DaemonTypes
<1>2. CASE OpenPID(p)
  <2>1. /\ Booting(p) /\ pidFile' = Empty /\ orphans' = orphans
        /\ proc' = [proc EXCEPT ![p] = "opened"]
    BY <1>2 DEF OpenPID, Goto, Booting
  <2>2. \A q \in Pids : Owner(q) => q = p
    BY <2>1, LifecycleAssumption DEF OwnerInv
  <2>3. \A q \in Pids : /\ Owner(q)' => q = p
                        /\ Booting(q)' => q = p
                        /\ Owner(p) /\ Owner(p)' /\ Booting(p)'
    BY <1>1, <2>1, <2>2 DEF Owner, Booting
  <2>4. Owners' = Owners /\ Owners = {p}
    BY <2>2, <2>3 DEF Owners, Owner
  <2>5. \A c \in Commands : Knows(c)'
    BY <1>1, <2>4 DEF OwnerInv, Knows, commandVars
  <2>6. \E c \in Commands : Polling(c)'
    BY <1>1, <2>1 DEF OwnerInv, Polling, commandVars
  <2>7. orphans' = {} /\ pidFile' \in {NoPid, Empty}
    BY <2>1 DEF OwnerInv
  <2>8. /\ \A q \in Pids : Owner(q)' /\ ~Booting(q)' => pidFile' = q
        /\ \A q, r \in Pids : Booting(q)' /\ Booting(r)' => q = r
    BY <2>3 DEF Owner, Booting
  <2> QED BY <2>5, <2>6, <2>7, <2>8 DEF OwnerInv
<1>3. CASE WritePID(p)
  <2>1. /\ Booting(p) /\ pidFile' = p /\ orphans' = {}
        /\ proc' = [proc EXCEPT ![p] = "written"]
    BY <1>3 DEF WritePID, Goto, Booting, OwnerInv
  <2>2. \A q \in Pids : Owner(q) => q = p
    BY <2>1, LifecycleAssumption DEF OwnerInv
  <2>3. \A q \in Pids : /\ Owner(q)' => q = p
                        /\ ~Booting(q)'
                        /\ Owner(p)
    BY <1>1, <2>1, <2>2 DEF Owner, Booting
  <2>4. Owners' = Owners /\ Owners = {p}
    BY <1>1, <2>3, <2>1 DEF Owners, Owner, Booting
  <2> QED BY <1>1, <2>1, <2>3, <2>4 DEF OwnerInv, Knows, Polling, commandVars
<1>4. CASE Notify(p) \/ RemoveSocket(p) \/ Listen(p) \/ ListenFails(p) \/ EnterLoop(p)
             \/ TakeSignal(p)
  <2>1. /\ Owner(p) /\ ~Booting(p) /\ UNCHANGED <<pidFile, orphans>>
        /\ \E step \in {"notified", "unlinked", "serving", "waiting", "loop"} : Goto(p, step)
    BY <1>4 DEF Notify, RemoveSocket, Listen, ListenFails, EnterLoop, TakeSignal, Owner,
                Booting, fileVars
  <2> QED BY <1>1, <2>1, OwnerGoesOn DEF Steps
<1>5. CASE DeferredRemovePID(p)
  <2>1. /\ Owner(p) /\ ~Booting(p) /\ pidFile' = NoPid
        /\ proc' = [proc EXCEPT ![p] = "exiting"]
        /\ orphans' = {q \in Pids : proc[q] = "opened"}
    BY <1>5 DEF DeferredRemovePID, RemovePID, Goto, Owner, Booting, OwnerInv
  <2>2. \A q \in Pids : Owner(q) => q = p
    BY <2>1, LifecycleAssumption DEF OwnerInv, Owner, Booting
  <2>3. Owners' = {} /\ orphans' = {}
    BY <1>1, <2>1, <2>2 DEF Owners, Owner, Booting
  <2>4. \A q \in Pids : ~Owner(q)' /\ ~Booting(q)'
    BY <2>3 DEF Owners, Owner, Booting
  <2> QED BY <1>1, <2>1, <2>3, <2>4 DEF OwnerInv, Knows, commandVars
<1>6. CASE Exit(p) \/ WritePIDFails(p) \/ Crash(p)
  <2>1. Vanish(p) /\ pidFile' = pidFile
    BY <1>6 DEF Exit, WritePIDFails, Crash, fileVars
  <2>2. \A q \in Pids : /\ Owner(q)' => Owner(q)
                        /\ Booting(q)' => Booting(q)
                        /\ Owner(q)' /\ ~Booting(q)' => ~Booting(q)
    BY <2>1, VanishedOwner DEF Owner, Booting
  <2>3. orphans' = {} /\ Owners' \subseteq Owners
    BY <2>1, VanishedOwner
  <2>4. \A c \in Commands : Knows(c)' /\ (Polling(c) => Polling(c)')
    BY <1>1, <2>1, <2>3 DEF OwnerInv, Knows, Polling, commandVars
  <2>5. /\ \A q \in Pids : Owner(q)' /\ ~Booting(q)' => pidFile' = q
        /\ \A q, r \in Pids : Booting(q)' /\ Booting(r)' => q = r
        /\ \A q \in Pids : Booting(q)' => pidFile' \in {NoPid, Empty}
    BY <2>1, <2>2 DEF OwnerInv, Owner, Booting
  <2>6. \A q \in Pids : Booting(q)' => \E c \in Commands : Polling(c)'
    BY <2>2, <2>4 DEF OwnerInv, Booting, Polling
  <2> QED BY <2>3, <2>4, <2>5, <2>6 DEF OwnerInv
<1>7. CASE CloseListener(p)
  <2>1. UNCHANGED <<proc, pidFile, orphans>>
    BY <1>7 DEF CloseListener
  <2> QED BY <1>1, <2>1 DEF OwnerInv, Owner, Booting, Knows, Owners, Polling, commandVars
<1>8. ~ServiceStarts(p)
  BY DEF Orderly, ServiceStarts
<1> QED BY <1>2, <1>3, <1>4, <1>5, <1>6, <1>7, <1>8 DEF DaemonStep, Boot, Ending

\* A command that ends, or that turns from stop to start.
LEMMA DoneKnows ==
  ASSUME TypeInv, NEW c \in Commands, Done(c) \/ EndOfStop(c)
  PROVE  Knows(c)' /\ cpc'[c] \in {"idle", "read"}
<1>1. \E work \in Jobs, step \in {"idle", "read"} :
        Set(c, step, work, NoPid) /\ work.target = NoPid
  BY Works DEF Done, EndOfStop
<1>2. job'[c].target = NoPid /\ cpc'[c] \in {"idle", "read"}
  BY <1>1 DEF Set, TypeInv, CommandTypes
<1> QED BY <1>2, LifecycleAssumption DEF Knows

\* With no process and no file changed, a command that does not wait for its
\* child learns nothing that is wrong.
LEMMA DoneStep ==
  ASSUME OneTerminal, TypeInv, OwnerInv, NEW c \in Commands, ~Polling(c), SameHost,
         Done(c) \/ EndOfStop(c)
  PROVE  OwnerInv'
  BY DoneKnows, QuietStep

\* A step of a command that leaves its target alone.
LEMMA SetStep ==
  ASSUME OneTerminal, TypeInv, OwnerInv, NEW c \in Commands, ~Polling(c), SameHost,
         NEW step \in CommandSteps, NEW pid, Set(c, step, job[c], pid),
         step = "probe" => Owners \subseteq {pid},
         step \in {"clean", "spawn", "unpid"} => Owners = {},
         step = "spawn" => pidFile = NoPid
  PROVE  OwnerInv'
<1>1. /\ cpc'[c] = step /\ job'[c] = job[c] /\ seen'[c] = pid
  BY DEF Set, TypeInv, CommandTypes
<1>2. Owners' = Owners /\ pidFile' = pidFile
  BY DEF SameHost, Owners, Owner
<1>3. Knows(c)'
  BY <1>1, <1>2 DEF Knows, OwnerInv
<1> QED BY <1>3, QuietStep

\* The start command goes on waiting.
LEMMA PollingStep ==
  ASSUME OneTerminal, TypeInv, OwnerInv, NEW c \in Commands, Polling(c), SameHost,
         NEW pid, Set(c, "read", job[c], pid)
  PROVE  OwnerInv'
<1>1. /\ cpc'[c] = "read" /\ job'[c] = job[c]
  BY DEF Set, TypeInv, CommandTypes
<1>2. Polling(c)'
  BY <1>1 DEF Polling
<1>3. Owners' = Owners
  BY DEF SameHost, Owners, Owner
<1>4. Knows(c)'
  BY <1>1, <1>3 DEF Knows, OwnerInv
<1>5. \A d \in Commands : d = c
  BY DEF OneTerminal
<1>6. /\ \A p \in Pids : Booting(p)' => pidFile' \in {NoPid, Empty}
      /\ \A p \in Pids : Owner(p)' /\ ~Booting(p)' => pidFile' = p
      /\ \A p, q \in Pids : Booting(p)' /\ Booting(q)' => p = q
      /\ orphans' = {}
  BY DEF SameHost, OwnerInv, Owner, Booting
<1> QED BY <1>2, <1>4, <1>5, <1>6 DEF OwnerInv

\* IsDaemonRunning says no, and there is none.
LEMMA NotRunningStep ==
  ASSUME OneTerminal, TypeInv, OwnerInv, NEW c \in Commands, SameHost,
         cpc[c] = "read", IfNotRunning(c), pidFile \in {NoPid, Empty},
         pidFile = Empty => job[c].phase = "poll"
  PROVE  OwnerInv'
<1>1. CASE Polling(c)
  <2>1. Set(c, "read", job[c], NoPid)
    BY <1>1 DEF Polling, IfNotRunning
  <2> QED BY <1>1, <2>1, PollingStep
<1>2. CASE ~Polling(c)
  <2>1. Owners = {}
    BY <1>2, OwnersNamed, LifecycleAssumption DEF Owners
  <2>2. CASE EndOfStop(c)
    BY <1>2, <2>2, DoneStep
  <2>3. CASE Set(c, "spawn", job[c], NoPid) /\ job[c].phase = "check"
    <3>1. pidFile = NoPid
      BY <2>3
    <3>2. "spawn" \in CommandSteps
      BY DEF CommandSteps
    <3> QED BY <1>2, <2>1, <2>3, <3>1, <3>2, SetStep
  <2> QED BY <1>2, <2>2, <2>3 DEF IfNotRunning, Polling
<1> QED BY <1>1, <1>2

LEMMA CommandStepOwners ==
  ASSUME OneTerminal, TypeInv, Orderly, OwnerInv, NEW c \in Commands, CommandStep(c)
  PROVE  OwnerInv'
<1>1. /\ job[c] \in Jobs /\ Fits(cpc[c], job[c], seen[c]) /\ Knows(c)
      /\ CommandSteps = {"idle", "read", "probe", "clean", "spawn", "term", "kill",
                         "unpid"}
  BY DEF TypeInv, CommandTypes, CommandSteps, OwnerInv
<1>2. UNCHANGED <<daemonVars, fileVars>> => SameHost
  BY DEF daemonVars, fileVars, SameHost
<1>3. CASE StartCommand(c) \/ StopCommand(c)
  <2>1. ~Polling(c) /\ SameHost
    BY <1>2, <1>3 DEF StartCommand, StopCommand, Polling
  <2>2. \E op \in {"start", "stop"}, r \in BOOLEAN : Set(c, "read", NewJob(op, r), NoPid)
    BY <1>3 DEF StartCommand, StopCommand
  <2>3. cpc'[c] = "read" /\ job'[c].target = NoPid
    BY <2>2, Works DEF Set, TypeInv, CommandTypes
  <2>4. Knows(c)'
    BY <2>3, LifecycleAssumption DEF Knows
  <2> QED BY <2>1, <2>4, QuietStep
<1>4. CASE ReadPID(c)
  <2>1. SameHost /\ cpc[c] = "read"
    BY <1>2, <1>4 DEF ReadPID
  <2>2. CASE pidFile = NoPid /\ IfNotRunning(c)
    BY <2>1, <2>2, LifecycleAssumption, NotRunningStep
  <2>3. CASE pidFile = Empty /\ IfUnreadable(c)
    <3>1. CASE job[c].phase = "check"
      BY <2>1, <2>3, <3>1, DoneStep DEF IfUnreadable, Polling
    <3>2. CASE job[c].phase # "check"
      <4>1. job[c].phase = "poll" /\ IfNotRunning(c)
        BY <1>1, <2>3, <3>2, Works DEF IfUnreadable
      <4> QED BY <2>1, <2>3, <4>1, NotRunningStep
    <3> QED BY <3>1, <3>2
  <2>4. CASE pidFile \in Pids /\ Set(c, "probe", job[c], pidFile)
    <3>1. \A p \in Pids : ~Booting(p)
      BY <2>4, LifecycleAssumption DEF OwnerInv
    <3>2. Owners \subseteq {pidFile}
      BY <3>1 DEF OwnerInv, Owners
    <3>3. cpc'[c] = "probe" /\ job'[c] = job[c] /\ seen'[c] = pidFile
      BY <2>4 DEF Set, TypeInv, CommandTypes
    <3>4. Owners' = Owners /\ pidFile' = pidFile
      BY <2>1 DEF SameHost, Owners, Owner
    <3>5. Knows(c)'
      BY <1>1, <3>2, <3>3, <3>4 DEF Knows
    <3>6. \A p \in Pids : /\ ~Booting(p)'
                          /\ Owner(p)' => pidFile' = p
      BY <2>1, <3>1 DEF SameHost, Booting, Owner, OwnerInv
    <3>7. orphans' = {} /\ \A d \in Commands : d = c
      BY <2>1 DEF SameHost, OwnerInv, OneTerminal
    <3> QED BY <3>5, <3>6, <3>7 DEF OwnerInv
  <2> QED BY <1>4, <2>2, <2>3, <2>4 DEF ReadPID
<1>5. CASE IsProcessRunning(c)
  <2>1. /\ ~Polling(c) /\ SameHost /\ cpc[c] = "probe" /\ seen[c] \in Pids
        /\ Owners \subseteq {seen[c]}
    BY <1>1, <1>2, <1>5 DEF IsProcessRunning, Polling, Fits, Knows
  <2>2. CASE Done(c)
    BY <2>1, <2>2, DoneStep
  <2>3. CASE Set(c, "term", [job[c] EXCEPT !.target = seen[c]], seen[c])
    <3>1. cpc'[c] = "term" /\ job'[c].target = seen[c]
      BY <1>1, <2>1, <2>3, Works DEF Set, TypeInv, CommandTypes
    <3>2. Owners' = Owners
      BY <2>1 DEF SameHost, Owners, Owner
    <3>3. Knows(c)'
      BY <2>1, <3>1, <3>2 DEF Knows
    <3> QED BY <2>1, <3>3, QuietStep
  <2>4. CASE Set(c, "read", job[c], NoPid)
    BY <1>1, <2>1, <2>4, SetStep
  <2>5. CASE ~Alive(seen[c]) /\ Set(c, "clean", job[c], seen[c])
    <3>1. Owners = {}
      BY <2>1, <2>5 DEF Owners, Owner, Alive
    <3> QED BY <1>1, <2>1, <2>5, <3>1, SetStep
  <2> QED BY <1>5, <2>2, <2>3, <2>4, <2>5 DEF IsProcessRunning, IfRunning
<1>6. CASE RemoveStalePID(c) \/ ForcedRemovePID(c)
  <2>1. /\ Owners = {} /\ proc' = proc /\ pidFile' = NoPid
        /\ orphans' = orphans \cup {p \in Pids : proc[p] = "opened"}
    BY <1>1, <1>6 DEF RemoveStalePID, ForcedRemovePID, RemovePID, Knows
  <2>2. Owners' = {} /\ orphans' = {}
    BY <2>1 DEF Owners, Owner, OwnerInv
  <2> QED BY <2>1, <2>2, EmptyStep
<1>7. CASE SpawnChild(c)
  <2>1. /\ Owners = {} /\ pidFile = NoPid /\ job[c].op = "start" /\ job[c].target = NoPid
        /\ UNCHANGED <<pidFile, orphans>>
    BY <1>1, <1>7 DEF SpawnChild, Knows, Fits, fileVars
  <2>2. PICK p \in Pids : proc' = [proc EXCEPT ![p] = "boot"]
    BY <1>7 DEF SpawnChild, Spawn, Goto
  <2>3. Set(c, "read", [job[c] EXCEPT !.phase = "poll"], NoPid)
    BY <1>7 DEF SpawnChild
  <2>4. Polling(c)' /\ Knows(c)'
    <3>1. /\ cpc'[c] = "read" /\ job'[c].op = "start" /\ job'[c].phase = "poll"
          /\ job'[c].target = NoPid
      BY <1>1, <2>1, <2>3, Works DEF Set, TypeInv, CommandTypes
    <3> QED BY <3>1, LifecycleAssumption DEF Polling, Knows
  <2>5. \A q \in Pids : /\ Owner(q)' => q = p
                        /\ Booting(q)' => q = p
                        /\ Booting(p)'
    BY <2>1, <2>2 DEF TypeInv, DaemonTypes, Owners, Owner, Booting
  <2>6. /\ \A q \in Pids : Owner(q)' /\ ~Booting(q)' => pidFile' = q
        /\ \A q, r \in Pids : Booting(q)' /\ Booting(r)' => q = r
    BY <2>5 DEF Owner, Booting
  <2>7. orphans' = {} /\ pidFile' = NoPid /\ \A d \in Commands : d = c
    BY <2>1 DEF OwnerInv, OneTerminal
  <2> QED BY <2>4, <2>6, <2>7 DEF OwnerInv
<1>8. CASE SpawnFails(c)
  <2>1. ~Polling(c) /\ SameHost /\ Done(c)
    BY <1>8 DEF SpawnFails, Polling, SameHost, fileVars
  <2> QED BY <2>1, DoneStep
<1>9. CASE Terminate(c)
  <2>1. /\ ~Polling(c) /\ pidFile' = pidFile /\ job[c].target \in Pids
        /\ Owners \subseteq {job[c].target}
    BY <1>1, <1>9 DEF Terminate, Polling, Fits, Knows, fileVars
  <2>2. CASE Vanish(job[c].target) /\ Set(c, "read", [job[c] EXCEPT !.phase = "poll"], NoPid)
    <3>1. Owners' = {} /\ orphans' = {}
      BY <2>1, <2>2, VanishedOwner
    <3>2. cpc'[c] = "read"
      BY <2>2 DEF Set, TypeInv, CommandTypes
    <3> QED BY <3>1, <3>2, EmptyStep
  <2>3. CASE /\ SameHost
             /\ Set(c, "read", [job[c] EXCEPT !.phase = "poll"], NoPid)
    <3>1. cpc'[c] = "read" /\ job'[c].target = job[c].target
      BY <1>1, <2>3, Works DEF Set, TypeInv, CommandTypes
    <3>2. Owners' = Owners
      BY <2>3 DEF SameHost, Owners, Owner
    <3>3. Knows(c)'
      BY <2>1, <3>1, <3>2 DEF Knows
    <3> QED BY <2>1, <2>3, <3>3, QuietStep
  <2>4. CASE SameHost /\ Done(c)
    BY <2>1, <2>4, DoneStep
  <2> QED BY <1>9, <2>1, <2>2, <2>3, <2>4 DEF Terminate, SameHost
<1>10. CASE StartDeadline(c)
  <2>1. SameHost /\ Done(c) /\ \A p \in Pids : ~Booting(p)
    BY <1>2, <1>10 DEF StartDeadline, Orderly, Booting
  <2>2. Knows(c)'
    BY <2>1, DoneKnows
  <2>3. \A p \in Pids : ~Booting(p)' /\ (Owner(p)' => pidFile' = p)
    BY <2>1 DEF SameHost, Booting, Owner, OwnerInv
  <2>4. orphans' = {} /\ \A d \in Commands : d = c
    BY <2>1 DEF SameHost, OwnerInv, OneTerminal
  <2> QED BY <2>2, <2>3, <2>4 DEF OwnerInv
<1>11. CASE StopDeadline(c)
  <2>1. ~Polling(c) /\ SameHost /\ Set(c, "kill", job[c], NoPid)
    BY <1>2, <1>11 DEF StopDeadline, Polling
  <2> QED BY <1>1, <2>1, SetStep
<1>12. CASE Kill(c)
  <2>1. /\ pidFile' = pidFile /\ job[c].target \in Pids
        /\ Owners \subseteq {job[c].target} /\ Set(c, "unpid", job[c], NoPid)
    BY <1>1, <1>12 DEF Kill, Fits, Knows, fileVars
  <2>2. cpc'[c] = "unpid"
    BY <2>1 DEF Set, TypeInv, CommandTypes
  <2>3. CASE Vanish(job[c].target)
    BY <2>1, <2>2, <2>3, VanishedOwner, EmptyStep
  <2>4. CASE ~Alive(job[c].target) /\ UNCHANGED <<proc, orphans>>
    <3>1. Owners' = {} /\ orphans' = {}
      BY <2>1, <2>4 DEF Owners, Owner, Alive, OwnerInv
    <3> QED BY <2>2, <3>1, EmptyStep
  <2> QED BY <1>12, <2>3, <2>4 DEF Kill
<1> QED BY <1>3, <1>4, <1>5, <1>6, <1>7, <1>8, <1>9, <1>10, <1>11, <1>12
        DEF CommandStep, Command

OrderlyInv == TypeInv /\ (Orderly => OwnerInv)

LEMMA OrderlyInvStep ==
  ASSUME OneTerminal
  PROVE  OrderlyInv /\ [Next]_vars => OrderlyInv'
<1> SUFFICES ASSUME OrderlyInv, [Next]_vars PROVE OrderlyInv'
    OBVIOUS
<1>1. TypeInv /\ TypeInv'
  BY TypeInvStep DEF OrderlyInv
<1>2. machine' = machine
  BY DEF Next, Boot, OpenPID, WritePID, Notify, RemoveSocket, Listen, ListenFails,
         EnterLoop, Ending, TakeSignal, DeferredRemovePID, Exit, CloseListener,
         WritePIDFails, Crash, ServiceStarts, StartCommand, StopCommand, Command, ReadPID, IsProcessRunning,
         RemoveStalePID, SpawnChild, SpawnFails, Terminate, StartDeadline, StopDeadline,
         Kill, ForcedRemovePID, hostVars, daemonVars, vars
<1>3. Orderly' <=> Orderly
  BY <1>2 DEF Orderly
<1>4. ASSUME Orderly, OwnerInv, UNCHANGED vars PROVE OwnerInv'
  BY <1>4 DEF OwnerInv, Owner, Booting, Polling, Knows, Owners, vars, daemonVars, fileVars,
              commandVars
<1>5. ASSUME Orderly, OwnerInv PROVE OwnerInv'
  BY <1>1, <1>4, <1>5, DaemonStepOwners, CommandStepOwners
  DEF Next, DaemonStep, CommandStep
<1> QED BY <1>1, <1>3, <1>5 DEF OrderlyInv

LEMMA OrderlyInvInit == Init => OrderlyInv
  BY TypeInvInit, OwnerInvInit DEF OrderlyInv

\* `synth daemon start' finds a daemon that runs, and starts no other one
\* (cli/daemon.go 196-205), whatever crashed, timed out or was killed before.
THEOREM OneDaemonCorrect == OneTerminal => (Spec => []OneDaemon)
<1>1. OrderlyInv => OneDaemon
  <2> SUFFICES ASSUME OrderlyInv, Orderly, NEW p \in Pids, NEW q \in Pids,
                      Running(p), Running(q)
               PROVE  p = q
      BY DEF OneDaemon
  <2>1. OwnerInv /\ Owner(p) /\ Owner(q)
    BY DEF OrderlyInv, Running, Alive, Owner
  <2> QED BY <2>1, LifecycleAssumption DEF OwnerInv
<1>2. ASSUME OneTerminal PROVE Spec => []OneDaemon
  BY <1>1, <1>2, OrderlyInvInit, OrderlyInvStep, PTL DEF Spec
<1> QED BY <1>2

\* No RemovePID of another process, late or forced, takes the PID file away
\* from a daemon that serves (daemon.go 139-146, cli/daemon.go 280-290).
THEOREM PIDFileCorrect == OneTerminal => (Spec => []PIDFileNamesDaemon)
<1>1. OrderlyInv => PIDFileNamesDaemon
  BY DEF OrderlyInv, OwnerInv, PIDFileNamesDaemon, Running, Alive, Owner, Booting
<1>2. ASSUME OneTerminal PROVE Spec => []PIDFileNamesDaemon
  BY <1>1, <1>2, OrderlyInvInit, OrderlyInvStep, PTL DEF Spec
<1> QED BY <1>2
-----------------------------------------------------------------------------
(* stop *)

\* A command forgets its target when it ends or turns to start, and then no
\* daemon is left that runs.
LEMMA TargetLeft ==
  ASSUME OneTerminal, OrderlyInv, Orderly, [Next]_vars,
         NEW c \in Commands, NEW p \in Pids, job[c].target = p, job'[c].target # p
  PROVE  ~Running(p)'
<1>1. /\ TypeInv /\ OwnerInv /\ Knows(c) /\ job[c] \in Jobs
      /\ Fits(cpc[c], job[c], seen[c]) /\ Owners \subseteq {p}
  BY DEF OrderlyInv, TypeInv, CommandTypes, OwnerInv, Knows
<1>2. job[c].op = "stop" /\ (job[c].phase = "poll" \/ cpc[c] = "term") /\ cpc[c] # "idle"
  BY <1>1, Works, LifecycleAssumption DEF Fits
<1>3. \A d \in Commands : d = c
  BY DEF OneTerminal
<1>4. job' # job
  OBVIOUS
<1>5. CommandStep(c)
  <2>1. ASSUME NEW q \in Pids, DaemonStep(q) PROVE FALSE
    BY <1>4, <2>1
    DEF DaemonStep, Boot, OpenPID, WritePID, Notify, RemoveSocket, Listen,
        ListenFails, EnterLoop, Ending, TakeSignal, DeferredRemovePID, Exit,
        CloseListener, WritePIDFails, Crash, ServiceStarts, commandVars
  <2>2. ~ UNCHANGED vars
    BY <1>4 DEF vars, commandVars
  <2> QED BY <1>3, <2>1, <2>2 DEF Next, DaemonStep, CommandStep
<1>6. ASSUME NEW step, NEW pid, Set(c, step, job[c], pid) PROVE FALSE
  BY <1>1, <1>6 DEF Set, TypeInv, CommandTypes
<1>7. ASSUME NEW step, NEW pid, Set(c, step, [job[c] EXCEPT !.phase = "poll"], pid)
      PROVE  FALSE
  <2>1. job'[c].target = job[c].target
    BY <1>1, <1>7, Works DEF Set, TypeInv, CommandTypes
  <2> QED BY <2>1
<1>8. \A q \in Pids : Running(q) => Owner(q)
  BY DEF Running, Alive, Owner
<1>9. ASSUME proc' = proc, Owners = {} PROVE ~Running(p)'
  BY <1>8, <1>9 DEF Owners, Owner, Running, Alive
<1>10. CASE ReadPID(c)
  <2>1. pidFile \notin Pids /\ proc' = proc
    BY <1>6, <1>10, LifecycleAssumption DEF ReadPID, daemonVars
  <2>2. ~Polling(c)
    BY <1>2 DEF Polling
  <2>3. Owners = {}
    BY <1>1, <2>1, <2>2, OwnersNamed DEF Owners
  <2> QED BY <1>9, <2>1, <2>3
<1>11. CASE RemoveStalePID(c) \/ ForcedRemovePID(c)
  BY <1>1, <1>9, <1>11 DEF RemoveStalePID, ForcedRemovePID, Knows
<1>12. CASE Terminate(c)
  <2>1. ~Alive(job[c].target) /\ proc' = proc
    BY <1>7, <1>12 DEF Terminate
  <2> QED BY <2>1 DEF Running, Alive
<1>13. CASE IsProcessRunning(c)
  BY <1>1, <1>2, <1>6, <1>13, Works DEF IsProcessRunning, IfRunning
<1>14. CASE StartCommand(c) \/ StopCommand(c) \/ StartDeadline(c) \/ SpawnFails(c)
              \/ SpawnChild(c)
  BY <1>1, <1>2, <1>14
  DEF StartCommand, StopCommand, StartDeadline, SpawnFails, SpawnChild, Fits
<1>15. CASE StopDeadline(c) \/ Kill(c)
  BY <1>6, <1>15 DEF StopDeadline, Kill
<1> QED BY <1>5, <1>10, <1>11, <1>12, <1>13, <1>14, <1>15 DEF CommandStep, Command

\* stop reports "daemon stopped", and restart goes on to start, only when the
\* daemon that was found has left its loop (cli/daemon.go 262-295).
THEOREM StopCorrect == OneTerminal => (Spec => StopIsTruthful)
<1>1. ASSUME OneTerminal
      PROVE  OrderlyInv /\ [Next]_vars =>
               [\A c \in Commands, p \in Pids :
                  Orderly /\ job[c].target = p /\ job'[c].target # p
                    => ~Running(p)']_vars
  BY <1>1, TargetLeft
<1>2. ASSUME OneTerminal PROVE Spec => StopIsTruthful
  BY <1>1, <1>2, OrderlyInvInit, OrderlyInvStep, PTL DEF Spec, StopIsTruthful
<1> QED BY <1>2
-----------------------------------------------------------------------------
(* The socket *)

\* Both are owners, and the PID file names them.
LEMMA ServingAlone ==
  ASSUME OwnerInv, NEW p \in Pids, Serving(p), NEW q \in Pids, Owner(q), ~Booting(q)
  PROVE  q = p
BY DEF OwnerInv, Serving, Owner, Booting

LEMMA SocketLost ==
  ASSUME OneTerminal, OrderlyInv, Orderly, [Next]_vars,
         NEW p \in Pids, Serving(p), sock = p, sock' # p
  PROVE  \E q \in Pids : proc[q] = "exiting" /\ q \in listening \ listening'
<1>1. OwnerInv /\ p # NoPid
  BY LifecycleAssumption DEF OrderlyInv
<1>2. PICK q \in Pids : RemoveSocket(q) \/ Listen(q) \/ CloseListener(q)
  <2>1. sock' # sock
    OBVIOUS
  <2> QED BY <2>1
      DEF Next, Boot, OpenPID, WritePID, Notify, RemoveSocket, Listen, ListenFails,
          EnterLoop, Ending, TakeSignal, DeferredRemovePID, Exit, CloseListener,
          WritePIDFails, Crash, ServiceStarts, StartCommand, StopCommand, Command,
          ReadPID, IsProcessRunning, RemoveStalePID, SpawnChild, SpawnFails, Terminate,
          StartDeadline, StopDeadline, Kill, ForcedRemovePID, fileVars, daemonVars, vars
<1>3. ~RemoveSocket(q)
  <2> SUFFICES ASSUME RemoveSocket(q) PROVE FALSE
      OBVIOUS
  <2>1. proc[q] = "notified"
    BY DEF RemoveSocket
  <2>2. q = p
    BY <1>1, <2>1, ServingAlone DEF Owner, Booting
  <2> QED BY <2>1, <2>2 DEF Serving
<1>4. ~Listen(q)
  BY <1>1 DEF Listen
<1>5. CloseListener(q) /\ proc[q] # "waiting"
  <2>1. CloseListener(q)
    BY <1>2, <1>3, <1>4
  <2>2. proc[q] = "waiting" => q = p
    BY <1>1, ServingAlone DEF Owner, Booting
  <2> QED BY <2>1, <2>2 DEF Serving
<1> QED BY <1>5 DEF CloseListener

\* Nobody who starts, and nobody whose PID file is still there, unlinks the
\* socket of a daemon that serves (server.go 45-56); only a predecessor can that
\* removed its PID file and has not closed its listener (server.go 120-128).
THEOREM SocketCorrect == OneTerminal => (Spec => SocketLostOnlyToPredecessor)
<1>1. ASSUME OneTerminal
      PROVE  OrderlyInv /\ [Next]_vars =>
               [\A p \in Pids :
                  Orderly /\ Serving(p) /\ Serving(p)' /\ sock = p /\ sock' # p =>
                    \E q \in Pids :
                      proc[q] = "exiting" /\ q \in listening \ listening']_vars
  BY <1>1, SocketLost
<1>2. ASSUME OneTerminal PROVE Spec => SocketLostOnlyToPredecessor
  BY <1>1, <1>2, OrderlyInvInit, OrderlyInvStep, PTL
  DEF Spec, SocketLostOnlyToPredecessor
<1> QED BY <1>2
=============================================================================
