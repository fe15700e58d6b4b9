----------------------------- MODULE DaemonLog -----------------------------
(* The log of the daemon (src/internal/daemon/logger.go): an entry is        *)
(* appended to daemon.log, which is renamed to daemon.log.1 beforehand once  *)
(* it is large.  The mutex of a Logger orders the entries of one daemon;     *)
(* nothing orders those of two.  An entry counts for one byte.               *)
EXTENDS Integers, Sequences, FiniteSets

CONSTANTS Daemons,      \* processes
          MaxBytes,     \* the size from which the log is rotated: 10 MB
          MaxEntries,   \* bound: how many entries are written
          MaxFailures   \* bound: how many rotations fail

ASSUME LogAssumption == /\ IsFiniteSet(Daemons)
                        /\ MaxBytes \in Nat \ {0}
                        /\ MaxEntries \in Nat /\ MaxFailures \in Nat

VARIABLES logs,      \* name -> the entries in the file, none if there is no file
          exist,     \* the files that exist
          writes,    \* where each daemon is in writeEntry, "off" if not running
          openLog,   \* what its open file is called by now
          entries,   \* how many entries were written
          failures,  \* rotations that failed and left daemon.log in place
          paired     \* have two daemons run at the same time?

files == <<logs, exist>>
logVars == <<files, writes, openLog, entries, failures, paired>>

Entries == 1 .. MaxEntries
Names == {"log", "backup"}   \* daemon.log and daemon.log.1

LogTypeOK ==
    /\ logs \in [Names -> Seq(Entries)]
    /\ exist \subseteq Names
    /\ writes \in [Daemons -> {"off", "idle", "stat", "stat backup", "remove",
                               "rename", "open", "write"}]
    /\ openLog \in [Daemons -> {"closed", "log", "backup", "gone"}]
    /\ entries \in 0 .. MaxEntries
    /\ failures \in 0 .. MaxFailures
    /\ paired \in BOOLEAN

LogInit == /\ logs = [name \in Names |-> <<>>]
           /\ exist = {}
           /\ writes = [d \in Daemons |-> "off"]
           /\ openLog = [d \in Daemons |-> "closed"]
           /\ entries = 0 /\ failures = 0
           /\ paired = FALSE

Moves(d, from, to) == writes[d] = from /\ writes' = [writes EXCEPT ![d] = to]

-----------------------------------------------------------------------------
StartLogging(d) == /\ Moves(d, "off", "idle")
                   /\ paired' = (paired \/ \E e \in Daemons \ {d} : writes[e] # "off")
                   /\ UNCHANGED <<files, openLog, entries, failures>>

StopLogging(d) == /\ Moves(d, "idle", "off")
                  /\ UNCHANGED <<files, openLog, entries, failures, paired>>

KillLogging(d) == /\ writes[d] \notin {"off", "idle"}
                  /\ writes' = [writes EXCEPT ![d] = "off"]
                  /\ openLog' = [openLog EXCEPT ![d] = "closed"]
                  /\ UNCHANGED <<files, entries, failures, paired>>

WriteEntry(d) == /\ Moves(d, "idle", "stat")
                 /\ UNCHANGED <<files, openLog, entries, failures, paired>>

\* mutant: the log is rotated when it is larger than the limit
RotateLate(d) == /\ Moves(d, "stat", IF Len(logs["log"]) > MaxBytes THEN "stat backup" ELSE "open")
                 /\ UNCHANGED <<files, openLog, entries, failures, paired>>

ShouldRotate(d) == /\ Moves(d, "stat", IF Len(logs["log"]) >= MaxBytes THEN "stat backup" ELSE "open")
                   /\ UNCHANGED <<files, openLog, entries, failures, paired>>

(* Every error of a rotation is dropped, and the entry is appended to what    *)
(* there is: the stat of daemon.log or its rename fails and the log stays.   *)
RotationFails(d) == /\ "log" \in exist
                    /\ Moves(d, "stat", "open") \/ Moves(d, "rename", "open")
                    /\ failures < MaxFailures
                    /\ failures' = failures + 1
                    /\ UNCHANGED <<files, openLog, entries, paired>>

StatBackup(d) == /\ Moves(d, "stat backup", IF "backup" \in exist THEN "remove" ELSE "rename")
                 /\ UNCHANGED <<files, openLog, entries, failures, paired>>

\* the stat or the removal of the backup fails, and the rename is tried
BackupStays(d) == /\ Moves(d, "stat backup", "rename") \/ Moves(d, "remove", "rename")
                  /\ UNCHANGED <<files, openLog, entries, failures, paired>>

RemoveBackup(d) == /\ Moves(d, "remove", "rename")
                   /\ logs' = [logs EXCEPT !["backup"] = <<>>]
                   /\ exist' = exist \ {"backup"}
                   /\ openLog' = [e \in Daemons |-> IF openLog[e] = "backup" THEN "gone"
                                                                          ELSE openLog[e]]
                   /\ UNCHANGED <<entries, failures, paired>>

\* mutant: the old log is removed, and not renamed
RemoveLog(d) == /\ Moves(d, "rename", "open")
                /\ logs' = [logs EXCEPT !["log"] = <<>>]
                /\ exist' = exist \ {"log"}
                /\ openLog' = [e \in Daemons |-> IF openLog[e] = "log" THEN "gone"
                                                                    ELSE openLog[e]]
                /\ UNCHANGED <<entries, failures, paired>>

(* The rename replaces a backup that is still there.  If another daemon was  *)
(* faster, there is no log to rename, and that error is dropped too.         *)
RenameLog(d) ==
    /\ Moves(d, "rename", "open")
    /\ IF "log" \in exist
       THEN /\ logs' = [name \in Names |-> IF name = "backup" THEN logs["log"] ELSE <<>>]
            /\ exist' = {"backup"}
            /\ openLog' = [e \in Daemons |-> IF openLog[e] = "log" THEN "backup"
                                          ELSE IF openLog[e] = "backup" THEN "gone"
                                          ELSE openLog[e]]
       ELSE UNCHANGED <<files, openLog>>
    /\ UNCHANGED <<entries, failures, paired>>

\* O_APPEND and O_CREATE
OpenLog(d) == /\ Moves(d, "open", "write")
              /\ exist' = exist \cup {"log"}
              /\ openLog' = [openLog EXCEPT ![d] = "log"]
              /\ UNCHANGED <<logs, entries, failures, paired>>

AppendEntry(d) == /\ Moves(d, "write", "idle")
                  /\ entries < MaxEntries
                  /\ entries' = entries + 1
                  /\ logs' = IF openLog[d] = "gone" THEN logs
                             ELSE [logs EXCEPT ![openLog[d]] = Append(@, entries + 1)]
                  /\ openLog' = [openLog EXCEPT ![d] = "closed"]
                  /\ UNCHANGED <<exist, failures, paired>>

\* the file cannot be opened, or the write to it fails: the entry is lost
EntryLost(d) == /\ Moves(d, "open", "idle") \/ Moves(d, "write", "idle")
                /\ openLog' = [openLog EXCEPT ![d] = "closed"]
                /\ UNCHANGED <<files, entries, failures, paired>>

LogNext == \E d \in Daemons :
              \/ StartLogging(d) \/ StopLogging(d) \/ KillLogging(d)
              \/ WriteEntry(d) \/ ShouldRotate(d) \/ RotationFails(d)
              \/ StatBackup(d) \/ BackupStays(d) \/ RemoveBackup(d)
              \/ RenameLog(d) \/ OpenLog(d) \/ AppendEntry(d) \/ EntryLost(d)

LogSpec == LogInit /\ [][LogNext]_logVars

-----------------------------------------------------------------------------
Kept == UNION {{logs[name][i] : i \in DOMAIN logs[name]} : name \in Names}

(* The newest MaxBytes bytes written to the log of a daemon that runs alone  *)
(* are in one of the two files, whichever call of a rotation fails and       *)
(* wherever the daemon is killed in one.  (Two that find the log too large   *)
(* at once rotate twice, and the second removes the backup that the first    *)
(* has just made.)                                                           *)
RecentEntriesKept ==
    ~ paired => \A n \in Entries : n <= entries /\ n > entries - MaxBytes => n \in Kept

(* However many daemons write, each file exceeds the limit by less than an   *)
(* entry of each daemon and an entry for each rotation that failed.  A       *)
(* daemon that found the log small enough may be late, but only once, since  *)
(* it looks again before its next entry; but writeEntry drops the errors of  *)
(* rotate, so that a log that can never be renamed grows without end.        *)
LogBounded ==
    \A name \in Names : Len(logs[name]) < MaxBytes + Cardinality(Daemons) + failures
=============================================================================
