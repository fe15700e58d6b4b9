---------------------------- MODULE Reports_proofs ----------------------------
(* What the program tells its user.  The daemon's log: its size, for any      *)
(* number of daemons, and its newest entries, for any limit and any number of *)
(* kills and restarts of a daemon that runs alone.  The answers of log,       *)
(* status and search, for any notes that are saved and embedded meanwhile.    *)
EXTENDS DaemonLog, Queries, FiniteSetTheorems, TLAPS

-----------------------------------------------------------------------------
(* The daemon's log *)
Places == {"off", "idle", "stat", "stat backup", "remove", "rename", "open", "write"}
Handles == {"closed", "log", "backup", "gone"}

LEMMA LogNames == Names = {"log", "backup"} /\ {"closed", "gone"} \cap Names = {}
  BY DEF Names

(* A log file is open from OpenLog to the write and at no other time. *)
HandleInv == \A d \in Daemons : openLog[d] # "closed" <=> writes[d] = "write"

(* The file that a daemon has open under its name is there, and a log that   *)
(* is not there has no entries.                                              *)
FileInv == /\ "log" \notin exist => Len(logs["log"]) = 0
           /\ \A d \in Daemons : openLog[d] \in Names => openLog[d] \in exist

LogInv == LogTypeOK /\ HandleInv /\ FileInv

(* A daemon that goes from one place to another, none of them the write.     *)
LEMMA OneMoves ==
    ASSUME LogTypeOK, HandleInv, NEW d \in Daemons, NEW from \in Places, NEW to \in Places,
           from # "write", to # "write", Moves(d, from, to),
           openLog' \in [Daemons -> Handles],
           \A e \in Daemons : openLog'[e] # "closed" <=> openLog[e] # "closed"
    PROVE  HandleInv' /\ writes' \in [Daemons -> Places]
<1>1. writes \in [Daemons -> Places]
  BY DEF LogTypeOK, Places
<1>2. writes[d] = from /\ writes' = [writes EXCEPT ![d] = to]
  BY DEF Moves
<1>3. writes' \in [Daemons -> Places]
  BY <1>1, <1>2
<1>4. ASSUME NEW e \in Daemons
      PROVE  openLog'[e] # "closed" <=> writes'[e] = "write"
  <2>1. CASE e = d
    BY <1>1, <1>2, <2>1 DEF HandleInv
  <2>2. CASE e # d
    BY <1>1, <1>2, <2>2 DEF HandleInv
  <2>3. QED
    BY <2>1, <2>2
<1>5. QED
  BY <1>3, <1>4 DEF HandleInv

LEMMA LogInvInit == LogInit => LogInv
<1> SUFFICES ASSUME LogInit PROVE LogInv
    OBVIOUS
<1>1. logs \in [Names -> Seq(Entries)] /\ Len(logs["log"]) = 0
  BY LogNames DEF LogInit
<1>2. entries \in 0 .. MaxEntries /\ failures \in 0 .. MaxFailures
  BY LogAssumption DEF LogInit
<1>3. QED
  BY <1>1, <1>2, LogNames DEF LogInit, LogInv, HandleInv, FileInv, LogTypeOK

LEMMA LogInvStep == LogInv /\ [LogNext]_logVars => LogInv'
<1> SUFFICES ASSUME LogInv, [LogNext]_logVars
             PROVE  LogInv'
    OBVIOUS
<1>0. LogTypeOK /\ HandleInv /\ FileInv /\ openLog \in [Daemons -> Handles]
  BY DEF LogInv, LogTypeOK, Handles
<1>1. ASSUME NEW d \in Daemons, StartLogging(d) \/ StopLogging(d)
      PROVE  LogInv'
  <2>1. /\ Moves(d, "off", "idle") \/ Moves(d, "idle", "off")
        /\ UNCHANGED <<logs, exist, openLog, entries, failures>> /\ paired' \in BOOLEAN
    BY <1>0, <1>1 DEF StartLogging, StopLogging, files, LogTypeOK
  <2>2. HandleInv' /\ writes' \in [Daemons -> Places]
    BY <1>0, <2>1, OneMoves DEF Places
  <2>3. QED
    BY <1>0, <2>1, <2>2 DEF LogInv, LogTypeOK, FileInv, Places
<1>2. ASSUME NEW d \in Daemons, \/ WriteEntry(d) \/ ShouldRotate(d)
                                \/ StatBackup(d) \/ BackupStays(d) \/ RotationFails(d)
      PROVE  LogInv'
  <2>1. /\ \E from, to \in Places \ {"write"} : Moves(d, from, to)
        /\ UNCHANGED <<logs, exist, openLog, entries, paired>>
    BY <1>2 DEF WriteEntry, ShouldRotate, StatBackup, BackupStays, RotationFails, files,
                Places
  <2>2. HandleInv' /\ writes' \in [Daemons -> Places]
    BY <1>0, <2>1, OneMoves
  <2>3. failures' \in 0 .. MaxFailures
    <3>1. failures \in 0 .. MaxFailures /\ MaxFailures \in Nat
      BY <1>0, LogAssumption DEF LogTypeOK
    <3>2. \/ failures' = failures
          \/ failures < MaxFailures /\ failures' = failures + 1
      BY <1>2 DEF WriteEntry, ShouldRotate, StatBackup, BackupStays, RotationFails
    <3>3. QED
      BY <3>1, <3>2
  <2>4. QED
    BY <1>0, <2>1, <2>2, <2>3 DEF LogInv, LogTypeOK, FileInv, Places
<1>3. ASSUME NEW d \in Daemons, RemoveBackup(d)
      PROVE  LogInv'
  <2>1. logs' \in [Names -> Seq(Entries)] /\ logs'["log"] = logs["log"]
    <3>1. logs' = [logs EXCEPT !["backup"] = <<>>] /\ logs \in [Names -> Seq(Entries)]
      BY <1>0, <1>3 DEF RemoveBackup, LogTypeOK
    <3>2. QED
      BY <3>1, LogNames
  <2>2. /\ openLog' \in [Daemons -> Handles]
        /\ \A e \in Daemons : /\ openLog'[e] # "closed" <=> openLog[e] # "closed"
                              /\ openLog'[e] \in Names => openLog'[e] \in exist'
    BY <1>0, <1>3, LogNames DEF RemoveBackup, Handles, FileInv
  <2>3. /\ Moves(d, "remove", "rename")
        /\ exist' = exist \ {"backup"}
        /\ entries' = entries /\ failures' = failures /\ paired' = paired
    BY <1>3 DEF RemoveBackup
  <2>4. HandleInv' /\ writes' \in [Daemons -> Places]
    BY <1>0, <2>2, <2>3, OneMoves DEF Places
  <2>5. LogTypeOK'
    BY <1>0, <2>1, <2>2, <2>3, <2>4 DEF LogTypeOK, Places, Handles
  <2>6. QED
    BY <1>0, <2>1, <2>2, <2>3, <2>4, <2>5 DEF LogInv, FileInv
<1>4. ASSUME NEW d \in Daemons, RenameLog(d)
      PROVE  LogInv'
  <2>0. Moves(d, "rename", "open") /\ UNCHANGED <<entries, failures, paired>>
    BY <1>4 DEF RenameLog
  <2>1. CASE "log" \in exist
    <3>1. logs' \in [Names -> Seq(Entries)] /\ Len(logs'["log"]) = 0
      <4>1. /\ logs' = [n \in Names |-> IF n = "backup" THEN logs["log"] ELSE <<>>]
            /\ logs \in [Names -> Seq(Entries)]
        BY <1>0, <1>4, <2>1 DEF RenameLog, LogTypeOK
      <4>2. QED
        BY <4>1, LogNames
    <3>2. exist' \subseteq Names
      BY <1>4, <2>1, LogNames DEF RenameLog
    <3>3. /\ openLog' \in [Daemons -> Handles]
          /\ \A e \in Daemons : /\ openLog'[e] # "closed" <=> openLog[e] # "closed"
                                /\ openLog'[e] \in Names => openLog'[e] \in exist'
      BY <1>0, <1>4, <2>1, LogNames DEF RenameLog, Handles, FileInv
    <3>4. HandleInv' /\ writes' \in [Daemons -> Places]
      BY <1>0, <2>0, <3>3, OneMoves DEF Places
    <3>5. LogTypeOK'
      BY <1>0, <2>0, <3>1, <3>2, <3>3, <3>4 DEF LogTypeOK, Places, Handles
    <3>6. QED
      BY <3>1, <3>3, <3>4, <3>5 DEF LogInv, FileInv
  <2>2. CASE "log" \notin exist
    <3>1. UNCHANGED <<logs, exist, openLog>>
      BY <1>4, <2>2 DEF RenameLog, files
    <3>2. HandleInv' /\ writes' \in [Daemons -> Places]
      BY <1>0, <2>0, <3>1, OneMoves DEF Places
    <3>3. QED
      BY <1>0, <2>0, <3>1, <3>2 DEF LogInv, LogTypeOK, FileInv, Places
  <2>3. QED
    BY <2>1, <2>2
<1>5. ASSUME NEW d \in Daemons, OpenLog(d)
      PROVE  LogInv'
  <2>1. /\ exist' = exist \cup {"log"} /\ exist' \subseteq Names
        /\ writes[d] = "open" /\ writes' = [writes EXCEPT ![d] = "write"]
        /\ openLog' = [openLog EXCEPT ![d] = "log"]
        /\ UNCHANGED <<logs, entries, failures, paired>>
    BY <1>0, <1>5, LogNames DEF OpenLog, Moves, LogTypeOK
  <2>2. HandleInv'
    BY <1>0, <2>1 DEF HandleInv, LogTypeOK
  <2>3. FileInv'
    BY <1>0, <2>1, LogNames DEF FileInv, LogTypeOK
  <2>4. QED
    BY <1>0, <2>1, <2>2, <2>3 DEF LogInv, LogTypeOK
<1>6. ASSUME NEW d \in Daemons, AppendEntry(d) \/ EntryLost(d) \/ KillLogging(d)
      PROVE  LogInv'
  <2>1. /\ \E to \in {"idle", "off"} : writes' = [writes EXCEPT ![d] = to]
        /\ openLog' = [openLog EXCEPT ![d] = "closed"]
        /\ exist' = exist /\ failures' = failures /\ paired' = paired
    BY <1>6 DEF AppendEntry, EntryLost, KillLogging, Moves, files
  <2>2. HandleInv'
    BY <1>0, <2>1 DEF HandleInv, LogTypeOK
  <2>3. /\ logs' \in [Names -> Seq(Entries)]
        /\ "log" \notin exist => Len(logs'["log"]) = 0
        /\ entries' \in 0 .. MaxEntries
    <3>1. CASE KillLogging(d) \/ EntryLost(d)
      BY <1>0, <3>1 DEF KillLogging, EntryLost, files, LogTypeOK, FileInv
    <3>2. CASE AppendEntry(d)
      <4>1. /\ writes[d] = "write" /\ entries < MaxEntries /\ entries' = entries + 1
            /\ logs' = IF openLog[d] = "gone" THEN logs
                       ELSE [logs EXCEPT ![openLog[d]] =
                               Append(logs[openLog[d]], entries + 1)]
        BY <3>2 DEF AppendEntry, Moves
      <4>2. entries \in 0 .. MaxEntries /\ MaxEntries \in Nat
        BY <1>0, LogAssumption DEF LogTypeOK
      <4>3. entries + 1 \in Entries /\ entries' \in 0 .. MaxEntries
        BY <4>1, <4>2 DEF Entries
      <4>4. \/ openLog[d] = "gone"
            \/ openLog[d] \in Names /\ openLog[d] \in exist
        <5>1. openLog[d] # "closed" /\ openLog[d] \in Handles
          BY <1>0, <4>1 DEF HandleInv
        <5>2. openLog[d] \in Names => openLog[d] \in exist
          BY <1>0 DEF FileInv
        <5>3. QED
          BY <5>1, <5>2, LogNames DEF Handles
      <4>5. /\ logs \in [Names -> Seq(Entries)]
            /\ "log" \notin exist => Len(logs["log"]) = 0
        BY <1>0 DEF LogTypeOK, FileInv
      <4>6. CASE openLog[d] = "gone"
        BY <4>1, <4>3, <4>5, <4>6
      <4>7. CASE openLog[d] \in Names /\ openLog[d] \in exist
        <5>1. logs' = [logs EXCEPT ![openLog[d]] = Append(logs[openLog[d]], entries + 1)]
          BY <4>1, <4>7, LogNames
        <5>2. QED
          BY <4>3, <4>5, <4>7, <5>1, LogNames
      <4>8. QED
        BY <4>4, <4>6, <4>7
    <3>3. QED
      BY <1>6, <3>1, <3>2
  <2>4. FileInv'
    BY <1>0, <2>1, <2>3, LogNames DEF FileInv, LogTypeOK
  <2>5. LogTypeOK'
    BY <1>0, <2>1, <2>3 DEF LogTypeOK
  <2>6. QED
    BY <2>2, <2>4, <2>5 DEF LogInv
<1>7. CASE UNCHANGED logVars
  BY <1>7, <1>0 DEF logVars, files, LogInv, LogTypeOK, HandleInv, FileInv
<1>8. QED
  BY <1>1, <1>2, <1>3, <1>4, <1>5, <1>6, <1>7 DEF LogNext
-----------------------------------------------------------------------------
(* The size.  Whoever is going to append is counted as if it had; a rotation *)
(* that fails sends one more on its way, and is counted with it.             *)
Late(name) == {d \in Daemons : \/ writes[d] = "open" /\ name = "log"
                               \/ writes[d] = "write" /\ openLog[d] = name}

Bounded(name) ==
    Len(logs[name]) + Cardinality(Late(name)) < MaxBytes + Cardinality(Daemons) + failures

SizeInv == LogInv /\ Bounded("log") /\ Bounded("backup")

LEMMA SomeDaemons ==
    ASSUME NEW S, S \subseteq Daemons
    PROVE  /\ IsFiniteSet(S) /\ Cardinality(S) \in Nat
           /\ Cardinality(Daemons) \in Nat /\ Cardinality(S) <= Cardinality(Daemons)
  BY LogAssumption, FS_Subset, FS_CardinalityType

LEMMA FewerDaemons ==
    ASSUME NEW S, S \subseteq Daemons, NEW T, T \subseteq S
    PROVE  Cardinality(T) \in Nat /\ Cardinality(T) <= Cardinality(S)
  BY SomeDaemons, FS_Subset, FS_CardinalityType

LEMMA LogLengths ==
    LogInv => \A n \in Names : logs[n] \in Seq(Entries) /\ Len(logs[n]) \in Nat
<1> SUFFICES ASSUME LogInv, NEW n \in Names
             PROVE  logs[n] \in Seq(Entries)
    OBVIOUS
<1>1. QED
  BY DEF LogInv, LogTypeOK

LEMMA FailureCount == LogInv => failures \in Nat
<1>1. LogInv => failures \in 0 .. MaxFailures
  BY DEF LogInv, LogTypeOK
<1>2. QED
  BY <1>1, LogAssumption

LEMMA LateOnes == \A n : Late(n) \subseteq Daemons
  BY DEF Late

LEMMA SizeInvInit == LogInit => SizeInv
<1> SUFFICES ASSUME LogInit PROVE SizeInv
    OBVIOUS
<1>1. /\ \A n \in {"log", "backup"} : Len(logs[n]) = 0 /\ Cardinality(Late(n)) = 0
      /\ failures = 0
  <2>1. /\ \A n \in {"log", "backup"} : Len(logs[n]) = 0 /\ Late(n) = {}
        /\ failures = 0
    BY LogNames DEF LogInit, Late
  <2>2. QED
    BY <2>1, FS_EmptySet
<1>2. QED
  BY <1>1, LogInvInit, SomeDaemons, LogAssumption DEF SizeInv, Bounded

LEMMA SizeInvStep == SizeInv /\ [LogNext]_logVars => SizeInv'
<1> SUFFICES ASSUME SizeInv, [LogNext]_logVars
             PROVE  Bounded("log")' /\ Bounded("backup")'
    BY LogInvStep DEF SizeInv
<1> DEFINE Two == {"log", "backup"}
<1>0. /\ LogInv /\ LogInv' /\ LogTypeOK
      /\ \A n \in Two : /\ Bounded(n) /\ Len(logs[n]) \in Nat /\ Len(logs'[n]) \in Nat
                       /\ Late(n) \subseteq Daemons /\ Late(n)' \subseteq Daemons
      /\ failures \in Nat /\ failures' \in Nat
  <2>1. /\ LogInv /\ LogInv' /\ LogTypeOK /\ Two = Names
        /\ \A n \in Two : Bounded(n)
    BY LogInvStep, LogNames DEF SizeInv, LogInv
  <2>2. \A n \in Two : Len(logs[n]) \in Nat /\ Len(logs'[n]) \in Nat
    <3>1. logs \in [Names -> Seq(Entries)] /\ logs' \in [Names -> Seq(Entries)]
      BY <2>1 DEF LogInv, LogTypeOK
    <3>2. QED
      BY <2>1, <3>1
  <2>3. failures \in Nat /\ failures' \in Nat
    <3>1. LogInv' => failures' \in 0 .. MaxFailures
      BY DEF LogInv, LogTypeOK
    <3>2. QED
      BY <2>1, <3>1, FailureCount, LogAssumption
  <2>4. QED
    BY <2>1, <2>2, <2>3 DEF Late
(* A file that is below the limit has room for an entry of each daemon. *)
<1>a. ASSUME NEW n \in Two, Len(logs'[n]) < MaxBytes
      PROVE  Bounded(n)'
  <2>1. Cardinality(Late(n)') \in Nat /\ Cardinality(Daemons) \in Nat
          /\ Cardinality(Late(n)') <= Cardinality(Daemons)
    BY <1>0, SomeDaemons
  <2>2. QED
    BY <1>0, <1>a, <2>1, LogAssumption DEF Bounded
(* A file that was m before has nobody new who is late for it. *)
<1>b. ASSUME NEW n \in Two, NEW m \in Two, Len(logs'[n]) = Len(logs[m]),
             Late(n)' \subseteq Late(m), failures' >= failures
      PROVE  Bounded(n)'
  <2>1. /\ Cardinality(Late(n)') \in Nat /\ Cardinality(Late(m)) \in Nat
        /\ Cardinality(Daemons) \in Nat
        /\ Cardinality(Late(n)') <= Cardinality(Late(m))
    BY <1>0, <1>b, SomeDaemons, FewerDaemons
  <2>2. QED
    BY <1>0, <1>b, <2>1, LogAssumption DEF Bounded
(* Who does not move is late for what it was late for. *)
<1>c. ASSUME NEW e \in Daemons, writes'[e] = writes[e], openLog'[e] = openLog[e], NEW n
      PROVE  e \in Late(n)' <=> e \in Late(n)
  BY <1>c DEF Late
<1>1. ASSUME NEW d \in Daemons, \/ StartLogging(d) \/ StopLogging(d) \/ KillLogging(d)
                                \/ WriteEntry(d) \/ StatBackup(d) \/ BackupStays(d)
                                \/ OpenLog(d) \/ EntryLost(d)
      PROVE  Bounded("log")' /\ Bounded("backup")'
  <2> USE DEF StartLogging, StopLogging, KillLogging, WriteEntry, StatBackup, BackupStays,
              OpenLog, EntryLost
  <2>1. UNCHANGED <<logs, failures>>
    BY <1>1 DEF files
  <2>2. \A e \in Daemons \ {d} : writes'[e] = writes[e] /\ openLog'[e] = openLog[e]
    BY <1>0, <1>1 DEF Moves, LogTypeOK
  <2>3. d \in Late("log")' => d \in Late("log")
    BY <1>0, <1>1 DEF Moves, LogTypeOK, Late
  <2>4. d \notin Late("backup")'
    BY <1>0, <1>1 DEF Moves, LogTypeOK, Late
  <2>5. \A n \in Two : Late(n)' \subseteq Late(n)
    BY <1>0, <1>c, <2>2, <2>3, <2>4
  <2>6. QED
    BY <1>0, <1>b, <2>1, <2>5
<1>2. ASSUME NEW d \in Daemons, ShouldRotate(d)
      PROVE  Bounded("log")' /\ Bounded("backup")'
  <2>1. /\ writes[d] = "stat" /\ UNCHANGED <<logs, openLog, failures>>
        /\ writes' = [writes EXCEPT ![d] = IF Len(logs["log"]) >= MaxBytes
                                            THEN "stat backup" ELSE "open"]
    BY <1>2 DEF ShouldRotate, Moves, files
  <2>2. \A e \in Daemons \ {d} : writes'[e] = writes[e] /\ openLog'[e] = openLog[e]
    BY <1>0, <2>1 DEF LogTypeOK
  <2>3. d \notin Late("backup")' /\ (Len(logs["log"]) >= MaxBytes => d \notin Late("log")')
    BY <1>0, <2>1 DEF LogTypeOK, Late
  <2>4. Late("backup")' \subseteq Late("backup")
    BY <1>0, <1>c, <2>2, <2>3
  <2>5. Len(logs["log"]) >= MaxBytes => Late("log")' \subseteq Late("log")
    BY <1>0, <1>c, <2>2, <2>3
  <2>6. Len(logs["log"]) \in Nat /\ MaxBytes \in Nat
    BY <1>0, LogAssumption
  <2>7. failures' >= failures
    <3>1. failures' = failures
      BY <2>1
    <3>2. failures \in Nat
      BY <1>0
    <3>3. QED
      BY <3>1, <3>2
  <2>8. QED
    <3>1. CASE Len(logs["log"]) >= MaxBytes
      BY <1>b, <2>1, <2>4, <2>5, <2>7, <3>1
    <3>2. CASE Len(logs["log"]) < MaxBytes
      BY <1>a, <1>b, <2>1, <2>4, <2>7, <3>2
    <3>3. QED
      BY <2>6, <3>1, <3>2
<1>3. ASSUME NEW d \in Daemons, RemoveBackup(d)
      PROVE  Bounded("log")' /\ Bounded("backup")'
  <2>1. /\ writes[d] = "remove" /\ writes' = [writes EXCEPT ![d] = "rename"]
        /\ logs' = [logs EXCEPT !["backup"] = <<>>] /\ failures' = failures
        /\ \A e \in Daemons : openLog'[e] = "log" => openLog[e] = "log"
    BY <1>3 DEF RemoveBackup, Moves
  <2>2. Late("log")' \subseteq Late("log")
    BY <1>0, <2>1 DEF LogTypeOK, Late
  <2>3. logs'["log"] = logs["log"] /\ Len(logs'["backup"]) = 0
    BY <1>0, <2>1, LogNames DEF LogTypeOK
  <2>4. QED
    BY <1>0, <1>a, <1>b, <2>1, <2>2, <2>3, LogAssumption
<1>4. ASSUME NEW d \in Daemons, RenameLog(d)
      PROVE  Bounded("log")' /\ Bounded("backup")'
  <2>0. /\ writes[d] = "rename" /\ writes' = [writes EXCEPT ![d] = "open"]
        /\ failures' = failures
    BY <1>4 DEF RenameLog, Moves
  <2>1. CASE "log" \in exist
    <3>1. Len(logs'["log"]) = 0 /\ logs'["backup"] = logs["log"]
      <4>1. /\ logs' = [n \in Names |-> IF n = "backup" THEN logs["log"] ELSE <<>>]
        BY <1>4, <2>1 DEF RenameLog
      <4>2. QED
        BY <4>1, LogNames
    <3>2. \A e \in Daemons : openLog'[e] = "backup" => openLog[e] = "log"
      BY <1>4, <2>1 DEF RenameLog
    <3>3. Late("backup")' \subseteq Late("log")
      BY <1>0, <2>0, <3>2 DEF LogTypeOK, Late
    <3>4. QED
      BY <1>0, <1>a, <1>b, <2>0, <3>1, <3>3, LogAssumption
  <2>2. CASE "log" \notin exist
    <3>1. UNCHANGED <<logs, openLog>> /\ Len(logs["log"]) = 0
      BY <1>0, <1>4, <2>2 DEF RenameLog, files, LogInv, FileInv
    <3>2. Late("backup")' \subseteq Late("backup")
      BY <1>0, <2>0, <3>1 DEF LogTypeOK, Late
    <3>3. QED
      BY <1>0, <1>a, <1>b, <2>0, <3>1, <3>2, LogAssumption
  <2>3. QED
    BY <2>1, <2>2
<1>5. ASSUME NEW d \in Daemons, AppendEntry(d)
      PROVE  Bounded("log")' /\ Bounded("backup")'
  <2>1. /\ writes[d] = "write" /\ writes' = [writes EXCEPT ![d] = "idle"]
        /\ openLog' = [openLog EXCEPT ![d] = "closed"] /\ failures' = failures
        /\ logs' = IF openLog[d] = "gone" THEN logs
                   ELSE [logs EXCEPT ![openLog[d]] = Append(logs[openLog[d]], entries + 1)]
    BY <1>5 DEF AppendEntry, Moves
  <2>2. \A e \in Daemons \ {d} : writes'[e] = writes[e] /\ openLog'[e] = openLog[e]
    BY <1>0, <2>1 DEF LogTypeOK
  <2>3. ASSUME NEW n \in Two
        PROVE  Late(n)' = Late(n) \ {d} /\ (openLog[d] = n => d \in Late(n))
    <3>1. d \notin Late(n)' /\ (openLog[d] = n => d \in Late(n))
      BY <1>0, <2>1, <2>3 DEF LogTypeOK, Late
    <3>2. QED
      BY <1>0, <1>c, <2>2, <2>3, <3>1
  <2>4. ASSUME NEW n \in Two, openLog[d] # n
        PROVE  Bounded(n)'
    <3>1. logs'[n] = logs[n]
      BY <1>0, <2>1, <2>4, LogNames DEF LogTypeOK
    <3>2. QED
      BY <1>0, <1>b, <2>1, <2>3, <2>4, <3>1
  <2>5. ASSUME NEW n \in Two, openLog[d] = n
        PROVE  Bounded(n)'
    <3>1. Len(logs'[n]) = Len(logs[n]) + 1
      <4>1. logs' = [logs EXCEPT ![n] = Append(logs[n], entries + 1)]
        BY <2>1, <2>5
      <4>2. logs[n] \in Seq(Entries) /\ logs'[n] = Append(logs[n], entries + 1)
        BY <1>0, <4>1, LogNames DEF LogTypeOK
      <4>3. QED
        BY <4>2
    <3>2. IsFiniteSet(Late(n)) /\ Cardinality(Late(n)) \in Nat /\ Cardinality(Daemons) \in Nat
      BY <1>0, SomeDaemons
    <3>3. Cardinality(Late(n)') = Cardinality(Late(n)) - 1
      BY <2>3, <2>5, <3>2, FS_RemoveElement
    <3>4. QED
      BY <1>0, <2>1, <3>1, <3>2, <3>3, LogAssumption DEF Bounded
  <2>6. QED
    BY <2>4, <2>5
<1>6. CASE UNCHANGED logVars
  <2>1. /\ Late("log")' = Late("log") /\ Late("backup")' = Late("backup")
        /\ UNCHANGED <<logs, failures>>
    BY <1>6 DEF logVars, files, Late
  <2>2. QED
    BY <1>0, <1>b, <2>1
<1>7. ASSUME NEW d \in Daemons, RotationFails(d)
      PROVE  Bounded("log")' /\ Bounded("backup")'
  <2>1. /\ writes' = [writes EXCEPT ![d] = "open"] /\ UNCHANGED <<logs, openLog>>
        /\ failures' = failures + 1
    BY <1>7 DEF RotationFails, Moves, files
  <2>2. /\ Late("log")' \subseteq Late("log") \cup {d}
        /\ Late("backup")' \subseteq Late("backup")
    BY <1>0, <2>1 DEF LogTypeOK, Late
  <2>3. Bounded("backup")'
    BY <1>0, <1>b, <2>1, <2>2
  <2>4. Cardinality(Late("log")') <= Cardinality(Late("log")) + 1
    <3>1. IsFiniteSet(Late("log")) /\ Cardinality(Late("log")) \in Nat
      BY <1>0, SomeDaemons
    <3>2. /\ IsFiniteSet(Late("log") \cup {d})
          /\ Cardinality(Late("log") \cup {d}) \in Nat
          /\ Cardinality(Late("log") \cup {d}) <= Cardinality(Late("log")) + 1
      BY <3>1, FS_AddElement
    <3>3. Cardinality(Late("log")') \in Nat
      BY <1>0, SomeDaemons
    <3>4. QED
      BY <2>2, <3>1, <3>2, <3>3, FS_Subset
  <2>5. /\ Cardinality(Late("log")') \in Nat /\ Cardinality(Late("log")) \in Nat
        /\ Cardinality(Daemons) \in Nat /\ logs'["log"] = logs["log"]
    BY <1>0, <2>1, SomeDaemons
  <2>6. Bounded("log")'
    BY <1>0, <2>1, <2>4, <2>5, LogAssumption DEF Bounded
  <2>7. QED
    BY <2>3, <2>6
<1>8. QED
  BY <1>1, <1>2, <1>3, <1>4, <1>5, <1>6, <1>7 DEF LogNext

(* A log file exceeds its limit by less than an entry of each daemon and one  *)
(* for each rotation that failed, however many daemons write and whatever is  *)
(* renamed or removed, or fails to be, meanwhile (logger.go 101-133).         *)
THEOREM SizeCorrect == LogSpec => []LogBounded
<1>1. SizeInv => LogBounded
  <2> SUFFICES ASSUME SizeInv, NEW n \in Names
               PROVE  Len(logs[n]) < MaxBytes + Cardinality(Daemons) + failures
      BY DEF LogBounded
  <2>1. /\ Bounded(n) /\ Len(logs[n]) \in Nat /\ Late(n) \subseteq Daemons
        /\ failures \in Nat
    BY LogNames, LogLengths, LateOnes, FailureCount DEF SizeInv
  <2>2. Cardinality(Late(n)) \in Nat /\ Cardinality(Daemons) \in Nat
    BY <2>1, SomeDaemons
  <2>3. QED
    BY <2>1, <2>2, LogAssumption DEF Bounded
<1>2. QED
  BY <1>1, SizeInvInit, SizeInvStep, PTL DEF LogSpec

-----------------------------------------------------------------------------
(* The newest entries of a daemon that runs alone.  The backup and the log,  *)
(* one after the other, number the entries without a gap up to the last one; *)
(* the backup is as large as the limit, or the log is, or the log is all.    *)
Log == logs["log"]
Backup == logs["backup"]

Numbered == /\ \A i \in 1 .. Len(Log) : Log[i] = entries - Len(Log) + i
            /\ \A i \in 1 .. Len(Backup) : Backup[i] = entries - Len(Log) - Len(Backup) + i

Covered == IF "backup" \in exist THEN Len(Backup) >= MaxBytes
                                 ELSE Len(Log) >= MaxBytes \/ Len(Log) = entries

Rotating(d) == writes[d] \in {"stat backup", "remove", "rename"}

Alone == /\ \A d, e \in Daemons : writes[d] # "off" /\ writes[e] # "off" => d = e
         /\ \A d \in Daemons : /\ Rotating(d) => Len(Log) >= MaxBytes
                               /\ writes[d] = "write" => openLog[d] = "log"

AloneInv == ~ paired => Numbered /\ Covered /\ Alone

LEMMA AloneInvInit == LogInit => AloneInv
<1> SUFFICES ASSUME LogInit PROVE AloneInv
    OBVIOUS
<1>1. Len(Log) = 0 /\ Len(Backup) = 0
  BY LogNames DEF LogInit, Log, Backup
<1>2. Numbered /\ Covered
  BY <1>1 DEF LogInit, Numbered, Covered
<1>3. Alone
  BY DEF LogInit, Alone, Rotating
<1>4. QED
  BY <1>2, <1>3 DEF AloneInv

LEMMA AloneInvStep == LogInv /\ AloneInv /\ [LogNext]_logVars => AloneInv'
<1> SUFFICES ASSUME LogInv, AloneInv, [LogNext]_logVars, ~ paired'
             PROVE  Numbered' /\ Covered' /\ Alone'
    BY DEF AloneInv
<1>0. LogTypeOK /\ ~ paired
  BY DEF LogInv, LogTypeOK, LogNext, logVars, StartLogging, StopLogging, KillLogging,
         WriteEntry, ShouldRotate, RotationFails, StatBackup, BackupStays, RemoveBackup,
         RenameLog, OpenLog, AppendEntry, EntryLost
<1>1. /\ Numbered /\ Covered /\ Alone
      /\ Len(Log) \in Nat /\ Len(Backup) \in Nat /\ entries \in Nat
      /\ MaxBytes \in Nat /\ MaxBytes > 0
      /\ writes \in [Daemons -> Places]
  <2>1. /\ Numbered /\ Covered /\ Alone /\ writes \in [Daemons -> Places]
        /\ entries \in 0 .. MaxEntries
    BY <1>0 DEF AloneInv, LogTypeOK, Places
  <2>2. Len(Log) \in Nat /\ Len(Backup) \in Nat
    BY LogLengths, LogNames DEF Log, Backup
  <2>3. QED
    BY <2>1, <2>2, LogAssumption
(* The files, when nothing happens to them. *)
<1>a. ASSUME UNCHANGED <<logs, exist, entries>>
      PROVE  Numbered' /\ Covered' /\ Log' = Log
  BY <1>1, <1>a DEF Numbered, Covered, Log, Backup
(* The daemons, when only the one that runs moves. *)
<1>b. ASSUME NEW d \in Daemons, NEW to \in Places,
             writes[d] # "off" \/ \A e \in Daemons \ {d} : writes[e] = "off",
             writes' = [writes EXCEPT ![d] = to],
             to \in {"stat backup", "remove", "rename"} => Len(Log') >= MaxBytes,
             to = "write" => openLog'[d] = "log"
      PROVE  Alone'
  <2>1. \A e \in Daemons \ {d} : writes'[e] = "off"
    BY <1>1, <1>b DEF Alone
  <2>2. writes'[d] = to
    BY <1>1, <1>b
  <2>3. \A e \in Daemons : writes'[e] # "off" => e = d
    BY <2>1
  <2>4. QED
    BY <1>b, <2>2, <2>3 DEF Alone, Rotating
<1>2. ASSUME NEW d \in Daemons, StartLogging(d)
      PROVE  Numbered' /\ Covered' /\ Alone'
  <2>1. /\ writes' = [writes EXCEPT ![d] = "idle"] /\ UNCHANGED <<logs, exist, entries>>
        /\ \A e \in Daemons \ {d} : writes[e] = "off"
    BY <1>2 DEF StartLogging, Moves, files
  <2>2. QED
    BY <1>a, <1>b, <2>1 DEF Places
<1>3. ASSUME NEW d \in Daemons, \/ StopLogging(d) \/ KillLogging(d) \/ WriteEntry(d)
                                \/ RotationFails(d) \/ EntryLost(d)
      PROVE  Numbered' /\ Covered' /\ Alone'
  <2>1. /\ \E to \in {"off", "stat", "open", "idle"} : writes' = [writes EXCEPT ![d] = to]
        /\ writes[d] # "off" /\ UNCHANGED <<logs, exist, entries>>
    BY <1>3 DEF StopLogging, KillLogging, WriteEntry, RotationFails, EntryLost, Moves, files
  <2>2. QED
    BY <1>a, <1>b, <2>1 DEF Places
<1>4. ASSUME NEW d \in Daemons, ShouldRotate(d)
      PROVE  Numbered' /\ Covered' /\ Alone'
  <2>1. /\ writes' = [writes EXCEPT ![d] = IF Len(Log) >= MaxBytes
                                           THEN "stat backup" ELSE "open"]
        /\ writes[d] # "off" /\ UNCHANGED <<logs, exist, entries>>
    BY <1>4 DEF ShouldRotate, Moves, files, Log
  <2>2. CASE Len(Log) >= MaxBytes
    BY <1>a, <1>b, <2>1, <2>2 DEF Places
  <2>3. CASE ~ Len(Log) >= MaxBytes
    BY <1>a, <1>b, <2>1, <2>3 DEF Places
  <2>4. QED
    BY <2>2, <2>3
<1>5. ASSUME NEW d \in Daemons, StatBackup(d) \/ BackupStays(d)
      PROVE  Numbered' /\ Covered' /\ Alone'
  <2>1. /\ \E to \in {"remove", "rename"} : writes' = [writes EXCEPT ![d] = to]
        /\ writes[d] \in {"stat backup", "remove"} /\ UNCHANGED <<logs, exist, entries>>
    BY <1>5 DEF StatBackup, BackupStays, Moves, files
  <2>2. Len(Log) >= MaxBytes
    BY <1>1, <2>1 DEF Alone, Rotating
  <2>3. QED
    BY <1>a, <1>b, <2>1, <2>2 DEF Places
<1>6. ASSUME NEW d \in Daemons, RemoveBackup(d)
      PROVE  Numbered' /\ Covered' /\ Alone'
  <2>1. /\ writes[d] = "remove" /\ writes' = [writes EXCEPT ![d] = "rename"]
        /\ logs' = [logs EXCEPT !["backup"] = <<>>]
        /\ exist' = exist \ {"backup"} /\ entries' = entries
    BY <1>6 DEF RemoveBackup, Moves
  <2>2. Log' = Log /\ Len(Backup') = 0
    BY <1>0, <2>1, LogNames DEF LogTypeOK, Log, Backup
  <2>3. Len(Log) >= MaxBytes
    BY <1>1, <2>1 DEF Alone, Rotating
  <2>4. Numbered'
    BY <1>1, <2>1, <2>2 DEF Numbered
  <2>5. Covered'
    BY <2>1, <2>2, <2>3 DEF Covered
  <2>6. Alone'
    BY <1>b, <2>1, <2>2, <2>3 DEF Places
  <2>7. QED
    BY <2>4, <2>5, <2>6
<1>7. ASSUME NEW d \in Daemons, RenameLog(d)
      PROVE  Numbered' /\ Covered' /\ Alone'
  <2>1. writes[d] = "rename" /\ writes' = [writes EXCEPT ![d] = "open"] /\ entries' = entries
    BY <1>7 DEF RenameLog, Moves
  <2>2. Len(Log) >= MaxBytes
    BY <1>1, <2>1 DEF Alone, Rotating
  <2>3. "log" \in exist
    BY <1>1, <2>2 DEF LogInv, FileInv, Log
  <2>4. /\ logs' = [name \in Names |-> IF name = "backup" THEN logs["log"] ELSE <<>>]
        /\ exist' = {"backup"}
    BY <1>7, <2>3 DEF RenameLog
  <2>5. Backup' = Log /\ Len(Log') = 0
    BY <2>4, LogNames DEF Log, Backup
  <2>6. Numbered'
    BY <1>1, <2>1, <2>5 DEF Numbered
  <2>7. Covered'
    BY <2>2, <2>4, <2>5 DEF Covered
  <2>8. Alone'
    BY <1>b, <2>1 DEF Places
  <2>9. QED
    BY <2>6, <2>7, <2>8
<1>8. ASSUME NEW d \in Daemons, OpenLog(d)
      PROVE  Numbered' /\ Covered' /\ Alone'
  <2>1. /\ writes[d] = "open" /\ writes' = [writes EXCEPT ![d] = "write"]
        /\ openLog' = [openLog EXCEPT ![d] = "log"]
        /\ UNCHANGED <<logs, entries>> /\ exist' = exist \cup {"log"}
    BY <1>8 DEF OpenLog, Moves
  <2>2. openLog'[d] = "log"
    BY <1>0, <2>1 DEF LogTypeOK
  <2>3. Alone'
    BY <1>b, <2>1, <2>2 DEF Places
  <2>4. Numbered' /\ Covered'
    BY <1>1, <2>1 DEF Numbered, Covered, Log, Backup
  <2>5. QED
    BY <2>3, <2>4
<1>9. ASSUME NEW d \in Daemons, AppendEntry(d)
      PROVE  Numbered' /\ Covered' /\ Alone'
  <2>1. /\ writes[d] = "write" /\ writes' = [writes EXCEPT ![d] = "idle"]
        /\ entries' = entries + 1 /\ exist' = exist
        /\ logs' = IF openLog[d] = "gone" THEN logs
                   ELSE [logs EXCEPT ![openLog[d]] = Append(logs[openLog[d]], entries + 1)]
    BY <1>9 DEF AppendEntry, Moves
  <2>2. logs' = [logs EXCEPT !["log"] = Append(Log, entries + 1)]
    BY <1>1, <2>1 DEF Alone, Log
  <2>3. Log' = Append(Log, entries + 1) /\ Backup' = Backup
    BY <1>0, <2>2, LogNames DEF LogTypeOK, Log, Backup
  <2>4. Log \in Seq(Entries)
    BY <1>0, LogNames DEF LogTypeOK, Log
  <2>5. /\ Len(Log') = Len(Log) + 1
        /\ \A i \in 1 .. Len(Log) : Log'[i] = Log[i]
        /\ Log'[Len(Log) + 1] = entries + 1
    BY <2>3, <2>4
  <2>6. Numbered'
    BY <1>1, <2>1, <2>3, <2>5 DEF Numbered
  <2>7. Covered'
    BY <1>1, <2>1, <2>3, <2>5 DEF Covered
  <2>8. Alone'
    BY <1>b, <2>1 DEF Places
  <2>9. QED
    BY <2>6, <2>7, <2>8
<1>10. CASE UNCHANGED logVars
  BY <1>1, <1>10 DEF logVars, files, Numbered, Covered, Alone, Rotating, Log, Backup
<1>11. QED
  BY <1>2, <1>3, <1>4, <1>5, <1>6, <1>7, <1>8, <1>9, <1>10 DEF LogNext

(* The newest MaxBytes bytes of the log of a daemon that runs alone are in   *)
(* one of the two files, through every rotation, failed or not, every kill   *)
(* and every restart.                                                        *)
THEOREM RecentCorrect == LogSpec => []RecentEntriesKept
<1>1. LogInv /\ AloneInv => RecentEntriesKept
  <2> SUFFICES ASSUME LogInv, AloneInv, ~ paired, NEW n \in Entries,
                      n <= entries, n > entries - MaxBytes
               PROVE  n \in Kept
      BY DEF RecentEntriesKept
  <2>1. /\ Numbered /\ Covered
        /\ Len(Log) \in Nat /\ Len(Backup) \in Nat /\ entries \in Nat
        /\ MaxBytes \in Nat /\ n \in Nat /\ n > 0
        /\ DOMAIN Log = 1 .. Len(Log) /\ DOMAIN Backup = 1 .. Len(Backup)
    <3>1. /\ Numbered /\ Covered /\ entries \in 0 .. MaxEntries
          /\ Log \in Seq(Entries) /\ Backup \in Seq(Entries)
      BY LogNames DEF LogInv, LogTypeOK, AloneInv, Log, Backup
    <3>2. MaxEntries \in Nat /\ MaxBytes \in Nat
      BY LogAssumption
    <3>3. n \in 1 .. MaxEntries
      BY DEF Entries
    <3>4. QED
      BY <3>1, <3>2, <3>3
  <2>2. CASE n > entries - Len(Log)
    <3>1. n - entries + Len(Log) \in DOMAIN Log /\ Log[n - entries + Len(Log)] = n
      BY <2>1, <2>2 DEF Numbered
    <3>2. n \in {Log[j] : j \in DOMAIN Log}
      BY <3>1
    <3>3. QED
      BY <3>2, LogNames DEF Kept, Log
  <2>3. CASE ~ n > entries - Len(Log)
    <3> DEFINE i == n - entries + Len(Log) + Len(Backup)
    <3>1. Len(Backup) >= MaxBytes
      <4>1. Len(Backup) >= MaxBytes \/ Len(Log) >= MaxBytes \/ Len(Log) = entries
        BY <2>1 DEF Covered
      <4>2. ~ Len(Log) >= MaxBytes /\ Len(Log) # entries
        <5> DEFINE size == Len(Log)
        <5>1. size \in Nat /\ ~ n > entries - size
          BY <2>1, <2>3
        <5> HIDE DEF size
        <5>2. ~ size >= MaxBytes /\ size # entries
          BY <2>1, <5>1
        <5>3. QED
          BY <5>2 DEF size
      <4>3. QED
        BY <4>1, <4>2
    <3>2. i \in DOMAIN Backup /\ Backup[i] = n
      BY <2>1, <2>3, <3>1 DEF Numbered
    <3>3. n \in {Backup[j] : j \in DOMAIN Backup}
      BY <3>2
    <3>4. QED
      BY <3>3, LogNames DEF Kept, Backup
  <2>4. QED
    BY <2>2, <2>3
<1>2. QED
  BY <1>1, LogInvInit, LogInvStep, AloneInvInit, AloneInvStep, PTL DEF LogSpec

-----------------------------------------------------------------------------
(* The commands that read.  Sets of notes first. *)

LEMMA LeastNatural ==
    ASSUME NEW S \in SUBSET Nat, S # {}
    PROVE  \E n \in S : \A m \in S : n <= m
<1> DEFINE Less == {p \in Nat \X Nat : p[1] < p[2]}
<1>1. IsWellFoundedOn(Less, Nat)
  BY NatLessThanWellFounded DEF OpToRel
<1>2. PICK n \in S : \A m \in S : <<m, n>> \notin Less
  BY <1>1, WFMin
<1>3. \A m \in S : ~ (m < n)
  BY <1>2
<1>4. QED
  BY <1>3

LEMMA NewestExists ==
    ASSUME NEW n \in Nat, NEW S \in SUBSET (1 .. n), S # {}
    PROVE  \E i \in S : \A j \in S : j <= i
<1> DEFINE B == {m \in Nat : \A j \in S : j <= m}
<1>1. B \in SUBSET Nat /\ n \in B
  OBVIOUS
<1>2. PICK i \in B : \A m \in B : i <= m
  BY <1>1, LeastNatural
<1>3. CASE i \in S
  BY <1>2, <1>3
<1>4. CASE i \notin S
  <2>1. \A j \in S : j <= i - 1
    BY <1>2, <1>4
  <2>2. PICK j \in S : TRUE
    OBVIOUS
  <2>3. j \in Nat /\ j <= i - 1 /\ i \in Nat
    BY <2>1
  <2>4. i - 1 \in B
    BY <2>1, <2>3
  <2>5. QED
    BY <1>2, <2>3, <2>4
<1>5. QED
  BY <1>3, <1>4

\* ORDER BY timestamp DESC LIMIT 1
LEMMA NewestOne ==
    ASSUME NEW n \in Nat, NEW S \in SUBSET (1 .. n), S # {}
    PROVE  \E i \in S : /\ \A j \in S : j <= i
                        /\ Newest(S, 1) = {i}
<1>1. PICK i \in S : \A j \in S : j <= i
  BY NewestExists
<1>2. IsFiniteSet(S)
  <2>1. IsFiniteSet(1 .. n)
    BY FS_Interval
  <2>2. QED
    BY <2>1, FS_Subset
<1>3. ASSUME NEW k \in S
      PROVE  Cardinality({j \in S : j > k}) < 1 <=> {j \in S : j > k} = {}
  <2>1. IsFiniteSet({j \in S : j > k})
    BY <1>2, FS_Subset
  <2>2. QED
    BY <2>1, FS_EmptySet, FS_CardinalityType
<1>4. ASSUME NEW k \in S
      PROVE  {j \in S : j > k} = {} <=> k = i
  <2>1. k \in Nat /\ i \in Nat /\ k <= i
    BY <1>1
  <2>2. k # i => i \in {j \in S : j > k}
    BY <2>1
  <2>3. k = i => {j \in S : j > k} = {}
    <3>1. \A j \in S : j \in Nat /\ ~ (j > i)
      BY <1>1
    <3>2. QED
      BY <3>1
  <2>4. QED
    BY <2>2, <2>3
<1>5. \A k : k \in Newest(S, 1) <=> k = i
  BY <1>1, <1>3, <1>4 DEF Newest
<1>6. QED
  BY <1>1, <1>5

\* A limit that is not reached takes nothing away.
LEMMA NewestAll ==
    ASSUME NEW n \in Nat, NEW S \in SUBSET (1 .. n), NEW limit \in Nat, n <= limit
    PROVE  Newest(S, limit) = S
<1>1. IsFiniteSet(1 .. n) /\ Cardinality(1 .. n) = n
  BY FS_Interval
<1>2. ASSUME NEW k \in S
      PROVE  Cardinality({j \in S : j > k}) < limit
  <2> DEFINE Later == {j \in S : j > k}
  <2>1. k \in 1 .. n /\ ~ (k > k)
    OBVIOUS
  <2>2. /\ IsFiniteSet((1 .. n) \ {k})
        /\ Cardinality((1 .. n) \ {k}) = n - 1
    BY <1>1, <2>1, FS_RemoveElement
  <2>3. Later \subseteq (1 .. n) \ {k}
    BY <2>1
  <2>4. Cardinality(Later) <= n - 1 /\ Cardinality(Later) \in Nat
    BY <2>2, <2>3, FS_Subset, FS_CardinalityType
  <2>5. QED
    BY <2>4
<1>3. QED
  BY <1>2 DEF Newest

\* What Best may choose of a finite set.
LEMMA BestIs ==
    ASSUME NEW S, IsFiniteSet(S), NEW n \in Nat, NEW H \in Best(S, n)
    PROVE  /\ H \subseteq S /\ IsFiniteSet(H)
           /\ Cardinality(H) \in Nat /\ Cardinality(H) <= n
           /\ Cardinality(S) <= n => H = S
<1>1. Cardinality(S) \in Nat
  BY FS_CardinalityType
<1>2. H \subseteq S /\ Cardinality(H) = IF n < Cardinality(S) THEN n ELSE Cardinality(S)
  BY DEF Best, kSubset
<1>3. IsFiniteSet(H)
  BY <1>2, FS_Subset
<1>4. Cardinality(S) <= n => H = S
  BY <1>1, <1>2, FS_Subset
<1>5. QED
  BY <1>1, <1>2, <1>3, <1>4

-----------------------------------------------------------------------------
(* Types, and what the tables have in common at all times. *)
Reply == [shown : SUBSET Nat, total : Nat, last : Nat, of : Projects \cup {None},
          known : SUBSET Nat]

QueryTypeInv == /\ QueriesTypeOK
                /\ reply \in Reply
                /\ Len(notes) <= MaxNotes
                /\ next # "idle" => ask.project \in Projects
                /\ reply.known \subseteq Rows(ask.project)

(* Which command is at which step. *)
CommandInv == /\ next = "log" => ask.command = "log"
              /\ next \in {"low context", "count", "recent", "list"} => ask.command = "status"
              /\ next \in {"search", "rows"} => ask.command = "search"

LEMMA TablesFinite ==
    ASSUME QueryTypeInv, NEW p
    PROVE  /\ Len(notes) \in Nat /\ DOMAIN notes = 1 .. Len(notes)
           /\ IsFiniteSet(DOMAIN notes)
           /\ Rows(p) \subseteq DOMAIN notes /\ Hits(p) \subseteq Rows(p)
           /\ IsFiniteSet(Rows(p)) /\ Cardinality(Rows(p)) \in Nat
           /\ IsFiniteSet(Hits(p)) /\ Cardinality(Hits(p)) \in Nat
<1>1. Len(notes) \in Nat /\ DOMAIN notes = 1 .. Len(notes)
  <2>1. notes \in Seq(Note)
    BY DEF QueryTypeInv, QueriesTypeOK
  <2>2. QED
    BY <2>1
<1>2. IsFiniteSet(DOMAIN notes)
  BY <1>1, FS_Interval
<1>3. Rows(p) \subseteq DOMAIN notes /\ Hits(p) \subseteq Rows(p)
  BY DEF Rows, Hits
<1>4. IsFiniteSet(Rows(p)) /\ IsFiniteSet(Hits(p))
  BY <1>2, <1>3, FS_Subset
<1>5. QED
  BY <1>1, <1>2, <1>3, <1>4, FS_CardinalityType

(* A save appends one note, and changes none. *)
LEMMA SaveIs ==
    ASSUME QueryTypeInv, NEW note \in Note, SaveNote(note)
    PROVE  /\ notes' \in Seq(Note) /\ Len(notes') <= MaxNotes
           /\ \A p : /\ Rows(p) \subseteq Rows(p)' /\ Hits(p) \subseteq Hits(p)'
                     /\ Rows(p)' \cap DOMAIN notes = Rows(p)
                     /\ Hits(p)' \cap DOMAIN notes = Hits(p)
           /\ DOMAIN notes \subseteq DOMAIN notes'
<1>1. notes \in Seq(Note) /\ MaxNotes \in Nat /\ notes' = Append(notes, note)
  BY QueriesAssumption DEF QueryTypeInv, QueriesTypeOK, SaveNote
<1>2. /\ notes' \in Seq(Note) /\ Len(notes') <= MaxNotes
      /\ DOMAIN notes \subseteq DOMAIN notes'
      /\ \A i \in DOMAIN notes : notes'[i] = notes[i]
  BY <1>1 DEF SaveNote
<1>3. QED
  BY <1>2 DEF Rows, Hits

LEMMA ListIs ==
    ASSUME QueryTypeInv, NEW p, NEW f, NEW since, NEW limit
    PROVE  ListIntents(p, f, since, limit) \subseteq DOMAIN notes
  BY DEF ListIntents, Newest, Rows

LEMMA QueryInvInit == QueriesInit => QueryTypeInv /\ CommandInv
<1> SUFFICES ASSUME QueriesInit PROVE QueryTypeInv /\ CommandInv
    OBVIOUS
<1> USE DEF QueriesInit
<1>1. MaxNotes \in Nat /\ MaxLimit \in Nat
  BY QueriesAssumption
<1>2. notes \in Seq(Note) /\ Len(notes) = 0
  OBVIOUS
<1>3. ask \in Ask
  BY <1>1 DEF Ask
<1>4. reply \in Reply /\ reply.known = {} /\ reply.shown = {}
  BY DEF NoReply, Reply
<1>5. CommandInv
  BY DEF CommandInv
<1>6. embedded \subseteq DOMAIN notes /\ daemon \in Projects \cup {None, "off"} /\ next = "idle"
  OBVIOUS
<1> HIDE DEF QueriesInit
<1>7. QED
  BY <1>1, <1>2, <1>3, <1>4, <1>5, <1>6 DEF QueryTypeInv, QueriesTypeOK

LEMMA Zeros == 0 \in 0 .. MaxNotes /\ 0 \in 0 .. MaxLimit
  BY QueriesAssumption

(* A step of a command that leaves the tables alone. *)
LEMMA GatheredTypes ==
    ASSUME QueryTypeInv, NEW from, NEW to, NEW gathered \in Reply, Gathers(from, to, gathered),
           from # "idle",
           to \in {"idle", "log", "low context", "count", "recent", "list", "search", "rows",
                   "done"},
           gathered.shown \subseteq DOMAIN notes, gathered.known \subseteq Rows(ask.project)
    PROVE  QueryTypeInv'
  BY DEF Gathers, QueryTypeInv, QueriesTypeOK, Rows

LEMMA QueryTypeStep == QueryTypeInv /\ CommandInv /\ [QueriesNext]_queryVars => QueryTypeInv'
<1> SUFFICES ASSUME QueryTypeInv, CommandInv, [QueriesNext]_queryVars
             PROVE  QueryTypeInv'
    OBVIOUS
<1>0. /\ reply \in Reply /\ ask \in Ask /\ notes \in Seq(Note)
      /\ reply.known \subseteq Rows(ask.project) /\ reply.shown \subseteq DOMAIN notes
      /\ daemon \in Projects \cup {None, "off"} /\ DOMAIN notes \subseteq Nat
      /\ \A p : Rows(p) \subseteq DOMAIN notes
  <2>1. DOMAIN notes \subseteq Nat /\ \A p : Rows(p) \subseteq DOMAIN notes
    BY TablesFinite DEF Rows
  <2>2. QED
    BY <2>1 DEF QueryTypeInv, QueriesTypeOK
<1>1. ASSUME NEW note \in Note, SaveNote(note)
      PROVE  QueryTypeInv'
  <2>1. UNCHANGED <<embedded, daemon, ask, next, reply>>
    BY <1>1 DEF SaveNote
  <2>2. QED
    BY <1>0, <1>1, <2>1, SaveIs DEF QueryTypeInv, QueriesTypeOK
<1>2. CASE EmbedNote
  BY <1>2 DEF EmbedNote, QueryTypeInv, QueriesTypeOK, Rows
<1>3. CASE StartElsewhere
  BY <1>3 DEF StartElsewhere, QueryTypeInv, QueriesTypeOK, Rows
<1>4. ASSUME NEW p \in Projects, NEW f \in Paths \cup {None}, NEW since \in 0 .. MaxNotes,
             NEW limit \in 0 .. MaxLimit, NEW command \in {"log", "status", "search"},
             NEW step \in {"log", "low context", "search"},
             Begin(command, p, f, since, limit, step)
      PROVE  QueryTypeInv'
  <2>1. /\ ask' = [project |-> p, file |-> f, since |-> since, limit |-> limit,
                   command |-> command]
        /\ next' = step /\ reply' = [NoReply EXCEPT !.known = Rows(p)]
        /\ UNCHANGED <<notes, embedded, daemon>>
    BY <1>4 DEF Begin
  <2>2. ask' \in Ask /\ ask'.project = p
    BY <2>1 DEF Ask
  <2>3. reply' \in Reply /\ reply'.known = Rows(p) /\ reply'.shown = {}
    BY <1>0, <2>1 DEF Reply, NoReply
  <2>4. Rows(p)' = Rows(p)
    BY <2>1 DEF Rows
  <2>5. QED
    BY <2>1, <2>2, <2>3, <2>4 DEF QueryTypeInv, QueriesTypeOK
<1>5. CASE RunLog
  <2> DEFINE r == [reply EXCEPT !.of = ask.project,
                                !.shown = ListIntents(ask.project, ask.file, ask.since, ask.limit)]
  <2>1. Gathers("log", "done", r)
    BY <1>5 DEF RunLog
  <2>2. ListIntents(ask.project, ask.file, ask.since, ask.limit) \subseteq DOMAIN notes
    BY ListIs
  <2>3. r \in Reply /\ r.shown \subseteq DOMAIN notes /\ r.known = reply.known
    BY <1>0, <2>2 DEF Reply, Ask
  <2>4. QED
    BY <1>0, <2>1, <2>3, GatheredTypes
<1>6. CASE StatusLowContext
  <2>1. PICK p \in {ask.project} \cup ({daemon} \ {"off"}) :
           Gathers("low context", "count", [reply EXCEPT !.of = p])
    BY <1>6 DEF StatusLowContext
  <2>2. p \in Projects \cup {None}
    BY <1>0 DEF Ask
  <2>3. /\ [reply EXCEPT !.of = p] \in Reply
        /\ [reply EXCEPT !.of = p].shown = reply.shown
        /\ [reply EXCEPT !.of = p].known = reply.known
    BY <1>0, <2>2 DEF Reply
  <2>4. QED
    BY <1>0, <2>1, <2>3, GatheredTypes
<1>7. CASE StatusCount
  <2>1. CountIntents(ask.project) \in Nat
    BY TablesFinite DEF CountIntents
  <2> DEFINE r == [reply EXCEPT !.total = CountIntents(ask.project)]
  <2>2. Gathers("count", "recent", r)
    BY <1>7 DEF StatusCount
  <2>3. r \in Reply /\ r.shown = reply.shown /\ r.known = reply.known
    BY <1>0, <2>1 DEF Reply
  <2>4. QED
    BY <1>0, <2>2, <2>3, GatheredTypes
<1>8. CASE StatusRecent
  <2> DEFINE newest == GetRecentIntents(ask.project, 1)
             last == IF newest = {} THEN 0 ELSE Max(newest)
             r == [reply EXCEPT !.last = last]
  <2>1. Gathers("recent", "list", r)
    BY <1>8 DEF StatusRecent
  <2>2. newest \subseteq DOMAIN notes
    BY ListIs DEF GetRecentIntents
  <2>3. last \in Nat
    <3>1. CASE newest = {}
      BY <3>1
    <3>2. CASE newest # {}
      <4>1. \E i \in newest : \A j \in newest : j <= i
        BY <2>2, <3>2, TablesFinite, NewestExists
      <4>2. \E i \in newest : \A j \in newest : i >= j
        BY <1>0, <2>2, <4>1
      <4>3. Max(newest) \in newest
        BY <4>2 DEF Max
      <4>4. QED
        BY <1>0, <2>2, <3>2, <4>3
    <3>3. QED
      BY <3>1, <3>2
  <2>4. r \in Reply /\ r.shown = reply.shown /\ r.known = reply.known
    BY <1>0, <2>3 DEF Reply
  <2> HIDE DEF r
  <2>5. QED
    BY <1>0, <2>1, <2>4, GatheredTypes
<1>9. CASE StatusList
  <2> DEFINE r == [reply EXCEPT !.shown = ListIntents(ask.project, None, 0, MaxNotes)]
  <2>1. Gathers("list", "done", r)
    BY <1>9 DEF StatusList
  <2>2. ListIntents(ask.project, None, 0, MaxNotes) \subseteq DOMAIN notes
    BY ListIs
  <2>3. r \in Reply /\ r.shown \subseteq DOMAIN notes /\ r.known = reply.known
    BY <1>0, <2>2 DEF Reply
  <2>4. QED
    BY <1>0, <2>1, <2>3, GatheredTypes
<1>10. CASE SearchKeyword
  <2>1. PICK hits \in SearchFTS(ask.project, SearchLimit) :
           Gathers("search", "done",
                   [reply EXCEPT !.of = ask.project,
                                 !.shown = {i \in hits \cap OfFile(ask.file) : i > ask.since}])
    BY <1>10 DEF SearchKeyword
  <2> DEFINE r == [reply EXCEPT !.of = ask.project,
                                !.shown = {i \in hits \cap OfFile(ask.file) : i > ask.since}]
  <2>2. hits \subseteq DOMAIN notes
    BY <1>0 DEF SearchFTS, Best, kSubset, Hits
  <2>3. r \in Reply /\ r.shown \subseteq DOMAIN notes /\ r.known = reply.known
    BY <1>0, <2>2 DEF Reply, Ask
  <2>4. QED
    BY <1>0, <2>1, <2>3, GatheredTypes
<1>11. CASE HandleVectors
  <2>1. PICK hits \in Best(GetAllEmbeddings(daemon) \cap Hits(daemon), SearchLimit) :
           Gathers("search", "rows",
                   [reply EXCEPT !.of = daemon, !.shown = hits,
                                 !.known = @ \cap GetAllEmbeddings(daemon)])
    BY <1>11 DEF HandleVectors
  <2> DEFINE r == [reply EXCEPT !.of = daemon, !.shown = hits,
                                !.known = @ \cap GetAllEmbeddings(daemon)]
  <2>2. hits \subseteq DOMAIN notes
    BY <1>0 DEF Best, kSubset, Hits
  <2>3. daemon \in Projects
    BY <1>11 DEF HandleVectors
  <2>4. /\ r \in Reply /\ r.shown \subseteq DOMAIN notes
        /\ r.known \subseteq Rows(ask.project)
    BY <1>0, <2>2, <2>3 DEF Reply
  <2>5. QED
    BY <1>0, <2>1, <2>4, GatheredTypes
<1>12. CASE HandleRows
  <2> DEFINE r == [reply EXCEPT !.shown = {i \in @ \cap OfFile(ask.file) : i >= Truncate(ask.since)}]
  <2>1. Gathers("rows", "done", r)
    BY <1>12 DEF HandleRows
  <2>2. r \in Reply /\ r.shown \subseteq DOMAIN notes /\ r.known = reply.known
    BY <1>0 DEF Reply
  <2>3. QED
    BY <1>0, <2>1, <2>2, GatheredTypes
<1>13. CASE HandlerFails
  <2> DEFINE r == [NoReply EXCEPT !.known = Rows(ask.project)]
  <2>1. Gathers("rows", "search", r)
    BY <1>13 DEF HandlerFails
  <2>2. r \in Reply /\ r.shown = {} /\ r.known = Rows(ask.project)
    BY <1>0 DEF Reply, NoReply
  <2>3. QED
    BY <1>0, <2>1, <2>2, GatheredTypes
<1>14. CASE UNCHANGED queryVars
  BY <1>14 DEF queryVars, QueryTypeInv, QueriesTypeOK, Rows
<1>15. ASSUME NEW p \in Projects, AskStatus(p)
       PROVE  QueryTypeInv'
  <2>1. Begin("status", p, None, 0, 0, "low context")
    BY <1>15 DEF AskStatus
  <2>2. None \in Paths \cup {None}
    OBVIOUS
  <2>3. QED
    BY <1>4, <2>1, <2>2, Zeros
<1>16. QED
  BY <1>1, <1>2, <1>3, <1>4, <1>5, <1>6, <1>7, <1>8, <1>9, <1>10, <1>11, <1>12, <1>13, <1>14,
     <1>15 DEF QueriesNext, CommandStep, AskLog, AskSearch

LEMMA AskIs ==
    ASSUME NEW p, NEW f, NEW since, NEW limit
    PROVE  /\ AskLog(p, f, since, limit) => ask'.command = "log" /\ next' = "log"
           /\ AskSearch(p, f, since, limit) => ask'.command = "search" /\ next' = "search"
           /\ AskStatus(p) => ask'.command = "status" /\ next' = "low context"
<1>1. ASSUME NEW command, NEW q, NEW g, NEW from, NEW most, NEW step,
             Begin(command, q, g, from, most, step)
      PROVE  ask'.command = command /\ next' = step
  BY <1>1 DEF Begin
<1>2. AskLog(p, f, since, limit) => Begin("log", p, f, since, limit, "log")
  BY DEF AskLog
<1>3. AskSearch(p, f, since, limit) => Begin("search", p, f, since, limit, "search")
  BY DEF AskSearch
<1>4. AskStatus(p) => Begin("status", p, None, 0, 0, "low context")
  BY DEF AskStatus
<1>5. QED
  BY <1>1, <1>2, <1>3, <1>4

LEMMA CommandStepInv == QueryTypeInv /\ CommandInv /\ [QueriesNext]_queryVars => CommandInv'
<1> SUFFICES ASSUME QueryTypeInv, CommandInv, [QueriesNext]_queryVars
             PROVE  CommandInv'
    OBVIOUS
<1> USE DEF CommandInv
<1>1. ASSUME NEW note \in Note, SaveNote(note)
      PROVE  CommandInv'
  BY <1>1 DEF SaveNote
<1>2. CASE EmbedNote \/ StartElsewhere
  BY <1>2 DEF EmbedNote, StartElsewhere
<1>3. ASSUME NEW p \in Projects, NEW f \in Paths \cup {None}, NEW since \in 0 .. MaxNotes,
             NEW limit \in 0 .. MaxLimit,
             AskLog(p, f, since, limit) \/ AskSearch(p, f, since, limit) \/ AskStatus(p)
      PROVE  CommandInv'
  BY <1>3, AskIs
<1>4. CASE CommandStep
  BY <1>4 DEF CommandStep, RunLog, StatusLowContext, StatusCount, StatusRecent, StatusList,
              SearchKeyword, HandleVectors, HandleRows, HandlerFails, Gathers
<1>5. CASE UNCHANGED queryVars
  BY <1>5 DEF queryVars
<1>6. QED
  BY <1>1, <1>2, <1>3, <1>4, <1>5, Zeros DEF QueriesNext

-----------------------------------------------------------------------------
(* status: each read is compared with the table as it is now. *)
UpTo(p, last) == {i \in Rows(p) : i <= last}

StatusInv ==
    ask.command = "status" =>
       /\ next \in {"recent", "list"} =>
             /\ Cardinality(reply.known) <= reply.total
             /\ reply.total <= Cardinality(Rows(ask.project))
       /\ next = "list" =>
             /\ reply.total <= Cardinality(UpTo(ask.project, reply.last))
             /\ reply.last # 0 => reply.last \in Rows(ask.project)
       /\ StatusAddsUp

LEMMA StatusSave ==
    ASSUME QueryTypeInv, StatusInv, NEW note \in Note, SaveNote(note)
    PROVE  StatusInv'
<1>1. next # "done" /\ UNCHANGED <<ask, next, reply>>
  BY DEF SaveNote
<1> DEFINE p == ask.project
           last == reply.last
<1>2. /\ Rows(p) \subseteq Rows(p)' /\ notes' \in Seq(Note)
  BY <1>1, SaveIs
<1>3. /\ IsFiniteSet(Rows(p)) /\ Cardinality(Rows(p)) \in Nat
  BY TablesFinite
<1>4. IsFiniteSet(DOMAIN notes')
  <2>1. DOMAIN notes' = 1 .. Len(notes') /\ Len(notes') \in Nat
    BY <1>2
  <2>2. QED
    BY <2>1, FS_Interval
<1>5. Rows(p)' \subseteq DOMAIN notes' /\ UpTo(p, last) \subseteq UpTo(p, last)'
  BY <1>1, <1>2 DEF Rows, UpTo
<1>6. UpTo(p, last) \subseteq Rows(p) /\ UpTo(p, last)' \subseteq Rows(p)'
  BY DEF UpTo
<1>7. IsFiniteSet(Rows(p)') /\ IsFiniteSet(UpTo(p, last)')
  BY <1>4, <1>5, <1>6, FS_Subset
<1>8. /\ Cardinality(Rows(p)) <= Cardinality(Rows(p)')
      /\ Cardinality(UpTo(p, last)) <= Cardinality(UpTo(p, last)')
  BY <1>2, <1>5, <1>7, FS_Subset
<1>9. /\ Cardinality(Rows(p)') \in Nat /\ Cardinality(UpTo(p, last)') \in Nat
      /\ Cardinality(UpTo(p, last)) \in Nat
  BY <1>3, <1>6, <1>7, FS_Subset, FS_CardinalityType
<1>10. reply.total \in Nat
  BY DEF QueryTypeInv, Reply
<1>11. QED
  BY <1>1, <1>2, <1>3, <1>8, <1>9, <1>10 DEF StatusInv, StatusAddsUp, Done

LEMMA StatusStep ==
    QueryTypeInv /\ CommandInv /\ StatusInv /\ [QueriesNext]_queryVars => StatusInv'
<1> SUFFICES ASSUME QueryTypeInv, CommandInv, StatusInv, [QueriesNext]_queryVars
             PROVE  StatusInv'
    OBVIOUS
<1> DEFINE p == ask.project
<1>0. /\ reply \in Reply /\ ask \in Ask /\ reply.known \subseteq Rows(p)
      /\ IsFiniteSet(Rows(p)) /\ Cardinality(Rows(p)) \in Nat
      /\ DOMAIN notes = 1 .. Len(notes) /\ Len(notes) \in Nat /\ Len(notes) <= MaxNotes
      /\ Rows(p) \subseteq DOMAIN notes /\ MaxNotes \in Nat
  BY TablesFinite, QueriesAssumption DEF QueryTypeInv, QueriesTypeOK
<1>1. ASSUME NEW note \in Note, SaveNote(note)
      PROVE  StatusInv'
  BY <1>1, StatusSave
<1>2. CASE UNCHANGED <<notes, ask, next, reply>>
  BY <1>2 DEF StatusInv, StatusAddsUp, Done, UpTo, Rows
<1>3. CASE ask.command' # "status"
  BY <1>3 DEF StatusInv
<1>4. CASE next' \in {"low context", "count"}
  BY <1>4 DEF StatusInv, StatusAddsUp, Done
<1>5. CASE StatusCount
  <2>1. /\ next' = "recent" /\ UNCHANGED <<notes, ask>>
        /\ reply'.known = reply.known /\ reply'.total = Cardinality(Rows(p))
    BY <1>0, <1>5 DEF StatusCount, Gathers, Reply, CountIntents
  <2>2. Rows(p)' = Rows(p)
    BY <2>1 DEF Rows
  <2>3. Cardinality(reply.known) <= Cardinality(Rows(p))
    BY <1>0, FS_Subset
  <2>4. QED
    BY <1>0, <2>1, <2>2, <2>3 DEF StatusInv, StatusAddsUp, Done
(* The whole table, as no later note is among its rows. *)
<1>6. /\ \A i \in Rows(p) : i \in Nat /\ i >= 0
      /\ Rows(p) \cap OfFile(None) = Rows(p)
  BY <1>0 DEF OfFile, Rows
<1>7. CASE StatusRecent
  <2> DEFINE newest == GetRecentIntents(p, 1)
             last == IF newest = {} THEN 0 ELSE Max(newest)
  <2>1. /\ next = "recent" /\ next' = "list" /\ UNCHANGED <<notes, ask>>
        /\ reply' = [reply EXCEPT !.last = last]
    BY <1>7 DEF StatusRecent, Gathers
  <2>2. reply'.known = reply.known /\ reply'.total = reply.total /\ reply'.last = last
    BY <1>0, <2>1 DEF Reply
  <2>3. newest = Newest(Rows(p), 1)
    <3>1. {i \in Rows(p) \cap OfFile(None) : i >= 0} = Rows(p)
      BY <1>6
    <3>2. QED
      BY <3>1 DEF GetRecentIntents, ListIntents
  <2>4. /\ Rows(ask.project)' = Rows(p)
        /\ UpTo(ask.project, reply.last)' = {i \in Rows(p) : i <= last}
    BY <2>1, <2>2 DEF Rows, UpTo
  <2>5. UpTo(ask.project, reply.last)' = Rows(p) /\ (last # 0 => last \in Rows(p))
    <3>1. CASE Rows(p) = {}
      <4>1. newest = {}
        BY <2>3, <3>1 DEF Newest
      <4>2. QED
        BY <2>4, <3>1, <4>1
    <3>2. CASE Rows(p) # {}
      <4>1. PICK i \in Rows(p) : (\A j \in Rows(p) : j <= i) /\ Newest(Rows(p), 1) = {i}
        BY <1>0, <3>2, NewestOne
      <4>2. Max({i}) = i
        BY <1>6, <4>1 DEF Max
      <4>3. last = i
        BY <2>3, <4>1, <4>2
      <4>4. QED
        BY <2>4, <4>1, <4>3
    <3>3. QED
      BY <3>1, <3>2
  <2> HIDE DEF newest, last
  <2>6. QED
    BY <2>1, <2>2, <2>4, <2>5 DEF StatusInv, StatusAddsUp, Done
<1>8. CASE StatusList
  <2>1. /\ next = "list" /\ next' = "done" /\ UNCHANGED <<notes, ask>>
        /\ reply'.known = reply.known /\ reply'.total = reply.total /\ reply'.last = reply.last
        /\ reply'.shown = ListIntents(p, None, 0, MaxNotes)
    BY <1>0, <1>8 DEF StatusList, Gathers, Reply
  <2>2. ListIntents(p, None, 0, MaxNotes) = Rows(p)
    <3>1. {i \in Rows(p) \cap OfFile(None) : i >= 0} = Rows(p)
      BY <1>6
    <3>2. CASE MaxNotes = 0
      BY <1>0, <3>1, <3>2 DEF ListIntents, Newest
    <3>3. CASE MaxNotes > 0
      <4>1. Newest(Rows(p), MaxNotes) = Rows(p)
        BY <1>0, NewestAll
      <4>2. ~ (MaxNotes <= 0)
        BY <1>0, <3>3
      <4>3. ListIntents(p, None, 0, MaxNotes) =
               Newest({i \in Rows(p) \cap OfFile(None) : i >= 0}, MaxNotes)
        BY <4>2 DEF ListIntents
      <4>4. QED
        BY <3>1, <4>1, <4>3
    <3>4. QED
      BY <1>0, <3>2, <3>3
  <2>3. {i \in reply'.shown : i <= reply'.last} = UpTo(p, reply.last)
    BY <2>1, <2>2 DEF UpTo
  <2>4. QED
    BY <1>0, <2>1, <2>2, <2>3 DEF StatusInv, StatusAddsUp, Done, CommandInv
<1>9. \/ \E note \in Note : SaveNote(note)
      \/ StatusCount \/ StatusRecent \/ StatusList
      \/ next' \in {"low context", "count"}
      \/ ask.command' # "status"
      \/ UNCHANGED <<notes, ask, next, reply>>
  <2>1. CASE CommandStep
    <3>1. \/ StatusCount \/ StatusRecent \/ StatusList
          \/ next' \in {"low context", "count"}
          \/ next \in {"log", "search", "rows"} /\ UNCHANGED ask
      BY <2>1 DEF CommandStep, RunLog, StatusLowContext, SearchKeyword, HandleVectors,
                  HandleRows, HandlerFails, Gathers
    <3>2. QED
      BY <3>1 DEF CommandInv
  <2>2. CASE EmbedNote \/ StartElsewhere \/ UNCHANGED queryVars
    BY <2>2 DEF EmbedNote, StartElsewhere, queryVars
  <2>3. ASSUME NEW q \in Projects, NEW f \in Paths \cup {None}, NEW since \in 0 .. MaxNotes,
               NEW limit \in 0 .. MaxLimit,
               AskLog(q, f, since, limit) \/ AskSearch(q, f, since, limit) \/ AskStatus(q)
        PROVE  next' = "low context" \/ ask.command' # "status"
    BY <2>3, AskIs
  <2>4. QED
    BY <2>1, <2>2, <2>3, Zeros DEF QueriesNext
<1>10. QED
  BY <1>1, <1>2, <1>3, <1>4, <1>5, <1>7, <1>8, <1>9

-----------------------------------------------------------------------------
(* search: the hits that the daemon has found are those of a moment that is  *)
(* gone when it reads their rows.                                            *)
Misses(known, p) == (known \cap Hits(p)) \ reply.shown

SearchInv ==
    ask.command = "search" =>
       /\ next = "rows" =>
             /\ reply.shown \subseteq Hits(reply.of)
             /\ Cardinality(reply.shown) <= SearchLimit
             /\ reply.of = ask.project /\ Cardinality(Hits(ask.project)) <= SearchLimit
                  => Misses(reply.known, ask.project) = {}
       /\ SearchLosesOnlyToTheLimit

LEMMA TruncateIs == \A time \in Nat : Truncate(time) \in Int /\ Truncate(time) <= time
  BY QueriesAssumption DEF Truncate

LEMMA LimitIs == QueryTypeInv => SearchLimit \in Nat /\ ask.since \in Nat
<1>1. 0 .. MaxLimit \subseteq Nat /\ 0 .. MaxNotes \subseteq Nat
  BY QueriesAssumption
<1>2. QueryTypeInv => ask \in Ask
  BY DEF QueryTypeInv, QueriesTypeOK
<1>3. ask \in Ask => ask.limit \in Nat /\ ask.since \in Nat
  BY <1>1 DEF Ask
<1>4. QED
  BY <1>2, <1>3 DEF SearchLimit

LEMMA SearchSave ==
    ASSUME QueryTypeInv, SearchInv, NEW note \in Note, SaveNote(note)
    PROVE  SearchInv'
<1>1. next # "done" /\ UNCHANGED <<ask, next, reply>>
  BY DEF SaveNote
<1>2. /\ \A p : Hits(p) \subseteq Hits(p)' /\ Hits(p)' \cap DOMAIN notes = Hits(p)
      /\ notes' \in Seq(Note)
  BY SaveIs
<1>0. PICK p : p = ask.project
  OBVIOUS
<1>3. /\ IsFiniteSet(Hits(p)) /\ Cardinality(Hits(p)) \in Nat
      /\ reply.known \subseteq DOMAIN notes /\ SearchLimit \in Nat
  <2>1. reply.known \subseteq DOMAIN notes
    BY DEF QueryTypeInv, Rows
  <2>2. QED
    BY <2>1, LimitIs, TablesFinite
<1>4. IsFiniteSet(Hits(p)')
  <2>1. DOMAIN notes' = 1 .. Len(notes') /\ Len(notes') \in Nat
    BY <1>2
  <2>2. IsFiniteSet(DOMAIN notes')
    BY <2>1, FS_Interval
  <2>3. Hits(p)' \subseteq DOMAIN notes'
    BY DEF Hits, Rows
  <2>4. QED
    BY <2>2, <2>3, FS_Subset
<1>5. /\ Cardinality(Hits(p)) <= Cardinality(Hits(p)')
      /\ Cardinality(Hits(p)') \in Nat
  BY <1>2, <1>4, FS_Subset, FS_CardinalityType
<1>6. reply.known \cap Hits(p)' = reply.known \cap Hits(p)
  BY <1>2, <1>3
<1>7. SearchLimit' = SearchLimit
  BY <1>1 DEF SearchLimit
<1>8. CASE ask.command = "search" /\ next = "rows"
  <2>1. /\ reply'.shown \subseteq Hits(reply.of)'
        /\ Cardinality(reply'.shown) <= SearchLimit'
    BY <1>1, <1>2, <1>7, <1>8 DEF SearchInv
  <2>2. ASSUME reply.of = p, Cardinality(Hits(p)') <= SearchLimit
        PROVE  Misses(reply.known, ask.project)' = {}
    <3>1. Misses(reply.known, p) = {}
      BY <1>0, <1>3, <1>5, <1>8, <2>2 DEF SearchInv
    <3>2. QED
      BY <1>0, <1>1, <1>6, <3>1 DEF Misses
  <2>3. QED
    BY <1>0, <1>1, <1>7, <1>8, <2>1, <2>2 DEF SearchInv, SearchLosesOnlyToTheLimit, Done
<1>9. CASE ~ (ask.command = "search" /\ next = "rows")
  BY <1>1, <1>9 DEF SearchInv, SearchLosesOnlyToTheLimit, Done
<1>10. QED
  BY <1>8, <1>9

LEMMA SearchStep ==
    QueryTypeInv /\ CommandInv /\ SearchInv /\ [QueriesNext]_queryVars => SearchInv'
<1> SUFFICES ASSUME QueryTypeInv, CommandInv, SearchInv, [QueriesNext]_queryVars
             PROVE  SearchInv'
    OBVIOUS
<1> DEFINE p == ask.project
<1>0. /\ reply \in Reply /\ ask \in Ask /\ reply.known \subseteq DOMAIN notes
      /\ \A q : IsFiniteSet(Hits(q)) /\ Cardinality(Hits(q)) \in Nat
      /\ DOMAIN notes \subseteq Nat /\ ask.since \in Nat /\ SearchLimit \in Nat
      /\ \A q : Hits(q) \subseteq DOMAIN notes
  <2>1. \A q : IsFiniteSet(Hits(q)) /\ Cardinality(Hits(q)) \in Nat
    BY TablesFinite
  <2>2. SearchLimit \in Nat /\ ask.since \in Nat
    BY LimitIs
  <2>3. DOMAIN notes \subseteq Nat
    BY TablesFinite
  <2>4. QED
    BY <2>1, <2>2, <2>3 DEF QueryTypeInv, QueriesTypeOK, Rows, Hits
<1>1. ASSUME NEW note \in Note, SaveNote(note)
      PROVE  SearchInv'
  BY <1>1, SearchSave
<1>2. CASE UNCHANGED <<notes, ask, next, reply>>
  BY <1>2 DEF SearchInv, SearchLosesOnlyToTheLimit, Done, Hits, Rows, OfFile, SearchLimit, Misses
<1>3. CASE ask.command' # "search"
  BY <1>3 DEF SearchInv
<1>4. CASE next' = "search"
  BY <1>4 DEF SearchInv, SearchLosesOnlyToTheLimit, Done
<1>5. CASE SearchKeyword
  <2>1. PICK hits \in SearchFTS(p, SearchLimit) :
           Gathers("search", "done",
                   [reply EXCEPT !.of = p,
                                 !.shown = {i \in hits \cap OfFile(ask.file) : i > ask.since}])
    BY <1>5 DEF SearchKeyword
  <2>2. /\ next' = "done" /\ UNCHANGED <<notes, ask>> /\ reply'.known = reply.known
        /\ reply'.shown = {i \in hits \cap OfFile(ask.file) : i > ask.since}
    BY <1>0, <2>1 DEF Gathers, Reply
  <2>3. /\ hits \subseteq Hits(p) /\ IsFiniteSet(hits)
        /\ Cardinality(hits) \in Nat /\ Cardinality(hits) <= SearchLimit
        /\ Cardinality(Hits(p)) <= SearchLimit => hits = Hits(p)
    BY <1>0, BestIs DEF SearchFTS
  <2>4. /\ Cardinality(reply'.shown) <= Cardinality(hits) /\ Cardinality(reply'.shown) \in Nat
    BY <2>2, <2>3, FS_Subset, FS_CardinalityType
  <2>5. \A i \in hits : i \in Nat /\ (i > ask.since => i >= Truncate(ask.since))
    BY <1>0, <2>3, TruncateIs
  <2>6. Hits(p)' = Hits(p) /\ OfFile(ask.file)' = OfFile(ask.file) /\ SearchLimit' = SearchLimit
    BY <2>2 DEF Hits, Rows, OfFile, SearchLimit
  <2>7. /\ reply'.shown \subseteq Hits(p) \cap OfFile(ask.file)
        /\ \A i \in reply'.shown : i >= Truncate(ask.since)
        /\ Cardinality(reply'.shown) <= SearchLimit
        /\ Cardinality(Hits(p)) <= SearchLimit =>
              {i \in reply'.known \cap Hits(p) \cap OfFile(ask.file) : i > ask.since}
                 \subseteq reply'.shown
    BY <1>0, <2>2, <2>3, <2>4, <2>5
  <2>8. QED
    BY <2>2, <2>6, <2>7 DEF SearchInv, SearchLosesOnlyToTheLimit, Truncate
<1>6. CASE HandleVectors
  <2>1. PICK d, V : d = daemon /\ V = GetAllEmbeddings(daemon)
    OBVIOUS
  <2>2. PICK hits \in Best(V \cap Hits(d), SearchLimit) :
           Gathers("search", "rows",
                   [reply EXCEPT !.of = d, !.shown = hits, !.known = @ \cap V])
    BY <1>6, <2>1 DEF HandleVectors
  <2>3. /\ next' = "rows" /\ UNCHANGED <<notes, ask>> /\ reply'.known = reply.known \cap V
        /\ reply'.shown = hits /\ reply'.of = d
    BY <1>0, <2>2 DEF Gathers, Reply
  <2>4. IsFiniteSet(V \cap Hits(d)) /\ Cardinality(V \cap Hits(d)) \in Nat
    BY <1>0, FS_Subset, FS_CardinalityType
  <2>5. /\ hits \subseteq V \cap Hits(d)
        /\ Cardinality(hits) <= SearchLimit
        /\ Cardinality(V \cap Hits(d)) <= SearchLimit => hits = V \cap Hits(d)
    BY <1>0, <2>4, BestIs
  <2>6. Cardinality(V \cap Hits(d)) <= Cardinality(Hits(d))
    BY <1>0, FS_Subset
  <2>7. \A q : Hits(q)' = Hits(q)
    BY <2>3 DEF Hits, Rows
  <2>8. SearchLimit' = SearchLimit
    BY <2>3 DEF SearchLimit
  <2>9. reply'.shown \subseteq Hits(reply.of)'
    <3>1. hits \subseteq Hits(d)
      BY <2>5
    <3>2. QED
      BY <2>3, <3>1 DEF Hits, Rows
  <2>10. Cardinality(reply'.shown) <= SearchLimit'
    BY <2>3, <2>5, <2>8
  <2>11. PICK c : c = ask.project
    OBVIOUS
  <2>12. ASSUME d = c, Cardinality(Hits(c)') <= SearchLimit'
         PROVE  Misses(reply.known, ask.project)' = {}
    <3>1. hits = V \cap Hits(d)
      BY <1>0, <2>4, <2>5, <2>6, <2>7, <2>8, <2>12
    <3>2. (reply'.known \cap Hits(c)') \ reply'.shown = {}
      BY <2>3, <2>7, <2>12, <3>1
    <3>3. QED
      BY <2>3, <2>11, <3>2 DEF Misses
  <2>13. reply'.of = ask'.project /\ Cardinality(Hits(ask.project)') <= SearchLimit'
            => Misses(reply.known, ask.project)' = {}
    BY <2>3, <2>11, <2>12
  <2>14. QED
    BY <2>3, <2>9, <2>10, <2>13 DEF SearchInv, SearchLosesOnlyToTheLimit, Done
<1>7. CASE HandleRows
  <2>1. /\ next = "rows" /\ next' = "done" /\ UNCHANGED <<notes, ask>>
        /\ reply'.known = reply.known /\ reply'.of = reply.of
        /\ reply'.shown = {i \in reply.shown \cap OfFile(ask.file) : i >= Truncate(ask.since)}
    BY <1>0, <1>7 DEF HandleRows, Gathers, Reply
  <2>2. ask.command = "search"
    BY <2>1 DEF CommandInv
  <2>3. /\ reply.shown \subseteq Hits(reply.of)
        /\ Cardinality(reply.shown) <= SearchLimit
        /\ reply.of = p /\ Cardinality(Hits(p)) <= SearchLimit
             => Misses(reply.known, p) = {}
    BY <2>1, <2>2 DEF SearchInv
  <2>4. IsFiniteSet(reply.shown)
    BY <1>0, <2>3, FS_Subset
  <2>5. /\ Cardinality(reply'.shown) <= Cardinality(reply.shown)
        /\ Cardinality(reply'.shown) \in Nat /\ Cardinality(reply.shown) \in Nat
    BY <2>1, <2>4, FS_Subset, FS_CardinalityType
  <2>6. Hits(p)' = Hits(p) /\ OfFile(ask.file)' = OfFile(ask.file) /\ SearchLimit' = SearchLimit
    BY <2>1 DEF Hits, Rows, OfFile, SearchLimit
  <2>7. \A i \in Hits(p) : i \in Nat /\ (i > ask.since => i >= Truncate(ask.since))
    BY <1>0, TruncateIs
  <2>8. reply'.of = p =>
          /\ reply'.shown \subseteq Hits(p) \cap OfFile(ask.file)
          /\ \A i \in reply'.shown : i >= Truncate(ask.since)
          /\ Cardinality(reply'.shown) <= SearchLimit
          /\ Cardinality(Hits(p)) <= SearchLimit =>
                {i \in reply'.known \cap Hits(p) \cap OfFile(ask.file) : i > ask.since}
                   \subseteq reply'.shown
    BY <1>0, <2>1, <2>3, <2>5, <2>7 DEF Misses
  <2>9. QED
    BY <2>1, <2>6, <2>8 DEF SearchInv, SearchLosesOnlyToTheLimit
<1>8. \/ \E note \in Note : SaveNote(note)
      \/ SearchKeyword \/ HandleVectors \/ HandleRows
      \/ next' = "search" \/ ask.command' # "search"
      \/ UNCHANGED <<notes, ask, next, reply>>
  <2>1. CASE CommandStep
    <3>1. \/ SearchKeyword \/ HandleVectors \/ HandleRows
          \/ next' = "search"
          \/ next \in {"log", "low context", "count", "recent", "list"} /\ UNCHANGED ask
      BY <2>1 DEF CommandStep, RunLog, StatusLowContext, StatusCount, StatusRecent, StatusList,
                  HandlerFails, Gathers
    <3>2. QED
      BY <3>1 DEF CommandInv
  <2>2. CASE EmbedNote \/ StartElsewhere \/ UNCHANGED queryVars
    BY <2>2 DEF EmbedNote, StartElsewhere, queryVars
  <2>3. ASSUME NEW q \in Projects, NEW f \in Paths \cup {None}, NEW since \in 0 .. MaxNotes,
               NEW limit \in 0 .. MaxLimit,
               AskLog(q, f, since, limit) \/ AskSearch(q, f, since, limit) \/ AskStatus(q)
        PROVE  next' = "search" \/ ask.command' # "search"
    BY <2>3, AskIs
  <2>4. QED
    BY <2>1, <2>2, <2>3, Zeros DEF QueriesNext
<1>9. QED
  BY <1>1, <1>2, <1>3, <1>4, <1>5, <1>6, <1>7, <1>8

(* The variables of the commands keep their types. *)
THEOREM QueriesTypeCorrect == QueriesSpec => []QueriesTypeOK
<1>1. QueryTypeInv => QueriesTypeOK
  BY DEF QueryTypeInv
<1>2. QED
  BY <1>1, QueryInvInit, QueryTypeStep, CommandStepInv, PTL DEF QueriesSpec

(* However many notes are saved between its reads, the total of `synth       *)
(* status', its last note and its list of files (cli/log.go 207-296) fit     *)
(* together.                                                                 *)
THEOREM StatusCorrect == QueriesSpec => []StatusAddsUp
<1>1. QueriesInit => StatusInv
  BY DEF QueriesInit, StatusInv
<1>2. QueryTypeInv /\ StatusInv => StatusAddsUp
  BY DEF StatusInv, StatusAddsUp, Done
<1>3. QED
  BY <1>1, <1>2, QueryInvInit, QueryTypeStep, CommandStepInv, StatusStep, PTL DEF QueriesSpec

(* For any number of notes, projects and limits, and whoever saves, embeds   *)
(* or fails meanwhile: the only hits of one's own repository that a search   *)
(* (search/search.go, daemon/search_handler.go) loses are those that the     *)
(* limit cuts off, and it adds none but those of the second in which --since *)
(* lies.                                                                     *)
THEOREM SearchCorrect == QueriesSpec => []SearchLosesOnlyToTheLimit
<1>1. QueriesInit => SearchInv
  BY DEF QueriesInit, SearchInv
<1>2. SearchInv => SearchLosesOnlyToTheLimit
  BY DEF SearchInv, SearchLosesOnlyToTheLimit, Done
<1>3. QED
  BY <1>1, <1>2, QueryInvInit, QueryTypeStep, CommandStepInv, SearchStep, PTL DEF QueriesSpec
=============================================================================
