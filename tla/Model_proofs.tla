---------------------------- MODULE Model_proofs ----------------------------
(* The embedding model in two parts that share nothing: the engine that runs *)
(* it, for any number of callers, sessions and timers, and the downloads     *)
(* that put its files in place, for any number of processes, files, chunks,  *)
(* failures and kills.                                                       *)
EXTENDS EmbedEngine, ModelDownload, TLAPS

-----------------------------------------------------------------------------
(* The engine *)

Holding == {"load", "build", "run", "reset", "return"}

(* The mutex is what makes the engine safe: a call past Lock holds it, so    *)
(* nobody else changes the session between its load and its run.             *)
MutexInv ==
    \A c \in Callers : /\ pc[c] \in Holding <=> mu = c
                       /\ pc[c] \in {"load", "build"} => pipeline = Nil
                       /\ pc[c] = "build" => session # Nil
                       /\ pc[c] = "run" => pipeline # Nil

(* The pipeline and the session come and go together, but for the time in    *)
(* which the holder of the mutex builds the one on the other.                *)
SessionInv == /\ (\A c \in Callers : pc[c] # "build") => session = pipeline
              /\ NoSessionLeaked

EngineInv == TypeOK /\ MutexInv /\ SessionInv /\ OnlyNewestTimerArmed

LEMMA EngineInvInit == Init => EngineInv
  BY EngineAssumption
  DEF Init, EngineInv, TypeOK, MutexInv, SessionInv, NoSessionLeaked,
      OnlyNewestTimerArmed, Holding

LEMMA EngineInvStep == EngineInv /\ [Next]_vars => EngineInv'
<1> SUFFICES ASSUME EngineInv, [Next]_vars
             PROVE  EngineInv'
    OBVIOUS
<1> USE EngineAssumption
    DEF EngineInv, TypeOK, MutexInv, SessionInv, NoSessionLeaked,
        OnlyNewestTimerArmed, Holding, engine, timers, Goto
<1>1. ASSUME NEW c \in Callers, Call(c)
      PROVE  EngineInv'
  BY <1>1 DEF Call
<1>2. ASSUME NEW c \in Callers, Lock(c)
      PROVE  EngineInv'
  BY <1>2 DEF Lock
<1>3. ASSUME NEW c \in Callers, LoadFails(c)
      PROVE  EngineInv'
  BY <1>3 DEF LoadFails
<1>4. ASSUME NEW c \in Callers, NewSession(c)
      PROVE  EngineInv'
  BY <1>4 DEF NewSession
<1>5. ASSUME NEW c \in Callers, NewPipeline(c)
      PROVE  EngineInv'
  BY <1>5 DEF NewPipeline
<1>6. ASSUME NEW c \in Callers, NewPipelineFails(c)
      PROVE  EngineInv'
  BY <1>6 DEF NewPipelineFails
<1>7. ASSUME NEW c \in Callers, Run(c)
      PROVE  EngineInv'
  BY <1>7 DEF Run
<1>8. ASSUME NEW c \in Callers, ResetIdleTimer(c)
      PROVE  EngineInv'
  BY <1>8 DEF ResetIdleTimer
<1>9. ASSUME NEW c \in Callers, Return(c)
      PROVE  EngineInv'
  BY <1>9 DEF Return
<1>10. ASSUME NEW c \in Callers, Shutdown(c)
       PROVE  EngineInv'
  BY <1>10 DEF Shutdown, Unload
<1>11. ASSUME NEW t \in Timers, Fire(t)
       PROVE  EngineInv'
  BY <1>11 DEF Fire
<1>12. ASSUME NEW t \in Timers, IdleUnload(t)
       PROVE  EngineInv'
  BY <1>12 DEF IdleUnload, Unload
<1>13. CASE UNCHANGED vars
  BY <1>13 DEF vars
<1>14. QED
  BY <1>1, <1>2, <1>3, <1>4, <1>5, <1>6, <1>7, <1>8, <1>9, <1>10, <1>11,
     <1>12, <1>13
  DEF Next, Step

(* Whatever the interleaving of calls, stale callbacks and Shutdown, a       *)
(* pipeline runs on a live session, no session is lost, and only the newest  *)
(* countdown is running (engine.go 100-269).                                 *)
THEOREM EngineSafe ==
    Spec => [](RunsOnLiveSession /\ NoSessionLeaked /\ OnlyNewestTimerArmed)
<1>1. EngineInv => RunsOnLiveSession /\ NoSessionLeaked /\ OnlyNewestTimerArmed
  BY DEF EngineInv, MutexInv, SessionInv, RunsOnLiveSession, NoSessionLeaked
<1>2. QED
  BY <1>1, EngineInvInit, EngineInvStep, PTL DEF Spec

(* The engine's variables keep their types. *)
THEOREM EngineTypeCorrect == Spec => []TypeOK
<1>1. EngineInv => TypeOK
  BY DEF EngineInv
<1>2. QED
  BY <1>1, EngineInvInit, EngineInvStep, PTL DEF Spec

(* A session whose pipeline could not be built (engine.go 122-127), or that  *)
(* unload and Shutdown took away, is destroyed in the step that forgets it:  *)
(* the live one is always the engine's own.                                  *)
THEOREM NoLeak == Spec => []NoSessionLeaked
  BY EngineSafe, PTL

(* A countdown that a later call replaced does not run on: only the timer    *)
(* that the engine holds is armed (engine.go 153-155).  A callback that was  *)
(* already waiting for the mutex is not taken back.                          *)
THEOREM TimersCorrect == Spec => []OnlyNewestTimerArmed
  BY EngineSafe, PTL

-----------------------------------------------------------------------------
(* The downloads.  First the helpers on the two directories of files.        *)
HandleStates == {"closed", "tmp", "final", "gone"}

LEMMA PartialIs ==
    \A files : files \in Partial <=>
        /\ files = [g \in DOMAIN files |-> files[g]]
        /\ DOMAIN files \subseteq ModelFiles
        /\ \A g \in DOMAIN files : files[g] \subseteq Chunks
<1> TAKE files
<1>1. ASSUME files \in Partial
      PROVE  /\ files = [g \in DOMAIN files |-> files[g]]
             /\ DOMAIN files \subseteq ModelFiles
             /\ \A g \in DOMAIN files : files[g] \subseteq Chunks
  <2>1. PICK names \in SUBSET ModelFiles : files \in [names -> SUBSET Chunks]
    BY <1>1 DEF Partial
  <2>2. QED
    BY <2>1
<1>2. ASSUME /\ files = [g \in DOMAIN files |-> files[g]]
             /\ DOMAIN files \subseteq ModelFiles
             /\ \A g \in DOMAIN files : files[g] \subseteq Chunks
      PROVE  files \in Partial
  <2>1. files \in [DOMAIN files -> SUBSET Chunks]
    BY <1>2
  <2>2. QED
    BY <1>2, <2>1 DEF Partial
<1>3. QED
  BY <1>1, <1>2

LEMMA PutPartial ==
    ASSUME NEW files \in Partial, NEW f \in ModelFiles, NEW chunks \in SUBSET Chunks
    PROVE  Put(files, f, chunks) \in Partial
  BY PartialIs DEF Put

LEMMA DropPartial ==
    ASSUME NEW files \in Partial, NEW f
    PROVE  Drop(files, f) \in Partial
  BY PartialIs DEF Drop

(* What a rename and a removal of f do to the open files. *)
LEMMA HandlesRenamed ==
    ASSUME handle \in [Downloaders -> HandleStates], NEW f, NEW h,
           h = HandlesOf(f, [closed |-> "closed", tmp |-> "final",
                             final |-> "gone", gone |-> "gone"])
    PROVE  /\ h \in [Downloaders -> HandleStates]
           /\ \A q \in Downloaders :
                 h[q] = IF file[q] = f /\ handle[q] = "tmp" THEN "final"
                        ELSE IF file[q] = f /\ handle[q] = "final" THEN "gone"
                        ELSE handle[q]
  BY DEF HandlesOf, HandleStates

LEMMA HandlesRemoved ==
    ASSUME handle \in [Downloaders -> HandleStates], NEW f, NEW p \in Downloaders, NEW h,
           h = [HandlesOf(f, [closed |-> "closed", tmp |-> "gone",
                              final |-> "final", gone |-> "gone"]) EXCEPT ![p] = "closed"]
    PROVE  /\ h \in [Downloaders -> HandleStates]
           /\ \A q \in Downloaders :
                 h[q] = IF q = p THEN "closed"
                        ELSE IF file[q] = f /\ handle[q] = "tmp" THEN "gone"
                        ELSE handle[q]
  BY DEF HandlesOf, HandleStates

-----------------------------------------------------------------------------
(* Where each download is, without a word on what the files hold. *)
BesideInv == \A p, q \in Downloaders :
                p # q /\ Downloading(p) /\ Downloading(q) => p \in beside

HandleInv ==
    \A p \in Downloaders :
       /\ does[p] = "copy" <=> handle[p] # "closed"
       /\ handle[p] \in {"final", "gone"} => p \in beside
       /\ handle[p] = "tmp" => file[p] \in DOMAIN tmp
       /\ handle[p] = "final" => file[p] \in DOMAIN final

PlaceInv ==
    /\ \A p \in Downloaders :
          /\ ~ Downloading(p) => file[p] = 1
          /\ \A g \in 1 .. file[p] - 1 : g \in DOMAIN final
          /\ does[p] \in {"get", "copy", "rename"} => file[p] \in ModelFiles
    /\ finished => DOMAIN final = ModelFiles

DownInv == DownloadTypeOK /\ BesideInv /\ HandleInv /\ PlaceInv

LEMMA DownInvInit == DownloadInit => DownInv
<1> SUFFICES ASSUME DownloadInit PROVE DownInv
    OBVIOUS
<1> USE DownloadAssumption DEF DownloadInit
<1>1. final \in Partial /\ tmp \in Partial
  BY PartialIs
<1>2. FileCount \in Nat \ {0} /\ ChunkCount \in Nat \ {0} /\ MaxDownloads \in Nat
  OBVIOUS
<1>3. DownloadTypeOK
  <2>1. 1 \in 1 .. FileCount + 1 /\ 0 \in 0 .. ChunkCount /\ 0 \in 0 .. MaxDownloads
    BY <1>2
  <2>2. /\ does \in [Downloaders -> {"nothing", "stat", "get", "copy", "rename"}]
        /\ handle \in [Downloaders -> {"closed", "tmp", "final", "gone"}]
        /\ force \in [Downloaders -> BOOLEAN]
    OBVIOUS
  <2>3. /\ file \in [Downloaders -> 1 .. FileCount + 1]
        /\ copied \in [Downloaders -> 0 .. ChunkCount]
        /\ downloads \in 0 .. MaxDownloads
    BY <2>1
  <2>4. {finished, cut} \subseteq BOOLEAN /\ beside \subseteq Downloaders
    OBVIOUS
  <2> HIDE DEF DownloadInit
  <2>5. QED
    BY <1>1, <2>2, <2>3, <2>4 DEF DownloadTypeOK
<1>4. BesideInv /\ HandleInv
  BY DEF BesideInv, HandleInv, Downloading
<1>5. PlaceInv
  BY DEF PlaceInv, Downloading
<1>6. QED
  BY <1>3, <1>4, <1>5 DEF DownInv

(* The steps that leave the files alone. *)
LEMMA DownInvQuietStep ==
    ASSUME DownInv, NEW p \in Downloaders,
           \/ \E forced \in BOOLEAN : BeginDownload(p, forced)
           \/ StatFile(p) \/ GetFails(p) \/ CopyEnds(p) \/ RenameFails(p) \/ EndDownload(p)
           \/ KillDownload(p)
    PROVE  DownInv'
<1> USE DEF DownInv, DownloadTypeOK, BesideInv, HandleInv, PlaceInv, Downloading, Does,
            disk, history, ModelFiles
<1>0. FileCount \in Nat \ {0} /\ ChunkCount \in Nat \ {0} /\ MaxDownloads \in Nat
  BY DownloadAssumption
<1>1. ASSUME NEW forced \in BOOLEAN, BeginDownload(p, forced)
      PROVE  DownInv'
  BY <1>0, <1>1 DEF BeginDownload
<1>2. CASE StatFile(p)
  <2>1. DownloadTypeOK'
    <3>1. file' \in [Downloaders -> 1 .. FileCount + 1]
      <4>1. file \in [Downloaders -> 1 .. FileCount + 1] /\ file[p] \in 1 .. FileCount
        BY <1>2 DEF StatFile
      <4>2. file[p] + 1 \in 1 .. FileCount + 1
        BY <1>0, <4>1
      <4>3. file' = file \/ file' = [file EXCEPT ![p] = file[p] + 1]
        BY <1>2 DEF StatFile
      <4>4. QED
        BY <4>1, <4>2, <4>3
    <3>2. does' \in [Downloaders -> {"nothing", "stat", "get", "copy", "rename"}]
      BY <1>2 DEF StatFile
    <3>3. UNCHANGED <<disk, force, copied, handle, history, downloads>>
      BY <1>2 DEF StatFile
    <3>4. QED
      BY <3>1, <3>2, <3>3
  <2>2. BesideInv'
    BY <1>2 DEF StatFile
  <2>3. HandleInv'
    BY <1>2 DEF StatFile
  <2>4. PlaceInv'
    BY <1>0, <1>2 DEF StatFile, LooksComplete
  <2>5. QED
    BY <2>1, <2>2, <2>3, <2>4
<1>3. CASE CopyEnds(p)
  BY <1>3 DEF CopyEnds
(* A download that is over, however it ended. *)
<1>4. ASSUME Downloading(p), Over(p), UNCHANGED <<disk, downloads>>,
             finished' \in BOOLEAN, cut' \in BOOLEAN,
             finished' => finished \/ DOMAIN final = ModelFiles,
             \A q \in Downloaders : handle'[q] = IF q = p THEN "closed" ELSE handle[q],
             handle' \in [Downloaders -> HandleStates]
      PROVE  DownInv'
  <2>1. /\ does' = [does EXCEPT ![p] = "nothing"] /\ file' = [file EXCEPT ![p] = 1]
        /\ force' = [force EXCEPT ![p] = FALSE] /\ copied' = [copied EXCEPT ![p] = 0]
        /\ beside' = beside \ {p}
    BY <1>4 DEF Over
  <2>2. DownloadTypeOK'
    BY <1>0, <1>4, <2>1 DEF HandleStates
  <2>3. BesideInv'
    BY <2>1
  <2>4. HandleInv'
    BY <1>4, <2>1
  <2>5. PlaceInv'
    BY <1>0, <1>4, <2>1
  <2>6. QED
    BY <2>2, <2>3, <2>4, <2>5
<1>5. CASE GetFails(p) \/ RenameFails(p)
  <2>1. Over(p) /\ UNCHANGED <<disk, handle, finished, cut, downloads>>
    BY <1>5 DEF GetFails, RenameFails
  <2>2. Downloading(p) /\ handle[p] = "closed"
    BY <1>5 DEF GetFails, RenameFails
  <2>3. QED
    BY <1>4, <2>1, <2>2 DEF HandleStates
<1>6. CASE EndDownload(p)
  <2>1. /\ Over(p) /\ Downloading(p) /\ handle[p] = "closed"
        /\ UNCHANGED <<disk, handle, cut, downloads>>
        /\ finished' = TRUE /\ file[p] = FileCount + 1
    BY <1>6 DEF EndDownload
  <2>2. 1 .. FileCount \subseteq DOMAIN final /\ DOMAIN final \subseteq 1 .. FileCount
    BY <1>0, <2>1, PartialIs
  <2>3. DOMAIN final = ModelFiles
    BY <2>2
  <2>4. QED
    BY <1>4, <2>1, <2>3 DEF HandleStates
<1>7. CASE KillDownload(p)
  <2>1. /\ Over(p) /\ Downloading(p) /\ handle' = [handle EXCEPT ![p] = "closed"]
        /\ UNCHANGED <<disk, finished, downloads>> /\ cut' \in BOOLEAN
    BY <1>7 DEF KillDownload, CutOff
  <2>2. QED
    BY <1>4, <2>1 DEF HandleStates
<1>8. QED
  BY <1>1, <1>2, <1>3, <1>5, <1>6, <1>7

(* The steps that write, rename and remove files. *)
LEMMA CreateIs ==
    ASSUME DownInv, NEW p \in Downloaders, CreateTmp(p)
    PROVE  /\ DownInv'
           /\ tmp' \in Partial /\ DOMAIN tmp' = DOMAIN tmp \cup {file[p]}
           /\ \A g \in DOMAIN tmp' : tmp'[g] = IF g = file[p] THEN {} ELSE tmp[g]
           /\ file[p] \in ModelFiles
<1> USE DEF DownInv, DownloadTypeOK, Downloading, Does, history, CreateTmp
<1>0. FileCount \in Nat \ {0} /\ ChunkCount \in Nat \ {0} /\ MaxDownloads \in Nat
  BY DownloadAssumption
<1>1. file[p] \in ModelFiles
  BY DEF PlaceInv
<1>2. /\ tmp' \in Partial /\ DOMAIN tmp' = DOMAIN tmp \cup {file[p]}
      /\ \A g \in DOMAIN tmp' : tmp'[g] = IF g = file[p] THEN {} ELSE tmp[g]
  <2>1. tmp' \in Partial
    BY <1>1, PutPartial
  <2>2. QED
    BY <2>1 DEF Put
<1>3. DownloadTypeOK'
  BY <1>0, <1>2
<1>4. BesideInv'
  BY DEF BesideInv
<1>5. HandleInv'
  BY <1>2 DEF HandleInv
<1>6. PlaceInv'
  BY DEF PlaceInv
<1>7. QED
  BY <1>1, <1>2, <1>3, <1>4, <1>5, <1>6

LEMMA CopyIs ==
    ASSUME DownInv, NEW p \in Downloaders, CopyChunk(p)
    PROVE  /\ DownInv'
           /\ tmp' \in Partial /\ DOMAIN tmp' = DOMAIN tmp
           /\ final' \in Partial /\ DOMAIN final' = DOMAIN final
           /\ \A g \in DOMAIN tmp :
                 tmp'[g] = IF g = file[p] /\ handle[p] = "tmp"
                           THEN tmp[g] \cup {copied[p] + 1} ELSE tmp[g]
           /\ \A g \in DOMAIN final :
                 final'[g] = IF g = file[p] /\ handle[p] = "final"
                             THEN final[g] \cup {copied[p] + 1} ELSE final[g]
           /\ copied[p] + 1 \in Chunks
<1> USE DEF DownInv, DownloadTypeOK, Downloading, Does, history, CopyChunk
<1>0. FileCount \in Nat \ {0} /\ ChunkCount \in Nat \ {0} /\ MaxDownloads \in Nat
  BY DownloadAssumption
<1>1. file[p] \in ModelFiles
  BY DEF PlaceInv
<1>2. copied[p] \in 0 .. ChunkCount /\ copied[p] + 1 \in Chunks
  BY <1>0 DEF Chunks
<1>3. /\ tmp' \in Partial /\ DOMAIN tmp' = DOMAIN tmp
      /\ \A g \in DOMAIN tmp :
            tmp'[g] = IF g = file[p] /\ handle[p] = "tmp"
                      THEN tmp[g] \cup {copied[p] + 1} ELSE tmp[g]
  <2>1. CASE handle[p] = "tmp"
    <3>1. file[p] \in DOMAIN tmp
      BY <2>1 DEF HandleInv
    <3>2. tmp[file[p]] \cup {copied[p] + 1} \in SUBSET Chunks
      BY <1>2, <3>1, PartialIs
    <3>3. tmp' \in Partial
      BY <1>1, <2>1, <3>2, PutPartial
    <3>4. QED
      BY <2>1, <3>1, <3>3 DEF Put
  <2>2. CASE handle[p] # "tmp"
    BY <2>2
  <2>3. QED
    BY <2>1, <2>2
<1>4. /\ final' \in Partial /\ DOMAIN final' = DOMAIN final
      /\ \A g \in DOMAIN final :
            final'[g] = IF g = file[p] /\ handle[p] = "final"
                        THEN final[g] \cup {copied[p] + 1} ELSE final[g]
  <2>1. CASE handle[p] = "final"
    <3>1. file[p] \in DOMAIN final
      BY <2>1 DEF HandleInv
    <3>2. final[file[p]] \cup {copied[p] + 1} \in SUBSET Chunks
      BY <1>2, <3>1, PartialIs
    <3>3. final' \in Partial
      BY <1>1, <2>1, <3>2, PutPartial
    <3>4. QED
      BY <2>1, <3>1, <3>3 DEF Put
  <2>2. CASE handle[p] # "final"
    BY <2>2
  <2>3. QED
    BY <2>1, <2>2
<1>5. DownloadTypeOK'
  <2>1. copied' \in [Downloaders -> 0 .. ChunkCount]
    BY <1>0, <1>2
  <2>2. QED
    BY <1>3, <1>4, <2>1
<1>6. BesideInv'
  BY DEF BesideInv
<1>7. HandleInv'
  BY <1>3, <1>4 DEF HandleInv
<1>8. PlaceInv'
  BY <1>4 DEF PlaceInv
<1>9. QED
  BY <1>2, <1>3, <1>4, <1>5, <1>6, <1>7, <1>8

LEMMA FailedCopyIs ==
    ASSUME DownInv, NEW p \in Downloaders, CopyFails(p)
    PROVE  /\ DownInv'
           /\ DOMAIN tmp' = DOMAIN tmp \ {file[p]}
           /\ \A g \in DOMAIN tmp' : tmp'[g] = tmp[g]
           /\ \A q \in Downloaders :
                 handle'[q] = IF q = p THEN "closed"
                              ELSE IF file[q] = file[p] /\ handle[q] = "tmp" THEN "gone"
                              ELSE handle[q]
<1> USE DEF DownInv, DownloadTypeOK, Downloading, Does, history, CopyFails
<1>0. FileCount \in Nat \ {0} /\ ChunkCount \in Nat \ {0} /\ MaxDownloads \in Nat
  BY DownloadAssumption
<1>1. /\ does' = [does EXCEPT ![p] = "nothing"] /\ file' = [file EXCEPT ![p] = 1]
      /\ force' = [force EXCEPT ![p] = FALSE] /\ copied' = [copied EXCEPT ![p] = 0]
      /\ beside' = beside \ {p}
  BY DEF Over
<1>2. /\ tmp' \in Partial /\ DOMAIN tmp' = DOMAIN tmp \ {file[p]}
      /\ \A g \in DOMAIN tmp' : tmp'[g] = tmp[g]
  <2>1. tmp' \in Partial
    BY DropPartial
  <2>2. QED
    BY <2>1 DEF Drop
<1>3. handle \in [Downloaders -> HandleStates]
  BY DEF HandleStates
<1>4. /\ handle' \in [Downloaders -> HandleStates]
      /\ \A q \in Downloaders :
            handle'[q] = IF q = p THEN "closed"
                         ELSE IF file[q] = file[p] /\ handle[q] = "tmp" THEN "gone"
                         ELSE handle[q]
  <2>1. handle' = [HandlesOf(file[p], [closed |-> "closed", tmp |-> "gone",
                                       final |-> "final", gone |-> "gone"])
                     EXCEPT ![p] = "closed"]
    OBVIOUS
  <2> HIDE DEF DownInv, CopyFails
  <2>2. QED
    BY <1>3, <2>1 DEF HandlesOf, HandleStates
<1>5. DownloadTypeOK'
  <2>1. /\ file' \in [Downloaders -> 1 .. FileCount + 1]
        /\ copied' \in [Downloaders -> 0 .. ChunkCount]
    BY <1>0, <1>1
  <2>2. cut' \in BOOLEAN
    BY DEF CutOff
  <2>3. QED
    BY <1>1, <1>2, <1>4, <2>1, <2>2 DEF HandleStates
<1>6. BesideInv'
  BY <1>1 DEF BesideInv
(* Whoever loses the .tmp under its hands has run beside p. *)
<1>7. HandleInv'
  <2>1. SUFFICES ASSUME NEW q \in Downloaders
                 PROVE  /\ does'[q] = "copy" <=> handle'[q] # "closed"
                        /\ handle'[q] \in {"final", "gone"} => q \in beside'
                        /\ handle'[q] = "tmp" => file'[q] \in DOMAIN tmp'
                        /\ handle'[q] = "final" => file'[q] \in DOMAIN final'
    BY DEF HandleInv
  <2>2. CASE q = p
    BY <1>1, <1>4, <2>2
  <2>3. CASE q # p
    <3>1. does'[q] = does[q] /\ file'[q] = file[q] /\ (q \in beside => q \in beside')
      BY <1>1, <2>3
    <3>2. does[q] = "copy" => q \in beside
      BY <2>3 DEF BesideInv
    <3>3. QED
      BY <1>2, <1>4, <2>3, <3>1, <3>2 DEF HandleInv
  <2>4. QED
    BY <2>2, <2>3
<1>8. PlaceInv'
  BY <1>0, <1>1 DEF PlaceInv
<1>9. QED
  BY <1>2, <1>4, <1>5, <1>6, <1>7, <1>8

LEMMA RenameIs ==
    ASSUME DownInv, NEW p \in Downloaders, RenameTmp(p)
    PROVE  /\ DownInv'
           /\ file[p] \in DOMAIN tmp
           /\ DOMAIN tmp' = DOMAIN tmp \ {file[p]}
           /\ \A g \in DOMAIN tmp' : tmp'[g] = tmp[g]
           /\ DOMAIN final' = DOMAIN final \cup {file[p]}
           /\ \A g \in DOMAIN final' : final'[g] = IF g = file[p] THEN tmp[g] ELSE final[g]
           /\ \A q \in Downloaders :
                 handle'[q] = IF file[q] = file[p] /\ handle[q] = "tmp" THEN "final"
                              ELSE IF file[q] = file[p] /\ handle[q] = "final" THEN "gone"
                              ELSE handle[q]
<1> USE DEF DownInv, DownloadTypeOK, Downloading, Does, history, RenameTmp
<1>0. FileCount \in Nat \ {0} /\ ChunkCount \in Nat \ {0} /\ MaxDownloads \in Nat
  BY DownloadAssumption
<1>1. file[p] \in ModelFiles /\ file[p] \in DOMAIN tmp
  BY DEF PlaceInv
<1>2. /\ does' = [does EXCEPT ![p] = "stat"] /\ file' = [file EXCEPT ![p] = file[p] + 1]
      /\ does[p] = "rename" /\ handle[p] = "closed"
  BY DEF HandleInv
<1>3. /\ tmp' \in Partial /\ DOMAIN tmp' = DOMAIN tmp \ {file[p]}
      /\ \A g \in DOMAIN tmp' : tmp'[g] = tmp[g]
  <2>1. tmp' \in Partial
    BY DropPartial
  <2>2. QED
    BY <2>1 DEF Drop
<1>4. /\ final' \in Partial /\ DOMAIN final' = DOMAIN final \cup {file[p]}
      /\ \A g \in DOMAIN final' : final'[g] = IF g = file[p] THEN tmp[g] ELSE final[g]
  <2>1. tmp[file[p]] \in SUBSET Chunks
    BY <1>1, PartialIs
  <2>2. final' \in Partial
    BY <1>1, <2>1, PutPartial
  <2>3. QED
    BY <1>1, <2>2 DEF Put
<1>5. handle \in [Downloaders -> HandleStates]
  BY DEF HandleStates
<1>6. /\ handle' \in [Downloaders -> HandleStates]
      /\ \A q \in Downloaders :
            handle'[q] = IF file[q] = file[p] /\ handle[q] = "tmp" THEN "final"
                         ELSE IF file[q] = file[p] /\ handle[q] = "final" THEN "gone"
                         ELSE handle[q]
  BY <1>5, HandlesRenamed
<1>7. DownloadTypeOK'
  <2>1. file[p] + 1 \in 1 .. FileCount + 1
    BY <1>0, <1>1 DEF ModelFiles
  <2>2. QED
    BY <1>2, <1>3, <1>4, <1>6, <2>1 DEF HandleStates
<1>8. BesideInv'
  BY <1>2 DEF BesideInv
<1>9. HandleInv'
  <2>1. SUFFICES ASSUME NEW q \in Downloaders
                 PROVE  /\ does'[q] = "copy" <=> handle'[q] # "closed"
                        /\ handle'[q] \in {"final", "gone"} => q \in beside'
                        /\ handle'[q] = "tmp" => file'[q] \in DOMAIN tmp'
                        /\ handle'[q] = "final" => file'[q] \in DOMAIN final'
    BY DEF HandleInv
  <2>2. CASE q = p
    BY <1>2, <1>6, <2>2
  <2>3. CASE q # p
    <3>1. does'[q] = does[q] /\ file'[q] = file[q] /\ beside' = beside
      BY <1>2, <2>3
    <3>2. does[q] = "copy" => q \in beside
      BY <1>2, <2>3 DEF BesideInv
    <3>3. QED
      BY <1>3, <1>4, <1>6, <2>3, <3>1, <3>2 DEF HandleInv
  <2>4. QED
    BY <2>2, <2>3
<1>10. PlaceInv'
  <2>1. \A g \in 1 .. file[p] : g \in DOMAIN final'
    BY <1>0, <1>1, <1>4 DEF PlaceInv, ModelFiles
  <2>2. DOMAIN final = ModelFiles => DOMAIN final' = ModelFiles
    BY <1>1, <1>4
  <2>3. QED
    BY <1>0, <1>1, <1>2, <1>4, <2>1, <2>2 DEF PlaceInv, ModelFiles
<1>11. QED
  BY <1>1, <1>3, <1>4, <1>6, <1>7, <1>8, <1>9, <1>10

LEMMA DownInvStep == DownInv /\ [DownloadNext]_downloadVars => DownInv'
<1> SUFFICES ASSUME DownInv, [DownloadNext]_downloadVars
             PROVE  DownInv'
    OBVIOUS
<1>1. CASE UNCHANGED downloadVars
  BY <1>1 DEF downloadVars, disk, loop, history, DownInv, DownloadTypeOK, BesideInv, HandleInv,
              PlaceInv, Downloading
<1>2. QED
  BY <1>1, DownInvQuietStep, CreateIs, CopyIs, FailedCopyIs, RenameIs DEF DownloadNext

-----------------------------------------------------------------------------
(* What the files hold.  A file that is not whole is still being filled: its *)
(* last truncation was by a download that has copied all chunks but the ones *)
(* that it has yet to copy, and has it open.  Of the .tmp files this is true *)
(* as long as somebody may rename them; a .tmp that a lone download has left *)
(* is truncated before it is renamed.                                        *)
Fills(p, f, name, files) == /\ file[p] = f /\ handle[p] = name
                            /\ 1 .. copied[p] \subseteq files[f]
WillBeWhole(f, name, files) ==
    files[f] = Chunks \/ \E p \in Downloaders : Fills(p, f, name, files)
WantsTmp(f) == \E p \in Downloaders : file[p] = f /\ does[p] \in {"copy", "rename"}

FinalInv == ~ cut => \A f \in DOMAIN final : WillBeWhole(f, "final", final)
TmpInv == ~ cut => \A f \in DOMAIN tmp : WantsTmp(f) => WillBeWhole(f, "tmp", tmp)

LEMMA WholeInit == DownloadInit => FinalInv /\ TmpInv
  BY DEF DownloadInit, FinalInv, TmpInv

(* A download that is at work on a file keeps being so, unless it is the one *)
(* that takes the step.                                                      *)
LEMMA OverIs ==
    ASSUME DownInv, NEW p \in Downloaders, Over(p)
    PROVE  /\ does'[p] = "nothing"
           /\ \A q \in Downloaders \ {p} :
                 does'[q] = does[q] /\ file'[q] = file[q] /\ copied'[q] = copied[q]
  BY DEF Over, Does, DownInv, DownloadTypeOK

(* Neither the files nor what their fillers have copied change. *)
LEMMA WholeSame ==
    ASSUME DownInv, FinalInv, TmpInv, UNCHANGED disk,
           cut => cut',
           \A q \in Downloaders :
              handle[q] \in {"tmp", "final"} =>
                 handle'[q] = handle[q] /\ file'[q] = file[q] /\ copied'[q] = copied[q],
           \A q \in Downloaders :
              does'[q] \in {"copy", "rename"} =>
                 does[q] \in {"copy", "rename"} /\ file'[q] = file[q]
    PROVE  FinalInv' /\ TmpInv'
<1>1. ASSUME NEW f, NEW name \in {"tmp", "final"}, NEW files, WillBeWhole(f, name, files)
      PROVE  files[f] = Chunks \/ \E q \in Downloaders : /\ file'[q] = f /\ handle'[q] = name
                                                         /\ 1 .. copied'[q] \subseteq files[f]
  BY <1>1 DEF WillBeWhole, Fills
<1>2. \A f : WantsTmp(f)' => WantsTmp(f)
  BY DEF WantsTmp
<1>3. FinalInv'
  BY <1>1 DEF FinalInv, WillBeWhole, Fills, disk
<1>4. TmpInv'
  BY <1>1, <1>2 DEF TmpInv, WillBeWhole, Fills, disk
<1>5. QED
  BY <1>3, <1>4

LEMMA WholeQuietStep ==
    ASSUME DownInv, FinalInv, TmpInv, NEW p \in Downloaders,
           \/ \E forced \in BOOLEAN : BeginDownload(p, forced)
           \/ StatFile(p) \/ GetFails(p) \/ RenameFails(p) \/ EndDownload(p)
    PROVE  FinalInv' /\ TmpInv'
<1>1. /\ does \in [Downloaders -> {"nothing", "stat", "get", "copy", "rename"}]
      /\ \A q \in Downloaders : handle[q] \in {"tmp", "final"} => does[q] = "copy"
  BY DEF DownInv, DownloadTypeOK, HandleInv
<1>2. handle' = handle /\ cut' = cut /\ UNCHANGED disk
  BY DEF BeginDownload, StatFile, GetFails, RenameFails, EndDownload, history, disk
<1>3. does[p] # "copy" /\ does'[p] \notin {"copy", "rename"}
  BY <1>1, OverIs DEF BeginDownload, StatFile, GetFails, RenameFails, EndDownload, Does,
                      Downloading
<1>4. \A q \in Downloaders \ {p} :
         does'[q] = does[q] /\ file'[q] = file[q] /\ copied'[q] = copied[q]
  <2>1. \A q \in Downloaders \ {p} : file'[q] = file[q] /\ copied'[q] = copied[q]
    BY OverIs DEF BeginDownload, StatFile, GetFails, RenameFails, EndDownload, Does,
                  DownInv, DownloadTypeOK
  <2>2. \A q \in Downloaders \ {p} : does'[q] = does[q]
    BY <1>1, OverIs DEF BeginDownload, StatFile, GetFails, RenameFails, EndDownload, Does
  <2>3. QED
    BY <2>1, <2>2
<1>5. QED
  BY <1>1, <1>2, <1>3, <1>4, WholeSame

LEMMA WholeCopyEnds ==
    ASSUME DownInv, FinalInv, TmpInv, NEW p \in Downloaders, CopyEnds(p)
    PROVE  FinalInv' /\ TmpInv'
<1>1. /\ ChunkCount \in Nat /\ copied[p] = ChunkCount
      /\ UNCHANGED <<disk, file, copied, cut>> /\ does[p] = "copy"
      /\ \A q \in Downloaders \ {p} : handle'[q] = handle[q] /\ does'[q] = does[q]
  BY DownloadAssumption DEF CopyEnds, DownInv, DownloadTypeOK, Does, history
<1>2. ASSUME NEW f, NEW name \in {"tmp", "final"}, NEW files, files \in Partial,
             f \in DOMAIN files, WillBeWhole(f, name, files)
      PROVE  files[f] = Chunks \/ \E q \in Downloaders : /\ file'[q] = f /\ handle'[q] = name
                                                         /\ 1 .. copied'[q] \subseteq files[f]
  <2>1. files[f] \subseteq Chunks
    BY <1>2, PartialIs
  <2>2. CASE Fills(p, f, name, files)
    BY <1>1, <2>1, <2>2 DEF Fills, Chunks
  <2>3. QED
    BY <1>1, <1>2, <2>2 DEF WillBeWhole, Fills
<1>3. \A f : WantsTmp(f)' => WantsTmp(f)
  BY <1>1 DEF WantsTmp
<1>4. final \in Partial /\ tmp \in Partial
  BY DEF DownInv, DownloadTypeOK
<1>5. FinalInv'
  BY <1>1, <1>2, <1>4 DEF FinalInv, WillBeWhole, Fills, disk
<1>6. TmpInv'
  BY <1>1, <1>2, <1>3, <1>4 DEF TmpInv, WillBeWhole, Fills, disk
<1>7. QED
  BY <1>5, <1>6

(* A kill in the copy spoils only what a lone download was filling. *)
LEMMA WholeKill ==
    ASSUME DownInv, FinalInv, TmpInv, NEW p \in Downloaders, KillDownload(p)
    PROVE  FinalInv' /\ TmpInv'
<1>1. /\ does \in [Downloaders -> {"nothing", "stat", "get", "copy", "rename"}]
      /\ \A q \in Downloaders : handle[q] # "closed" <=> does[q] = "copy"
  BY DEF DownInv, DownloadTypeOK, HandleInv
<1>2. /\ does'[p] = "nothing" /\ UNCHANGED disk /\ (cut => cut')
      /\ \A q \in Downloaders \ {p} : /\ does'[q] = does[q] /\ file'[q] = file[q]
                                      /\ copied'[q] = copied[q] /\ handle'[q] = handle[q]
  BY OverIs DEF KillDownload, CutOff, DownInv, DownloadTypeOK
<1>3. CASE does[p] # "copy"
  BY <1>1, <1>2, <1>3, WholeSame
<1>4. CASE does[p] = "copy" /\ p \in beside
  BY <1>4 DEF KillDownload, CutOff, FinalInv, TmpInv
<1>5. CASE does[p] = "copy" /\ p \notin beside
  <2>1. \A q \in Downloaders \ {p} : does[q] = "nothing"
    BY <1>5 DEF DownInv, BesideInv, Downloading
  <2>2. \A q \in Downloaders : handle[q] # "final"
    BY <1>1, <1>5, <2>1 DEF DownInv, HandleInv
  <2>3. FinalInv'
    BY <1>2, <2>2 DEF FinalInv, WillBeWhole, Fills, disk
  <2>4. \A f : ~ WantsTmp(f)'
    BY <1>2, <2>1 DEF WantsTmp
  <2>5. QED
    BY <2>3, <2>4 DEF TmpInv
<1>6. QED
  BY <1>3, <1>4, <1>5

LEMMA WholeCreate ==
    ASSUME DownInv, FinalInv, TmpInv, NEW p \in Downloaders, CreateTmp(p)
    PROVE  FinalInv' /\ TmpInv'
<1>1. /\ file' = file /\ final' = final /\ cut' = cut /\ does[p] = "get"
      /\ handle'[p] = "tmp" /\ copied'[p] = 0 /\ handle[p] = "closed"
      /\ \A q \in Downloaders \ {p} : /\ does'[q] = does[q]
                                      /\ copied'[q] = copied[q] /\ handle'[q] = handle[q]
  BY DEF CreateTmp, Does, history, DownInv, DownloadTypeOK, HandleInv
<1>2. /\ DOMAIN tmp' = DOMAIN tmp \cup {file[p]}
      /\ \A g \in DOMAIN tmp' : tmp'[g] = IF g = file[p] THEN {} ELSE tmp[g]
  BY CreateIs
<1>3. FinalInv'
  BY <1>1 DEF FinalInv, WillBeWhole, Fills
<1>4. ASSUME ~ cut, NEW f \in DOMAIN tmp', WantsTmp(f)'
      PROVE  WillBeWhole(f, "tmp", tmp)'
  <2>1. CASE f = file[p]
    BY <1>1, <1>2, <2>1 DEF WillBeWhole, Fills
  <2>2. CASE f # file[p]
    <3>1. f \in DOMAIN tmp /\ tmp'[f] = tmp[f] /\ WantsTmp(f)
      BY <1>1, <1>2, <1>4, <2>2 DEF WantsTmp
    <3>2. WillBeWhole(f, "tmp", tmp)
      BY <1>4, <3>1 DEF TmpInv
    <3>3. QED
      BY <1>1, <2>2, <3>1, <3>2 DEF WillBeWhole, Fills
  <2>3. QED
    BY <2>1, <2>2
<1>5. QED
  BY <1>1, <1>3, <1>4 DEF TmpInv

LEMMA WholeCopy ==
    ASSUME DownInv, FinalInv, TmpInv, NEW p \in Downloaders, CopyChunk(p)
    PROVE  FinalInv' /\ TmpInv'
<1>1. /\ UNCHANGED <<does, file, handle, cut>>
      /\ copied[p] \in Nat /\ copied'[p] = copied[p] + 1
      /\ \A q \in Downloaders \ {p} : copied'[q] = copied[q]
  BY DownloadAssumption DEF CopyChunk, history, DownInv, DownloadTypeOK
<1>2. 1 .. copied'[p] = (1 .. copied[p]) \cup {copied[p] + 1}
  BY <1>1
<1>3. /\ DOMAIN tmp' = DOMAIN tmp /\ DOMAIN final' = DOMAIN final
      /\ \A g \in DOMAIN tmp :
            tmp'[g] = IF g = file[p] /\ handle[p] = "tmp"
                      THEN tmp[g] \cup {copied[p] + 1} ELSE tmp[g]
      /\ \A g \in DOMAIN final :
            final'[g] = IF g = file[p] /\ handle[p] = "final"
                        THEN final[g] \cup {copied[p] + 1} ELSE final[g]
      /\ copied[p] + 1 \in Chunks
  BY CopyIs
<1>4. ASSUME NEW f \in DOMAIN final, WillBeWhole(f, "final", final)
      PROVE  WillBeWhole(f, "final", final)'
  <2>1. CASE final[f] = Chunks
    BY <1>3, <2>1 DEF WillBeWhole
  <2>2. CASE Fills(p, f, "final", final)
    BY <1>1, <1>2, <1>3, <2>2 DEF WillBeWhole, Fills
  <2>3. ASSUME NEW q \in Downloaders \ {p}, Fills(q, f, "final", final)
        PROVE  WillBeWhole(f, "final", final)'
    BY <1>1, <1>3, <2>3 DEF WillBeWhole, Fills
  <2>4. QED
    BY <1>4, <2>1, <2>2, <2>3 DEF WillBeWhole
<1>5. ASSUME NEW f \in DOMAIN tmp, WillBeWhole(f, "tmp", tmp)
      PROVE  WillBeWhole(f, "tmp", tmp)'
  <2>1. CASE tmp[f] = Chunks
    BY <1>3, <2>1 DEF WillBeWhole
  <2>2. CASE Fills(p, f, "tmp", tmp)
    BY <1>1, <1>2, <1>3, <2>2 DEF WillBeWhole, Fills
  <2>3. ASSUME NEW q \in Downloaders \ {p}, Fills(q, f, "tmp", tmp)
        PROVE  WillBeWhole(f, "tmp", tmp)'
    BY <1>1, <1>3, <2>3 DEF WillBeWhole, Fills
  <2>4. QED
    BY <1>5, <2>1, <2>2, <2>3 DEF WillBeWhole
<1>6. \A f : WantsTmp(f)' => WantsTmp(f)
  BY <1>1 DEF WantsTmp
<1>7. QED
  BY <1>1, <1>3, <1>4, <1>5, <1>6 DEF FinalInv, TmpInv

LEMMA WholeFailedCopy ==
    ASSUME DownInv, FinalInv, TmpInv, NEW p \in Downloaders, CopyFails(p)
    PROVE  FinalInv' /\ TmpInv'
<1>1. /\ does[p] = "copy" /\ does'[p] = "nothing" /\ final' = final /\ (cut => cut')
      /\ \A q \in Downloaders \ {p} :
            does'[q] = does[q] /\ file'[q] = file[q] /\ copied'[q] = copied[q]
  BY OverIs DEF CopyFails, CutOff
<1>2. /\ DOMAIN tmp' = DOMAIN tmp \ {file[p]}
      /\ \A g \in DOMAIN tmp' : tmp'[g] = tmp[g]
      /\ \A q \in Downloaders :
            handle'[q] = IF q = p THEN "closed"
                         ELSE IF file[q] = file[p] /\ handle[q] = "tmp" THEN "gone"
                         ELSE handle[q]
  BY FailedCopyIs
<1>3. CASE p \in beside
  BY <1>3 DEF CopyFails, CutOff, FinalInv, TmpInv
<1>4. CASE p \notin beside
  <2>1. handle[p] # "final"
    BY <1>4 DEF DownInv, HandleInv
  <2>2. FinalInv'
    BY <1>1, <1>2, <2>1 DEF FinalInv, WillBeWhole, Fills
  <2>3. ASSUME ~ cut, NEW f \in DOMAIN tmp', WantsTmp(f)'
        PROVE  WillBeWhole(f, "tmp", tmp)'
    <3>1. f \in DOMAIN tmp /\ f # file[p] /\ tmp'[f] = tmp[f] /\ WantsTmp(f)
      BY <1>1, <1>2, <2>3 DEF WantsTmp
    <3>2. WillBeWhole(f, "tmp", tmp)
      BY <2>3, <3>1 DEF TmpInv
    <3>3. QED
      BY <1>1, <1>2, <3>1, <3>2 DEF WillBeWhole, Fills
  <2>4. QED
    BY <1>1, <2>2, <2>3 DEF TmpInv
<1>5. QED
  BY <1>3, <1>4

(* What is put in place is whole, or followed into its place by its filler.  *)
LEMMA WholeRename ==
    ASSUME DownInv, FinalInv, TmpInv, NEW p \in Downloaders, RenameTmp(p)
    PROVE  FinalInv' /\ TmpInv'
<1>1. /\ does[p] = "rename" /\ does'[p] = "stat" /\ handle[p] = "closed"
      /\ cut' = cut /\ copied' = copied
      /\ \A q \in Downloaders \ {p} : does'[q] = does[q] /\ file'[q] = file[q]
  BY DEF RenameTmp, Does, history, DownInv, DownloadTypeOK, HandleInv
<1>2. /\ file[p] \in DOMAIN tmp
      /\ DOMAIN tmp' = DOMAIN tmp \ {file[p]}
      /\ \A g \in DOMAIN tmp' : tmp'[g] = tmp[g]
      /\ DOMAIN final' = DOMAIN final \cup {file[p]}
      /\ \A g \in DOMAIN final' : final'[g] = IF g = file[p] THEN tmp[g] ELSE final[g]
      /\ \A q \in Downloaders :
            handle'[q] = IF file[q] = file[p] /\ handle[q] = "tmp" THEN "final"
                         ELSE IF file[q] = file[p] /\ handle[q] = "final" THEN "gone"
                         ELSE handle[q]
  BY RenameIs
<1>3. ASSUME ~ cut, NEW f \in DOMAIN final'
      PROVE  WillBeWhole(f, "final", final)'
  <2>1. CASE f = file[p]
    <3>1. WantsTmp(f)
      BY <1>1, <2>1 DEF WantsTmp
    <3>2. WillBeWhole(f, "tmp", tmp)
      BY <1>2, <1>3, <2>1, <3>1 DEF TmpInv
    <3>3. final'[f] = tmp[f]
      BY <1>2, <2>1
    <3>4. QED
      BY <1>1, <1>2, <2>1, <3>2, <3>3 DEF WillBeWhole, Fills
  <2>2. CASE f # file[p]
    <3>1. f \in DOMAIN final /\ final'[f] = final[f]
      BY <1>2, <2>2
    <3>2. WillBeWhole(f, "final", final)
      BY <1>3, <3>1 DEF FinalInv
    <3>3. QED
      BY <1>1, <1>2, <2>2, <3>1, <3>2 DEF WillBeWhole, Fills
  <2>3. QED
    BY <2>1, <2>2
<1>4. ASSUME ~ cut, NEW f \in DOMAIN tmp', WantsTmp(f)'
      PROVE  WillBeWhole(f, "tmp", tmp)'
  <2>1. f \in DOMAIN tmp /\ f # file[p] /\ tmp'[f] = tmp[f]
    BY <1>2
  <2>2. WantsTmp(f)
    BY <1>1, <1>4 DEF WantsTmp
  <2>3. WillBeWhole(f, "tmp", tmp)
    BY <1>4, <2>1, <2>2 DEF TmpInv
  <2>4. QED
    BY <1>1, <1>2, <2>1, <2>3 DEF WillBeWhole, Fills
<1>5. QED
  BY <1>1, <1>3, <1>4 DEF FinalInv, TmpInv

LEMMA WholeStep ==
    DownInv /\ FinalInv /\ TmpInv /\ [DownloadNext]_downloadVars => FinalInv' /\ TmpInv'
<1> SUFFICES ASSUME DownInv, FinalInv, TmpInv, [DownloadNext]_downloadVars
             PROVE  FinalInv' /\ TmpInv'
    OBVIOUS
<1>1. CASE UNCHANGED downloadVars
  BY <1>1, WholeSame DEF downloadVars, disk, loop, history
<1>2. QED
  BY <1>1, WholeQuietStep, WholeCopyEnds, WholeKill, WholeCreate, WholeCopy, WholeFailedCopy,
     WholeRename DEF DownloadNext

(* The variables of the downloads keep their types: a chunk is written only  *)
(* to a file that is there, under the name that it has by then.              *)
THEOREM DownloadTypeCorrect == DownloadSpec => []DownloadTypeOK
<1>1. DownInv => DownloadTypeOK
  BY DEF DownInv
<1>2. QED
  BY <1>1, DownInvInit, DownInvStep, PTL DEF DownloadSpec

(* When no download runs, a file in place is whole, and all are in place if  *)
(* one has reported success (download.go 57-150), for any number of          *)
(* downloads that share their .tmp files, unless one of these was cut off in *)
(* its copy.                                                                 *)
THEOREM QuietModelCorrect == DownloadSpec => []QuietModelIsWhole
<1>1. DownInv /\ FinalInv => QuietModelIsWhole
  <2>1. SUFFICES ASSUME DownInv, FinalInv, \A p \in Downloaders : ~ Downloading(p), ~ cut
                 PROVE  /\ \A f \in DOMAIN final : final[f] = Chunks
                        /\ finished => DOMAIN final = ModelFiles
    BY DEF QuietModelIsWhole
  <2>2. \A p \in Downloaders : handle[p] # "final"
    BY <2>1 DEF DownInv, HandleInv, Downloading
  <2>3. QED
    BY <2>1, <2>2 DEF FinalInv, WillBeWhole, Fills, DownInv, PlaceInv
<1>2. QED
  BY <1>1, DownInvInit, DownInvStep, WholeInit, WholeStep, PTL DEF DownloadSpec
=============================================================================
