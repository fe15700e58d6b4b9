-------------------------- MODULE LowContext_proofs --------------------------
(* The counts of the watcher and what the daemon caches of them, for any      *)
(* files, window and threshold, any bounds and any number of restarts.        *)
EXTENDS LowContext, FiniteSetTheorems, TLAPS

(* Every event in the queue, in hand or in the table has been a write. *)
InHand == IF handling = None THEN 0 ELSE 1

LowTypeInv == /\ TypeOK
              /\ clock >= 1
              /\ Len(saves) + Len(events) + InHand <= writes

SaveRow == [file : Files, at : Times, has_note : {FALSE}]

LEMMA RowsAreFew ==
    ASSUME TypeOK, NEW f
    PROVE  /\ IsFiniteSet(Rows(f)) /\ Cardinality(Rows(f)) \in 0 .. Len(saves)
           /\ Len(saves) \in Nat
<1>1. Len(saves) \in Nat /\ DOMAIN saves = 1 .. Len(saves)
  BY DEF TypeOK
<1>2. Rows(f) \subseteq 1 .. Len(saves)
  BY <1>1 DEF Rows
<1>3. IsFiniteSet(1 .. Len(saves)) /\ Cardinality(1 .. Len(saves)) = Len(saves)
  <2>1. 1 \in Int /\ Len(saves) \in Int
    BY <1>1
  <2>2. /\ IsFiniteSet(1 .. Len(saves))
        /\ Cardinality(1 .. Len(saves)) = IF 1 > Len(saves) THEN 0 ELSE Len(saves) - 1 + 1
    BY <2>1, FS_Interval
  <2>3. QED
    BY <1>1, <2>2
<1>4. QED
  BY <1>1, <1>2, <1>3, FS_Subset, FS_CardinalityType

LEMMA CountsAreFew ==
    ASSUME TypeOK, NEW f
    PROVE  SavesSinceLastNote(f) \in 0 .. Cardinality(Rows(f))
<1>1. {i \in Rows(f) : saves[i].at > LastNote(f)} \subseteq Rows(f)
  OBVIOUS
<1>2. QED
  BY <1>1, RowsAreFew, FS_Subset, FS_CardinalityType DEF SavesSinceLastNote

LEMMA DivStep ==
    ASSUME NEW D \in Nat \ {0}, NEW a \in Nat, NEW b \in Nat, a >= b + D
    PROVE  a \div D >= (b \div D) + 1
  OBVIOUS
LEMMA DivMonotone ==
    ASSUME NEW D \in Nat \ {0}, NEW a \in Nat, NEW b \in Nat, a >= b
    PROVE  a \div D >= b \div D /\ a \div D \in Nat /\ b \div D \in Nat
  OBVIOUS

-----------------------------------------------------------------------------
LEMMA LowTypeInvInit == Init => LowTypeInv
<1> SUFFICES ASSUME Init PROVE LowTypeInv
    OBVIOUS
<1>1. saves = <<>> /\ events = <<>> /\ InHand = 0 /\ writes = 0
  BY DEF Init, InHand
<1>2. clock = 1
  BY DEF Init
<1>3. QED
  <2>1. clock \in Times /\ writes \in 0 .. MaxWrites /\ restarts \in 0 .. MaxRestarts
    BY LowContextAssumption DEF Init, Times
  <2>2. /\ debounce \in [Files -> Times \cup {None}]
        /\ counts \in [Files -> 0 .. MaxWrites]
    BY LowContextAssumption DEF Init
  <2>3. Len(saves) = 0 /\ Len(events) = 0
    BY <1>1
  <2>4. /\ saves \in Seq([file : Files, at : Times, has_note : {FALSE}])
        /\ events \in Seq(Files)
    BY <1>1
  <2>5. /\ notes = {} /\ drafts = {} /\ cache = None /\ results = {} /\ up = TRUE
        /\ handling = None /\ scan = "wait"
    BY DEF Init
  <2>6. TypeOK
    <3>1. Len(saves) <= writes
      BY <1>1, <2>3
    <3>2. /\ notes \subseteq [file : Files, at : Times]
          /\ drafts \subseteq [file : Files, at : Times]
          /\ cache \in (SUBSET Item) \cup {None} /\ results \subseteq Item
          /\ up \in BOOLEAN /\ handling \in Files \cup {None}
          /\ scan \in {"wait", "times", "cache"}
      BY <2>5
    <3>3. QED
      BY <2>1, <2>2, <2>4, <3>1, <3>2, Zenon DEF TypeOK
  <2>7. QED
    BY <1>1, <1>2, <2>3, <2>6 DEF LowTypeInv

LEMMA LowTypeInvStep == LowTypeInv /\ [Next]_vars => LowTypeInv'
<1> SUFFICES ASSUME LowTypeInv, [Next]_vars
             PROVE  LowTypeInv'
    OBVIOUS
<1> USE LowContextAssumption DEF LowTypeInv, tables, watcher, loop, daemon
<1>0. TypeOK
  OBVIOUS
<1>1. CASE Tick
  BY <1>1 DEF Tick, TypeOK, Times, InHand
<1>2. ASSUME NEW f \in Files, Write(f)
      PROVE  LowTypeInv'
  <2>1. /\ writes < MaxWrites /\ writes' = writes + 1
        /\ events' = Append(events, f) \/ events' = events
        /\ UNCHANGED <<clock, saves, notes, cache, drafts, up, restarts, debounce, handling,
                       scan, counts, results>>
    BY <1>2 DEF Write
  <2>2. events' \in Seq(Files) /\ Len(events') <= Len(events) + 1 /\ Len(events') \in Nat
    <3>1. events \in Seq(Files)
      BY <1>0 DEF TypeOK
    <3>2. QED
      BY <2>1, <3>1
  <2>3. /\ writes' \in 0 .. MaxWrites /\ Len(saves') <= writes'
        /\ Len(saves') + Len(events') + InHand <= writes'
    <3>1. /\ writes \in 0 .. MaxWrites /\ Len(saves) \in Nat /\ Len(events) \in Nat
          /\ Len(saves) + Len(events) + InHand <= writes /\ InHand \in {0, 1}
      BY <1>0 DEF TypeOK, InHand
    <3>2. Len(saves') = Len(saves)
      BY <2>1
    <3>3. QED
      BY <2>1, <2>2, <3>1, <3>2
  <2>4. TypeOK'
    BY <1>0, <2>1, <2>2, <2>3 DEF TypeOK
  <2>5. QED
    BY <2>1, <2>3, <2>4 DEF InHand
<1>3. ASSUME NEW f \in Files, BuildIntent(f)
      PROVE  LowTypeInv'
  BY <1>3 DEF BuildIntent, TypeOK, InHand
<1>4. ASSUME NEW n \in drafts, InsertIntent(n)
      PROVE  LowTypeInv'
  BY <1>4 DEF InsertIntent, TypeOK, InHand
<1>5. CASE HandleEvent
  <2>1. /\ handling = None /\ events # <<>> /\ events' = Tail(events)
        /\ UNCHANGED <<clock, saves, notes, cache, drafts, up, restarts, writes, scan, counts,
                       results>>
    BY <1>5 DEF HandleEvent
  <2>2. /\ Head(events) \in Files /\ events' \in Seq(Files)
        /\ Len(events) \in Nat /\ Len(events') = Len(events) - 1
    <3>1. events \in Seq(Files)
      BY <1>0 DEF TypeOK
    <3>2. QED
      BY <2>1, <3>1
  <2>3. /\ debounce' \in [Files -> Times \cup {None}] /\ handling' \in Files \cup {None}
    <3>1. clock \in Times /\ debounce \in [Files -> Times \cup {None}]
      BY <1>0 DEF TypeOK
    <3>2. CASE Recent(Head(events))
      BY <1>5, <2>1, <3>1, <3>2 DEF HandleEvent
    <3>3. CASE ~ Recent(Head(events))
      BY <1>5, <2>2, <3>1, <3>3 DEF HandleEvent
    <3>4. QED
      BY <3>2, <3>3
  <2>4. TypeOK'
    <3>1. UNCHANGED <<clock, saves, notes, cache, drafts, up, restarts, writes, scan, counts,
                      results>>
      BY <2>1
    <3>2. QED
      BY <1>0, <2>2, <2>3, <3>1 DEF TypeOK
  <2>5. InHand = 0 /\ InHand' \in {0, 1}
    BY <2>1 DEF InHand
  <2>6. Len(saves) \in Nat /\ Len(saves') = Len(saves)
    BY <1>0, <2>1 DEF TypeOK
  <2>7. QED
    <3>1. Len(saves) + Len(events) <= writes /\ writes' = writes /\ writes \in Nat
      BY <1>0, <2>1, <2>5 DEF TypeOK
    <3>2. Len(saves') + Len(events') + InHand' <= writes'
      BY <2>2, <2>5, <2>6, <3>1
    <3>3. clock' >= 1
      BY <2>1
    <3>4. QED
      BY <2>4, <3>2, <3>3
<1>6. CASE RecordFileSave
  BY <1>6 DEF RecordFileSave, TypeOK, InHand
<1>7. CASE RecordFileSaveFails
  BY <1>7 DEF RecordFileSaveFails, TypeOK, InHand
<1>8. CASE ReadCounts
  BY <1>0, <1>8, CountsAreFew, RowsAreFew DEF ReadCounts, SaveCountsSinceLastNote, TypeOK, InHand
<1>9. CASE ReadNoteTimes
  <2>1. /\ results' = {[file |-> f, count |-> counts[f], noted |-> Noted(f)] :
                           f \in {g \in Files : counts[g] >= Threshold}}
        /\ scan' = "cache"
        /\ UNCHANGED <<clock, saves, notes, cache, drafts, up, restarts, writes, events,
                       debounce, handling, counts>>
    BY <1>9 DEF ReadNoteTimes
  <2>2. \A f \in Files : counts[f] \in 0 .. MaxWrites /\ Noted(f) \in BOOLEAN
    BY <1>0 DEF TypeOK, Noted
  <2>3. results' \subseteq Item
    BY <2>1, <2>2 DEF Item
  <2>4. TypeOK'
    BY <1>0, <2>1, <2>3 DEF TypeOK
  <2>5. QED
    BY <2>1, <2>4 DEF InHand
<1>10. CASE CacheResults \/ ScanFails
  BY <1>10 DEF CacheResults, ScanFails, TypeOK, InHand
<1>11. CASE StopDaemon \/ StartDaemon
  <2>1. /\ UNCHANGED <<clock, saves, notes, cache, drafts, writes>>
        /\ up' \in BOOLEAN /\ restarts' \in 0 .. MaxRestarts /\ Fresh
    <3>1. restarts \in 0 .. MaxRestarts /\ MaxRestarts \in Nat
      BY <1>0, LowContextAssumption DEF TypeOK
    <3>2. CASE StopDaemon
      BY <3>1, <3>2 DEF StopDaemon
    <3>3. CASE StartDaemon
      BY <3>1, <3>3 DEF StartDaemon
    <3>4. QED
      BY <1>11, <3>2, <3>3
  <2>2. /\ debounce' \in [Files -> Times \cup {None}]
        /\ counts' \in [Files -> 0 .. MaxWrites]
    BY <2>1 DEF Fresh
  <2>3. /\ events' \in Seq(Files) /\ Len(events') = 0 /\ handling' = None
        /\ scan' = "wait" /\ results' = {}
    BY <2>1 DEF Fresh
  <2>4. TypeOK'
    BY <1>0, <2>1, <2>2, <2>3 DEF TypeOK
  <2>5. QED
    BY <1>0, <2>1, <2>3, <2>4 DEF InHand, TypeOK
<1>12. CASE UNCHANGED vars
  BY <1>12 DEF vars, TypeOK, InHand
<1>13. QED
  BY <1>1, <1>2, <1>3, <1>4, <1>5, <1>6, <1>7, <1>8, <1>9, <1>10, <1>11, <1>12 DEF Next

-----------------------------------------------------------------------------
(* What one step does to the table: a row of the file in hand, or nothing.   *)
LEMMA TableStep ==
    ASSUME LowTypeInv, [Next]_vars
    PROVE  /\ notes \subseteq notes'
           /\ \/ UNCHANGED saves
              \/ /\ RecordFileSave
                 /\ \A f \in Files : Rows(f)' = IF f = handling
                                                THEN Rows(f) \cup {Len(saves) + 1}
                                                ELSE Rows(f)
<1>1. CASE RecordFileSave
  <2>1. saves \in Seq(SaveRow) /\ notes' = notes
    BY <1>1 DEF RecordFileSave, LowTypeInv, TypeOK, SaveRow
  <2>2. /\ Len(saves) \in Nat /\ DOMAIN saves = 1 .. Len(saves)
        /\ DOMAIN saves' = 1 .. Len(saves) + 1
        /\ \A i \in 1 .. Len(saves) : saves'[i] = saves[i]
        /\ saves'[Len(saves) + 1].file = handling
    <3>1. /\ saves' = Append(saves, [file |-> handling, at |-> clock, has_note |-> FALSE])
          /\ [file |-> handling, at |-> clock, has_note |-> FALSE] \in SaveRow
      BY <1>1, LowContextAssumption DEF RecordFileSave, LowTypeInv, TypeOK, SaveRow
    <3>2. QED
      BY <2>1, <3>1
  <2>3. ASSUME NEW f \in Files
        PROVE  Rows(f)' = IF f = handling THEN Rows(f) \cup {Len(saves) + 1} ELSE Rows(f)
    <3>1. 1 .. Len(saves) + 1 = (1 .. Len(saves)) \cup {Len(saves) + 1}
      BY <2>2
    <3>2. QED
      BY <2>2, <3>1 DEF Rows
  <2>4. QED
    BY <1>1, <2>1, <2>3
<1>2. CASE ~ RecordFileSave
  <2>1. UNCHANGED saves /\ notes \subseteq notes'
    BY <1>2 DEF Next, Tick, Write, BuildIntent, InsertIntent, HandleEvent, RecordFileSaveFails,
                ReadCounts, ReadNoteTimes, CacheResults, ScanFails, StopDaemon, StartDaemon,
                tables, vars
  <2>2. QED
    BY <2>1
<1>3. QED
  BY <1>1, <1>2

LEMMA RowsGrow ==
    ASSUME LowTypeInv, LowTypeInv', [Next]_vars, NEW f \in Files
    PROVE  /\ Cardinality(Rows(f)) \in Nat /\ Cardinality(Rows(f)') \in Nat
           /\ Cardinality(Rows(f)) <= Cardinality(Rows(f)')
<1>1. Rows(f) \subseteq Rows(f)'
  BY TableStep DEF Rows
<1>2. IsFiniteSet(Rows(f)')
  <2>1. CASE UNCHANGED saves
    BY <2>1, RowsAreFew DEF Rows, LowTypeInv
  <2>2. CASE ~ UNCHANGED saves
    <3>1. IsFiniteSet(Rows(f)) /\ IsFiniteSet(Rows(f) \cup {Len(saves) + 1})
      BY RowsAreFew, FS_AddElement DEF LowTypeInv
    <3>2. QED
      BY <2>2, <3>1, TableStep
  <2>3. QED
    BY <2>1, <2>2
<1>3. QED
  BY <1>1, <1>2, FS_Subset, FS_CardinalityType

-----------------------------------------------------------------------------
(* What the cache says, what the scan is about to cache and what it has      *)
(* counted can only fall behind the tables, which only grow.                 *)
Grounded(x) == /\ x.count \in Threshold .. Cardinality(Rows(x.file))
               /\ x.noted => Noted(x.file)

GroundedInv == /\ \A f \in Files : counts[f] <= Cardinality(Rows(f))
               /\ \A x \in results : Grounded(x)
               /\ cache # None => \A x \in cache : Grounded(x)

LEMMA StillGrounded ==
    ASSUME LowTypeInv, LowTypeInv', [Next]_vars, NEW x \in Item, Grounded(x)
    PROVE  Grounded(x)'
<1>1. x.file \in Files /\ x.count \in Nat
  BY LowContextAssumption DEF Item
<1>2. Noted(x.file) => Noted(x.file)'
  BY TableStep DEF Noted
<1>3. QED
  BY <1>1, <1>2, RowsGrow, LowContextAssumption DEF Grounded

LEMMA GroundedInvInit == Init => GroundedInv
<1> SUFFICES ASSUME Init PROVE GroundedInv
    OBVIOUS
<1>1. \A f \in Files : counts[f] = 0 /\ Cardinality(Rows(f)) \in Nat
  BY LowTypeInvInit, RowsAreFew DEF Init, LowTypeInv
<1>2. results = {} /\ cache = None
  BY DEF Init
<1>3. QED
  BY <1>1, <1>2 DEF GroundedInv

LEMMA GroundedInvStep ==
    LowTypeInv /\ GroundedInv /\ [Next]_vars => GroundedInv'
<1> SUFFICES ASSUME LowTypeInv, GroundedInv, [Next]_vars
             PROVE  GroundedInv'
    OBVIOUS
<1>0. /\ LowTypeInv' /\ TypeOK
      /\ results \subseteq Item /\ (cache # None => cache \subseteq Item)
      /\ \A f \in Files : counts[f] \in Nat
  <2>1. LowTypeInv' /\ TypeOK
    BY LowTypeInvStep DEF LowTypeInv
  <2>2. cache \in (SUBSET Item) \cup {None} /\ results \subseteq Item
    BY <2>1 DEF TypeOK
  <2>3. counts \in [Files -> 0 .. MaxWrites]
    BY <2>1 DEF TypeOK
  <2>4. QED
    BY <2>1, <2>2, <2>3, LowContextAssumption
<1>a. ASSUME NEW f \in Files
      PROVE  counts[f] <= Cardinality(Rows(f)')
  BY <1>0, <1>a, RowsGrow DEF GroundedInv
<1>b. /\ \A x \in results : Grounded(x)'
      /\ cache # None => \A x \in cache : Grounded(x)'
  BY <1>0, StillGrounded DEF GroundedInv
<1>1. CASE ReadCounts
  <2>1. /\ counts' = SaveCountsSinceLastNote /\ UNCHANGED <<saves, cache, results>>
    BY <1>1 DEF ReadCounts, tables
  <2>2. \A f \in Files : counts'[f] <= Cardinality(Rows(f)')
    <3> SUFFICES ASSUME NEW f \in Files
                 PROVE  counts'[f] <= Cardinality(Rows(f)')
        OBVIOUS
    <3>1. Rows(f)' = Rows(f) /\ Cardinality(Rows(f)) \in Nat
      <4>1. Rows(f)' = Rows(f)
        BY <2>1 DEF Rows
      <4>2. Cardinality(Rows(f)) \in Nat
        BY <1>0, RowsAreFew
      <4>3. QED
        BY <4>1, <4>2
    <3>2. counts'[f] = SavesSinceLastNote(f)
      BY <2>1 DEF SaveCountsSinceLastNote
    <3>3. QED
      BY <1>0, <3>1, <3>2, CountsAreFew
  <2>3. QED
    BY <1>b, <2>1, <2>2 DEF GroundedInv
<1>2. CASE ReadNoteTimes
  <2>1. /\ results' = {[file |-> f, count |-> counts[f], noted |-> Noted(f)] :
                          f \in {g \in Files : counts[g] >= Threshold}}
        /\ UNCHANGED <<saves, notes, cache, counts>>
    BY <1>2 DEF ReadNoteTimes, tables
  <2>2. ASSUME NEW x \in results'
        PROVE  Grounded(x)'
    <3>1. PICK f \in Files : /\ counts[f] >= Threshold
                             /\ x = [file |-> f, count |-> counts[f], noted |-> Noted(f)]
      BY <2>1
    <3>2. Noted(f)' = Noted(f)
      BY <2>1 DEF Noted
    <3>3. Cardinality(Rows(f)') \in Nat /\ counts[f] <= Cardinality(Rows(f)') /\ counts[f] \in Nat
      BY <1>0, <1>a, RowsGrow
    <3>4. QED
      BY <3>1, <3>2, <3>3, LowContextAssumption DEF Grounded
  <2>3. QED
    BY <1>a, <1>b, <2>1, <2>2 DEF GroundedInv
<1>3. CASE CacheResults
  <2>1. cache' = results /\ UNCHANGED <<counts, results>>
    BY <1>3 DEF CacheResults
  <2>2. QED
    BY <1>a, <1>b, <2>1 DEF GroundedInv
<1>4. CASE StopDaemon \/ StartDaemon
  <2>1. cache' = cache /\ results' = {} /\ counts' = [f \in Files |-> 0]
    BY <1>4 DEF StopDaemon, StartDaemon, Fresh, tables
  <2>2. \A f \in Files : counts'[f] <= Cardinality(Rows(f)')
    BY <1>0, <2>1, RowsGrow
  <2>3. QED
    BY <1>b, <2>1, <2>2 DEF GroundedInv
<1>5. CASE ~ (ReadCounts \/ ReadNoteTimes \/ CacheResults \/ StopDaemon \/ StartDaemon)
  <2>1. UNCHANGED <<cache, counts, results>>
    BY <1>5 DEF Next, Tick, Write, BuildIntent, InsertIntent, HandleEvent, RecordFileSave,
                RecordFileSaveFails, ScanFails, tables, loop, vars
  <2>2. QED
    BY <1>a, <1>b, <2>1 DEF GroundedInv
<1>6. QED
  BY <1>1, <1>2, <1>3, <1>4, <1>5

(* The variables of the watcher, the scan and the tables keep their types,   *)
(* and no save is counted that was not a write.                              *)
THEOREM LowContextTypeCorrect == Spec => []TypeOK
<1>1. LowTypeInv => TypeOK
  BY DEF LowTypeInv
<1>2. QED
  BY <1>1, LowTypeInvInit, LowTypeInvStep, PTL DEF Spec

(* The cache never invents a file: whatever the order of saves, notes, scans *)
(* that fail between their queries, and restarts (lowcontext.go 15-85).      *)
THEOREM CacheCorrect == Spec => []CacheIsGrounded
<1>1. LowTypeInv /\ GroundedInv => CacheIsGrounded
  BY DEF GroundedInv, Grounded, CacheIsGrounded, Noted
<1>2. QED
  BY <1>1, LowTypeInvInit, LowTypeInvStep, GroundedInvInit, GroundedInvStep, PTL DEF Spec

-----------------------------------------------------------------------------
(* A save is accepted at most once in a window: up to the last one accepted  *)
(* there were at most as many as windows, and one more.  A daemon that has   *)
(* just started remembers none, which is the one more per restart.           *)
Recorded(f) == Cardinality(Rows(f)) + (IF handling = f THEN 1 ELSE 0)
Windows(t) == (t - 1) \div DebounceD
Starts == restarts + (IF up THEN 0 ELSE 1)

BurstInv ==
    /\ ~ up => events = <<>>
    /\ \A f \in Files :
          IF debounce[f] = None
          THEN handling # f /\ Recorded(f) <= Starts + Windows(clock)
          ELSE /\ up /\ debounce[f] \in 1 .. clock
               /\ Recorded(f) <= 1 + restarts + Windows(debounce[f])

LEMMA WindowsGrow ==
    ASSUME NEW t \in Nat \ {0}, NEW u \in Nat \ {0}, t <= u
    PROVE  /\ Windows(t) \in Nat /\ Windows(u) \in Nat /\ Windows(t) <= Windows(u)
           /\ u - t >= DebounceD => Windows(t) + 1 <= Windows(u)
<1>1. t - 1 \in Nat /\ u - 1 \in Nat /\ DebounceD \in Nat \ {0}
  BY LowContextAssumption
<1>2. QED
  BY <1>1, DivMonotone, DivStep DEF Windows

LEMMA BurstInvInit == Init => BurstInv
<1> SUFFICES ASSUME Init, NEW f \in Files
             PROVE  /\ debounce[f] = None /\ handling # f
                    /\ Recorded(f) <= Starts + Windows(clock)
    BY DEF BurstInv, Init
<1>1. debounce[f] = None /\ handling # f /\ restarts = 0 /\ up = TRUE /\ clock = 1
  BY LowContextAssumption DEF Init
<1>2. Rows(f) = {}
  BY DEF Init, Rows
<1>3. Windows(1) \in Nat
  BY WindowsGrow
<1>4. QED
  BY <1>1, <1>2, <1>3, FS_EmptySet DEF Recorded, Starts

LEMMA BurstInvStep == LowTypeInv /\ BurstInv /\ [Next]_vars => BurstInv'
<1> SUFFICES ASSUME LowTypeInv, BurstInv, [Next]_vars
             PROVE  BurstInv'
    OBVIOUS
<1>0. /\ LowTypeInv' /\ TypeOK
      /\ clock \in Nat \ {0} /\ restarts \in Nat /\ up \in BOOLEAN
      /\ debounce \in [Files -> Times \cup {None}] /\ None \notin Nat /\ None \notin Files
  <2>1. LowTypeInv' /\ TypeOK
    BY LowTypeInvStep DEF LowTypeInv
  <2>2. clock \in Nat \ {0}
    BY LowContextAssumption DEF LowTypeInv, TypeOK, Times
  <2>3. /\ restarts \in Nat /\ up \in BOOLEAN /\ debounce \in [Files -> Times \cup {None}]
    BY LowContextAssumption DEF LowTypeInv, TypeOK
  <2>4. None \notin Nat /\ None \notin Files
    BY LowContextAssumption
  <2>5. QED
    BY <2>1, <2>2, <2>3, <2>4
<1>1. \A f \in Files : Cardinality(Rows(f)) \in Nat
  BY <1>0, RowsAreFew
<1>2. \A t \in 1 .. clock : Windows(t) \in Nat /\ Windows(t) <= Windows(clock)
  BY <1>0, WindowsGrow
<1>a. ASSUME UNCHANGED <<saves, handling, debounce, up, restarts, clock>>,
             ~ up => events' = <<>>
      PROVE  BurstInv'
  BY <1>a DEF BurstInv, Recorded, Rows, Windows, Starts
<1>3. CASE Tick
  <2>1. clock' = clock + 1 /\ UNCHANGED <<saves, handling, debounce, up, restarts, events>>
    BY <1>3 DEF Tick, tables, daemon, watcher
  <2>2. Windows(clock) \in Nat /\ Windows(clock') \in Nat /\ Windows(clock) <= Windows(clock')
    BY <1>0, <2>1, WindowsGrow
  <2>3. \A f \in Files : Recorded(f)' = Recorded(f) /\ Recorded(f) \in Nat
    BY <1>1, <2>1 DEF Recorded, Rows
  <2>4. Starts' = Starts /\ Starts \in Nat
    BY <1>0, <2>1 DEF Starts
  <2>5. QED
    BY <1>0, <2>1, <2>2, <2>3, <2>4 DEF BurstInv, Windows
<1>4. CASE HandleEvent
  <2>0. /\ handling = None /\ events # <<>> /\ UNCHANGED <<saves, up, restarts, clock>>
    BY <1>4 DEF HandleEvent, tables, daemon
  <2>a. Head(events) \in Files /\ up
    BY <1>0, <2>0 DEF TypeOK, BurstInv
  <2> PICK f \in Files : f = Head(events)
    BY <2>a
  <2>1. handling = None /\ UNCHANGED <<saves, up, restarts, clock>> /\ up
    BY <2>0, <2>a
  <2>2. CASE Recent(f)
    BY <1>4, <1>a, <2>1, <2>2 DEF HandleEvent
  <2>3. CASE ~ Recent(f)
    <3>1. debounce' = [debounce EXCEPT ![f] = clock] /\ handling' = f
      BY <1>4, <2>3 DEF HandleEvent
    <3>2. ASSUME NEW g \in Files, g # f
          PROVE  debounce'[g] = debounce[g] /\ Recorded(g)' = Recorded(g) /\ handling' # g
      BY <1>0, <2>1, <3>1, <3>2 DEF Recorded, Rows
    <3>3. Recorded(f)' = Recorded(f) + 1 /\ Recorded(f) \in Nat /\ debounce'[f] = clock
      <4>1. Rows(f)' = Rows(f)
        BY <2>1 DEF Rows
      <4>2. Cardinality(Rows(f)) \in Nat /\ handling # f
        BY <1>0, <1>1, <2>1
      <4>3. QED
        BY <1>0, <3>1, <4>1, <4>2 DEF Recorded
    <3>5. Recorded(f)' <= 1 + restarts + Windows(clock)
      <4>1. CASE debounce[f] = None
        BY <1>0, <1>2, <2>1, <3>3, <4>1 DEF BurstInv, Starts
      <4>2. CASE debounce[f] # None
        <5>1. /\ debounce[f] \in 1 .. clock /\ clock - debounce[f] >= DebounceD
              /\ Recorded(f) <= 1 + restarts + Windows(debounce[f])
          BY <1>0, <2>1, <2>3, <4>2, LowContextAssumption DEF BurstInv, Recent
        <5>2. /\ Windows(debounce[f]) \in Nat /\ Windows(clock) \in Nat
              /\ Windows(debounce[f]) + 1 <= Windows(clock)
          BY <1>0, <5>1, WindowsGrow
        <5>3. QED
          BY <1>0, <3>3, <5>1, <5>2
      <4>3. QED
        BY <4>1, <4>2
    <3>6. QED
      BY <1>0, <2>1, <3>1, <3>2, <3>3, <3>5 DEF BurstInv, Starts, Windows
  <2>4. QED
    BY <2>2, <2>3
<1>5. CASE RecordFileSave
  <2>1. /\ handling # None /\ handling' = None
        /\ UNCHANGED <<debounce, up, restarts, clock, events>>
    BY <1>5 DEF RecordFileSave, daemon
  <2>2. PICK f \in Files : f = handling
    BY <1>0, <2>1 DEF TypeOK
  <2>3. saves' # saves
    <3>1. /\ saves' = Append(saves, [file |-> handling, at |-> clock, has_note |-> FALSE])
          /\ saves \in Seq(SaveRow)
      BY <1>0, <1>5 DEF RecordFileSave, TypeOK, SaveRow
    <3>2. [file |-> handling, at |-> clock, has_note |-> FALSE] \in SaveRow
      BY <1>0, <2>2 DEF SaveRow, TypeOK
    <3>3. Len(saves') = Len(saves) + 1 /\ Len(saves) \in Nat
      BY <3>1, <3>2
    <3>4. QED
      BY <3>3
  <2>4. \A g \in Files : Rows(g)' = IF g = f THEN Rows(g) \cup {Len(saves) + 1} ELSE Rows(g)
    BY <2>2, <2>3, TableStep
  <2>5. Len(saves) + 1 \notin Rows(f)
    BY <1>0, RowsAreFew DEF Rows, TypeOK
  <2>6. Cardinality(Rows(f) \cup {Len(saves) + 1}) = Cardinality(Rows(f)) + 1
    BY <1>0, <2>5, RowsAreFew, FS_AddElement
  <2>7. ASSUME NEW g \in Files
        PROVE  Recorded(g)' = Recorded(g) /\ handling' # g
    <3>0. Cardinality(Rows(g)) \in Nat /\ handling' # g
      BY <1>0, <1>1, <2>1
    <3>1. CASE g = f
      <4>1. Cardinality(Rows(g)') = Cardinality(Rows(g)) + 1 /\ handling = g
        BY <2>2, <2>4, <2>6, <3>1
      <4>2. QED
        BY <3>0, <4>1 DEF Recorded
    <3>2. CASE g # f
      <4>1. Rows(g)' = Rows(g) /\ handling # g
        BY <2>2, <2>4, <3>2
      <4>2. QED
        BY <3>0, <4>1 DEF Recorded
    <3>3. QED
      BY <3>1, <3>2
  <2>8. QED
    BY <2>1, <2>7 DEF BurstInv, Starts, Windows
<1>6. CASE RecordFileSaveFails
  <2>1. handling' = None /\ UNCHANGED <<saves, debounce, up, restarts, clock, events>>
    BY <1>6 DEF RecordFileSaveFails, tables, daemon
  <2>2. \A g \in Files : /\ Recorded(g)' \in Nat /\ Recorded(g) \in Nat
                         /\ Recorded(g)' <= Recorded(g) /\ handling' # g
    BY <1>0, <1>1, <2>1 DEF Recorded, Rows
  <2>3. \A t \in 1 .. clock : Windows(t)' = Windows(t)
    BY DEF Windows
  <2>4. Windows(clock)' = Windows(clock) /\ Starts' = Starts /\ Starts \in Nat
    BY <1>0, <2>1 DEF Windows, Starts
  <2>5. QED
    BY <1>0, <1>2, <2>1, <2>2, <2>3, <2>4 DEF BurstInv
<1>7. CASE StopDaemon
  <2>1. /\ up /\ up' = FALSE /\ handling' = None /\ events' = <<>>
        /\ debounce' = [f \in Files |-> None]
        /\ UNCHANGED <<saves, restarts, clock>>
    BY <1>7 DEF StopDaemon, Fresh, tables
  <2>2. \A g \in Files : /\ Recorded(g)' \in Nat /\ Recorded(g) \in Nat
                         /\ Recorded(g)' <= Recorded(g) /\ handling' # g
                         /\ debounce'[g] = None
    BY <1>0, <1>1, <2>1 DEF Recorded, Rows
  <2>3. Starts = restarts /\ Starts' = restarts + 1 /\ Windows(clock)' = Windows(clock)
    BY <1>0, <2>1 DEF Starts, Windows
  <2>4. \A g \in Files : Recorded(g) <= 1 + restarts + Windows(clock)
    BY <1>0, <1>2, <2>1, <2>2, <2>3 DEF BurstInv
  <2>5. QED
    BY <1>0, <1>2, <2>1, <2>2, <2>3, <2>4 DEF BurstInv
<1>8. CASE StartDaemon
  <2>1. /\ ~ up /\ up' = TRUE /\ handling' = None /\ restarts' = restarts + 1
        /\ events' = <<>> /\ debounce' = [f \in Files |-> None]
        /\ UNCHANGED <<saves, clock>>
    BY <1>8 DEF StartDaemon, Fresh, tables
  <2>2. \A g \in Files : /\ Recorded(g)' \in Nat /\ Recorded(g) \in Nat
                         /\ Recorded(g)' <= Recorded(g) /\ handling' # g
                         /\ debounce'[g] = None /\ debounce[g] = None
    <3>1. ASSUME NEW g \in Files
          PROVE  debounce[g] = None /\ debounce'[g] = None /\ handling' # g /\ Rows(g)' = Rows(g)
      BY <1>0, <2>1, <3>1 DEF BurstInv, Rows
    <3>2. QED
      BY <1>1, <2>1, <3>1 DEF Recorded
  <2>3. Starts' = Starts /\ Starts \in Nat /\ Windows(clock)' = Windows(clock)
    BY <1>0, <2>1 DEF Starts, Windows
  <2>4. QED
    BY <1>0, <1>2, <2>1, <2>2, <2>3 DEF BurstInv
<1>9. CASE \E f \in Files : Write(f)
  BY <1>9, <1>a DEF Write, tables, daemon, BurstInv
<1>10. CASE \/ \E f \in Files : BuildIntent(f)
            \/ \E n \in drafts : InsertIntent(n)
            \/ ReadCounts \/ ReadNoteTimes \/ CacheResults \/ ScanFails
            \/ UNCHANGED vars
  BY <1>10, <1>a DEF BuildIntent, InsertIntent, ReadCounts, ReadNoteTimes, CacheResults,
     ScanFails, vars, tables, daemon, watcher, loop, BurstInv
<1>11. QED
  BY <1>3, <1>4, <1>5, <1>6, <1>7, <1>8, <1>9, <1>10 DEF Next

(* A burst of writes does not flag a file: the watcher records at most one   *)
(* save in each window of the debounce, and one more per start, whatever the *)
(* length of the window, the number of files, of writes and of restarts.     *)
THEOREM BurstsCorrect == Spec => []BurstsAreDebounced
<1>1. Spec => []LowTypeInv
  BY LowTypeInvInit, LowTypeInvStep, PTL DEF Spec
<1>2. Spec => []BurstInv
  BY <1>1, BurstInvInit, BurstInvStep, PTL DEF Spec
<1>3. LowTypeInv /\ BurstInv => BurstsAreDebounced
  <2> SUFFICES ASSUME LowTypeInv, BurstInv, NEW f \in Files
               PROVE  Recorded(f) <= 1 + restarts + Windows(clock)
      BY DEF BurstsAreDebounced, Recorded, Windows
  <2>1. /\ clock \in Nat \ {0} /\ restarts \in Nat /\ up \in BOOLEAN
        /\ Cardinality(Rows(f)) \in Nat
    BY RowsAreFew, LowContextAssumption DEF LowTypeInv, TypeOK, Times
  <2>2. \A t \in 1 .. clock : /\ Windows(t) \in Nat /\ Windows(clock) \in Nat
                              /\ Windows(t) <= Windows(clock)
    BY <2>1, WindowsGrow
  <2>3. QED
    BY <2>1, <2>2 DEF BurstInv, Starts, Recorded
<1>4. QED
  BY <1>1, <1>2, <1>3, PTL
-----------------------------------------------------------------------------
(* The query of the last note.  A CHOOSE of a maximum says something only of *)
(* a set that has one; a set of times does, because the times are bounded.   *)

LEMMA LeastNatural ==
    ASSUME NEW S \in SUBSET Nat, S # {}
    PROVE  \E n \in S : \A m \in S : n <= m
<1> DEFINE Less == {p \in Nat \X Nat : p[1] < p[2]}
<1>1. IsWellFoundedOn(Less, Nat)
  BY NatLessThanWellFounded DEF OpToRel
<1>2. PICK n \in S : \A m \in S : <<m, n>> \notin Less
  BY <1>1, WFMin
<1>3. \A m \in S : ~ (m < n)
  BY <1>2
<1>4. QED
  BY <1>3

LEMMA LatestTime ==
    ASSUME NEW S \in SUBSET Times, S # {}
    PROVE  \E t \in S : \A u \in S : u <= t
<1> USE LowContextAssumption DEF Times
<1> DEFINE B == {m \in Nat : \A u \in S : u <= m}
<1>1. B \in SUBSET Nat /\ MaxTime \in B
  OBVIOUS
<1>2. PICK t \in B : \A m \in B : t <= m
  BY <1>1, LeastNatural
<1>3. CASE t \in S
  BY <1>2, <1>3
<1>4. CASE t \notin S
  <2>1. \A u \in S : u <= t - 1
    BY <1>2, <1>4
  <2>2. PICK u \in S : TRUE
    OBVIOUS
  <2>3. u \in Nat /\ u <= t - 1 /\ t \in Nat
    BY <2>1
  <2>4. t - 1 \in B
    BY <2>1, <2>3
  <2>5. QED
    BY <1>2, <2>3, <2>4
<1>5. QED
  BY <1>3, <1>4

\* What MAX and COALESCE return.
Latest(S) == IF S = {} THEN 0 ELSE CHOOSE t \in S : \A u \in S : u <= t

LEMMA LatestIsLast ==
    ASSUME NEW S \in SUBSET Times
    PROVE  /\ Latest(S) \in Nat
           /\ S # {} => Latest(S) \in S
           /\ \A u \in S : u <= Latest(S)
<1>1. Times \subseteq Nat
  BY LowContextAssumption DEF Times
<1>2. CASE S = {}
  BY <1>2 DEF Latest
<1>3. CASE S # {}
  <2>1. \E t \in S : \A u \in S : u <= t
    BY <1>3, LatestTime
  <2>2. Latest(S) \in S /\ \A u \in S : u <= Latest(S)
    BY <1>3, <2>1 DEF Latest
  <2>3. QED
    BY <1>1, <2>2
<1>4. QED
  BY <1>2, <1>3

NoteTimes(f) == {n.at : n \in {m \in notes : m.file = f}}

LEMMA LastNoteIsLatest == \A f : LastNote(f) = Latest(NoteTimes(f))
  BY DEF LastNote, Latest, NoteTimes

\* More notes never make the last one earlier.
LEMMA LastNoteGrows ==
    ASSUME TypeOK, TypeOK', notes \subseteq notes', NEW f
    PROVE  LastNote(f) \in Nat /\ LastNote(f)' \in Nat /\ LastNote(f) <= LastNote(f)'
<1>1. NoteTimes(f) \subseteq Times /\ NoteTimes(f)' \subseteq Times
  BY DEF NoteTimes, TypeOK
<1>2. NoteTimes(f) \subseteq NoteTimes(f)'
  BY DEF NoteTimes
<1>3. LastNote(f) = Latest(NoteTimes(f)) /\ LastNote(f)' = Latest(NoteTimes(f)')
  BY LastNoteIsLatest DEF LastNote, Latest, NoteTimes
<1>4. CASE NoteTimes(f) = {}
  <2>1. Latest(NoteTimes(f)) = 0
    BY <1>4 DEF Latest
  <2>2. QED
    BY <1>1, <1>3, <2>1, LatestIsLast
<1>5. CASE NoteTimes(f) # {}
  BY <1>1, <1>2, <1>3, <1>5, LatestIsLast
<1>6. QED
  BY <1>4, <1>5

-----------------------------------------------------------------------------
(* The counts.  Late(f) are the rows that SavesSinceLastNote counts.         *)
Late(f) == {i \in Rows(f) : saves[i].at > LastNote(f)}

LEMMA LateFinite ==
    ASSUME TypeOK, NEW f
    PROVE  IsFiniteSet(Late(f))
<1>1. Late(f) \subseteq Rows(f)
  BY DEF Late
<1>2. QED
  BY <1>1, RowsAreFew, FS_Subset

\* The INSERT adds one row to the count of its own file, or none.
LEMMA RecordedSaveCounts ==
    ASSUME LowTypeInv, RecordFileSave, NEW f \in Files
    PROVE  \/ Late(f)' = Late(f)
           \/ /\ f = handling
              /\ Late(f)' = Late(f) \cup {Len(saves) + 1}
              /\ Len(saves) + 1 \notin Late(f)
              /\ Last(saves').file = f
<1>1. LastNote(f)' = LastNote(f)
  BY DEF RecordFileSave, LastNote
<1>2. saves \in Seq(SaveRow)
  BY DEF LowTypeInv, TypeOK, SaveRow
<1>3. PICK k : k = Len(saves) + 1
  OBVIOUS
<1>4. /\ Len(saves) \in Nat /\ DOMAIN saves = 1 .. Len(saves)
      /\ DOMAIN saves' = 1 .. k /\ Len(saves') = k
      /\ \A i \in 1 .. Len(saves) : saves'[i] = saves[i]
      /\ saves'[k].file = handling
  <2>1. /\ saves' = Append(saves, [file |-> handling, at |-> clock, has_note |-> FALSE])
        /\ [file |-> handling, at |-> clock, has_note |-> FALSE] \in SaveRow
    BY LowContextAssumption DEF RecordFileSave, LowTypeInv, TypeOK, SaveRow
  <2>2. QED
    BY <1>2, <1>3, <2>1
<1>5. DOMAIN saves' = DOMAIN saves \cup {k} /\ k \notin DOMAIN saves
  BY <1>3, <1>4
<1>6. Rows(f)' = IF f = handling THEN Rows(f) \cup {k} ELSE Rows(f)
  BY <1>4, <1>5 DEF Rows
<1>7. Rows(f) \subseteq 1 .. Len(saves)
  BY <1>4 DEF Rows
<1>8. Last(saves') = saves'[k]
  BY <1>4 DEF Last
<1>9. Late(f) = {i \in Rows(f) : saves[i].at > LastNote(f)}
  BY DEF Late
<1>10. Late(f)' = {i \in Rows(f)' : saves'[i].at > LastNote(f)}
  BY <1>1 DEF Late
<1>11. CASE f = handling
  <2>1. Late(f)' = Late(f) \/ Late(f)' = Late(f) \cup {k}
    BY <1>4, <1>6, <1>7, <1>9, <1>10, <1>11
  <2>2. k \notin Late(f)
    BY <1>4, <1>5, <1>7, <1>9
  <2>3. QED
    BY <1>3, <1>4, <1>8, <1>11, <2>1, <2>2
<1>12. CASE f # handling
  BY <1>4, <1>6, <1>7, <1>9, <1>10, <1>12
<1>13. QED
  BY <1>11, <1>12

\* A note takes rows from the count of its own file, and never adds one.
LEMMA InsertedNoteCounts ==
    ASSUME LowTypeInv, LowTypeInv', NEW n \in drafts, InsertIntent(n), NEW f \in Files
    PROVE  \/ Late(f)' = Late(f)
           \/ Late(f)' \subseteq Late(f) /\ n.file = f /\ n \in notes' \ notes
<1>1. notes' = notes \cup {n} /\ UNCHANGED saves
  BY DEF InsertIntent
<1>2. CASE n.file # f \/ n \in notes
  <2>1. {m \in notes' : m.file = f} = {m \in notes : m.file = f}
    BY <1>1, <1>2
  <2>2. LastNote(f)' = LastNote(f)
    <3>1. NoteTimes(f)' = NoteTimes(f)
      BY <2>1 DEF NoteTimes
    <3>2. LastNote(f) = Latest(NoteTimes(f)) /\ LastNote(f)' = Latest(NoteTimes(f)')
      BY LastNoteIsLatest DEF LastNote, Latest, NoteTimes
    <3>3. QED
      BY <3>1, <3>2
  <2>3. QED
    BY <1>1, <2>2 DEF Late, Rows
<1>3. CASE n.file = f /\ n \notin notes
  <2>1. LastNote(f) \in Nat /\ LastNote(f)' \in Nat /\ LastNote(f) <= LastNote(f)'
    BY <1>1, LastNoteGrows DEF LowTypeInv
  <2>2. \A i \in DOMAIN saves : saves[i].at \in Nat
    <3>1. saves \in Seq(SaveRow) /\ Times \subseteq Nat
      BY LowContextAssumption DEF LowTypeInv, TypeOK, SaveRow, Times
    <3>2. \A i \in DOMAIN saves : saves[i] \in SaveRow
      BY <3>1
    <3>3. QED
      BY <3>1, <3>2 DEF SaveRow
  <2>3. Rows(f)' = Rows(f) /\ Rows(f) \subseteq DOMAIN saves
    BY <1>1 DEF Rows
  <2>4. Late(f)' \subseteq Late(f)
    BY <1>1, <2>1, <2>2, <2>3 DEF Late
  <2>5. QED
    BY <1>1, <1>3, <2>4
<1>4. QED
  BY <1>2, <1>3

\* Of the three ways in which the rows that count can change, each has its
\* reason, and only the reading of the clock decides whether a save counts.
CountsChangeFor(f) ==
    /\ SavesSinceLastNote(f)' > SavesSinceLastNote(f) =>
          /\ SavesSinceLastNote(f)' = SavesSinceLastNote(f) + 1
          /\ Last(saves').file = f
    /\ SavesSinceLastNote(f)' < SavesSinceLastNote(f) =>
          \E n \in notes' \ notes : n.file = f

LEMMA CountsStep ==
    ASSUME LowTypeInv, LowTypeInv', [Next]_vars, NEW f \in Files
    PROVE  CountsChangeFor(f)
<1>1. /\ SavesSinceLastNote(f) = Cardinality(Late(f))
      /\ SavesSinceLastNote(f)' = Cardinality(Late(f)')
  BY DEF SavesSinceLastNote, Late
<1>2. IsFiniteSet(Late(f)) /\ Cardinality(Late(f)) \in Nat
  BY LateFinite, FS_CardinalityType DEF LowTypeInv
<1>3. CASE Late(f)' = Late(f)
  BY <1>1, <1>2, <1>3 DEF CountsChangeFor
<1>4. CASE RecordFileSave
  <2>1. CASE /\ Late(f)' = Late(f) \cup {Len(saves) + 1}
             /\ Len(saves) + 1 \notin Late(f)
             /\ Last(saves').file = f
    <3>1. Cardinality(Late(f)') = Cardinality(Late(f)) + 1
      BY <1>2, <2>1, FS_AddElement
    <3>2. QED
      BY <1>1, <1>2, <2>1, <3>1 DEF CountsChangeFor
  <2>2. QED
    BY <1>3, <1>4, <2>1, RecordedSaveCounts
<1>5. ASSUME NEW n \in drafts, InsertIntent(n)
      PROVE  CountsChangeFor(f)
  <2>1. CASE Late(f)' \subseteq Late(f) /\ n.file = f /\ n \in notes' \ notes
    <3>1. /\ Cardinality(Late(f)') \in Nat
          /\ Cardinality(Late(f)') <= Cardinality(Late(f))
      BY <1>2, <2>1, FS_Subset, FS_CardinalityType
    <3>2. QED
      BY <1>1, <1>2, <2>1, <3>1 DEF CountsChangeFor
  <2>2. QED
    BY <1>3, <1>5, <2>1, InsertedNoteCounts
<1>6. CASE UNCHANGED <<saves, notes>>
  <2>1. LastNote(f)' = LastNote(f)
    BY <1>6 DEF LastNote
  <2>2. Late(f)' = Late(f)
    BY <1>6, <2>1 DEF Late, Rows
  <2>3. QED
    BY <1>3, <2>2
<1>7. \/ RecordFileSave
      \/ \E n \in drafts : InsertIntent(n)
      \/ UNCHANGED <<saves, notes>>
  BY DEF Next, Tick, Write, BuildIntent, HandleEvent, RecordFileSaveFails, ReadCounts,
         ReadNoteTimes, CacheResults, ScanFails, StopDaemon, StartDaemon, tables, vars
<1>8. QED
  BY <1>4, <1>5, <1>6, <1>7

(* The count of a file goes up only by its own next save and down only by a  *)
(* note of its own (file_saves.go 18-69), whatever restarts, late inserts    *)
(* and late notes there are.                                                 *)
THEOREM CountsCorrect == Spec => CountsFollowSavesAndNotes
<1>1. LowTypeInv /\ LowTypeInv' /\ [Next]_vars => [\A f \in Files : CountsChangeFor(f)]_vars
  BY CountsStep
<1>2. [\A f \in Files : CountsChangeFor(f)]_vars =>
        [\A f \in Files :
            /\ SavesSinceLastNote(f)' > SavesSinceLastNote(f) =>
                  /\ SavesSinceLastNote(f)' = SavesSinceLastNote(f) + 1
                  /\ Last(saves').file = f
            /\ SavesSinceLastNote(f)' < SavesSinceLastNote(f) =>
                  \E n \in notes' \ notes : n.file = f]_vars
  BY DEF CountsChangeFor
<1>3. QED
  BY <1>1, <1>2, LowTypeInvInit, LowTypeInvStep, PTL DEF Spec, CountsFollowSavesAndNotes
=============================================================================
