------------------------------ MODULE Queries ------------------------------
(* The commands that read: `synth log', `synth status' (cli/log.go) and      *)
(* `synth search' (cli/search.go, search/search.go), the handler of the      *)
(* daemon that answers them (daemon/search_handler.go) and the queries of    *)
(* the store (store/intents.go, store/embeddings.go).  Notes are saved and   *)
(* embedded meanwhile, and the one daemon of the machine serves the          *)
(* repository that it was started in.  A note is known by its timestamp in   *)
(* milliseconds, one note to each; a command asks for one query, which a     *)
(* note matches or not, by its words and by its meaning alike.  Commands     *)
(* change nothing, so a behaviour has one of them.                           *)
EXTENDS Integers, FiniteSets, Sequences, FiniteSetsExt

CONSTANTS Projects, Paths,
          None,           \* no project, no filter
          DefaultLimit,   \* of ListIntents: 20
          MsPerSecond,    \* milliseconds in a second: 1000
          MaxLimit,       \* bound: the limits that are asked for
          MaxNotes        \* bound: how many notes are saved

ASSUME QueriesAssumption == /\ None \notin Projects /\ None \notin Paths
                            /\ {DefaultLimit, MaxLimit, MsPerSecond} \subseteq Nat \ {0}
                            /\ MaxNotes \in Nat

VARIABLES notes,      \* all projects' notes, oldest first
          embedded,   \* those that have a vector
          daemon,     \* "off", or the project it serves: None outside of all
          ask,        \* the command that runs
          next,       \* its next step, "done" when its answer is printed
          reply       \* what it has gathered

queryVars == <<notes, embedded, daemon, ask, next, reply>>

Note == [project : Projects, file : Paths, matches : BOOLEAN]
Ask == [project : Projects \cup {None}, file : Paths \cup {None}, since : 0 .. MaxNotes,
        limit : 0 .. MaxLimit, command : {"log", "status", "search"}]

\* shown: the notes listed; total, last: the two lines of status; of: whose notes
\* or low-context files they are; known: the notes that a complete answer has.
NoReply == [shown |-> {}, total |-> 0, last |-> 0, of |-> None, known |-> {}]

QueriesInit == /\ notes = <<>>
               /\ embedded = {}
               /\ daemon = "off"
               /\ ask = [project |-> None, file |-> None, since |-> 0, limit |-> 0,
                         command |-> "log"]
               /\ next = "idle"
               /\ reply = NoReply

-----------------------------------------------------------------------------
(* The store *)
Rows(p) == {i \in DOMAIN notes : notes[i].project = p}
OfFile(f) == {i \in DOMAIN notes : f \in {notes[i].file, None}}
Hits(p) == {i \in Rows(p) : notes[i].matches}

Newest(S, n) == {i \in S : Cardinality({j \in S : j > i}) < n}

\* timestamp >= since, in SQL
ListIntents(p, f, since, limit) ==
    Newest({i \in Rows(p) \cap OfFile(f) : i >= since},
           IF limit <= 0 THEN DefaultLimit ELSE limit)

GetRecentIntents(p, limit) == ListIntents(p, None, 0, limit)
CountIntents(p) == Cardinality(Rows(p))

\* The most relevant ones, by a ranking that may be any.
Best(S, n) == kSubset(IF n < Cardinality(S) THEN n ELSE Cardinality(S), S)

\* mutant: the hits of every project are cut to the limit, and filtered then
SearchFTSUnscoped(p, limit) ==
    {H \cap Rows(p) : H \in Best({i \in DOMAIN notes : notes[i].matches}, limit)}

SearchFTS(p, limit) == Best(Hits(p), limit)

GetAllEmbeddings(p) == embedded \cap Rows(p)

-----------------------------------------------------------------------------
(* Meanwhile *)
SaveNote(note) == /\ next # "done"
                  /\ Len(notes) < MaxNotes
                  /\ notes' = Append(notes, note)
                  /\ UNCHANGED <<embedded, daemon, ask, next, reply>>

EmbedNote == /\ next \in {"idle", "search", "rows"}
             /\ daemon \in Projects
             /\ \E i \in Rows(daemon) \ embedded : embedded' = embedded \cup {i}
             /\ UNCHANGED <<notes, daemon, ask, next, reply>>

\* A daemon that ends under a command is HandlerFails, or one that answers not.
StartElsewhere == /\ next = "idle"
                  /\ daemon' \in (Projects \cup {None, "off"}) \ {daemon}
                  /\ UNCHANGED <<notes, embedded, ask, next, reply>>

-----------------------------------------------------------------------------
(* The commands *)
Begin(command, p, f, since, limit, step) ==
    /\ next = "idle"
    /\ ask' = [project |-> p, file |-> f, since |-> since, limit |-> limit,
               command |-> command]
    /\ next' = step
    /\ reply' = [NoReply EXCEPT !.known = Rows(p)]
    /\ UNCHANGED <<notes, embedded, daemon>>

\* --all is a limit of 0.
AskLog(p, f, since, limit) == Begin("log", p, f, since, limit, "log")
AskStatus(p) == Begin("status", p, None, 0, 0, "low context")
AskSearch(p, f, since, limit) == Begin("search", p, f, since, limit, "search")

Gathers(from, to, gathered) == /\ next = from
                               /\ next' = to
                               /\ reply' = gathered
                               /\ UNCHANGED <<notes, embedded, daemon, ask>>

RunLog ==
    Gathers("log", "done",
            [reply EXCEPT !.of = ask.project,
                          !.shown = ListIntents(ask.project, ask.file, ask.since, ask.limit)])

(* status: four reads, each on its own.  The list of low-context files is    *)
(* the daemon's if there is one that answers.                                *)
StatusLowContext ==
    \E p \in {ask.project} \cup ({daemon} \ {"off"}) :
       Gathers("low context", "count", [reply EXCEPT !.of = p])

\* mutant: the notes of the machine are counted
StatusCountAll == Gathers("count", "recent", [reply EXCEPT !.total = Len(notes)])

StatusCount == Gathers("count", "recent", [reply EXCEPT !.total = CountIntents(ask.project)])

StatusRecent == \E newest \in {GetRecentIntents(ask.project, 1)} :
                   Gathers("recent", "list",
                           [reply EXCEPT !.last = IF newest = {} THEN 0 ELSE Max(newest)])

\* buildFileSummary counts them by file.
StatusList ==
    Gathers("list", "done",
            [reply EXCEPT !.shown = ListIntents(ask.project, None, 0, MaxNotes)])

SearchLimit == IF ask.limit <= 0 THEN 10 ELSE ask.limit

(* searchFTS5: what the limit left is filtered, by a time strictly after.    *)
SearchKeyword ==
    \E hits \in SearchFTS(ask.project, SearchLimit) :
       Gathers("search", "done",
               [reply EXCEPT !.of = ask.project,
                             !.shown = {i \in hits \cap OfFile(ask.file) : i > ask.since}])

(* SearchHandler.Handle: the vectors of the daemon's project, whichever the  *)
(* request comes from, cut to the limit ...                                  *)
HandleVectors ==
    /\ daemon \in Projects
    /\ \E hits \in Best(GetAllEmbeddings(daemon) \cap Hits(daemon), SearchLimit) :
          Gathers("search", "rows",
                  [reply EXCEPT !.of = daemon, !.shown = hits,
                                !.known = @ \cap GetAllEmbeddings(daemon)])

\* searchSemantic sends the time as RFC 3339, which has no fractions of a second.
Truncate(time) == time - (time % MsPerSecond)

(* ... and their rows, filtered by the time that was sent. *)
HandleRows ==
    Gathers("rows", "done",
            [reply EXCEPT !.shown = {i \in @ \cap OfFile(ask.file) : i >= Truncate(ask.since)}])

\* The daemon fails in between, and the command asks the store.
HandlerFails == Gathers("rows", "search", [NoReply EXCEPT !.known = Rows(ask.project)])

-----------------------------------------------------------------------------
CommandStep == \/ RunLog
               \/ StatusLowContext \/ StatusCount \/ StatusRecent \/ StatusList
               \/ SearchKeyword \/ HandleVectors \/ HandleRows \/ HandlerFails

QueriesNext ==
    \/ \E note \in Note : SaveNote(note)
    \/ EmbedNote \/ StartElsewhere
    \/ \E p \in Projects, f \in Paths \cup {None}, since \in 0 .. MaxNotes,
          limit \in 0 .. MaxLimit :
          AskLog(p, f, since, limit) \/ AskSearch(p, f, since, limit)
    \/ \E p \in Projects : AskStatus(p)
    \/ CommandStep

QueriesSpec == QueriesInit /\ [][QueriesNext]_queryVars

-----------------------------------------------------------------------------
QueriesTypeOK == /\ notes \in Seq(Note)
                 /\ embedded \subseteq DOMAIN notes
                 /\ daemon \in Projects \cup {None, "off"}
                 /\ ask \in Ask
                 /\ next \in {"idle", "log", "low context", "count", "recent", "list",
                              "search", "rows", "done"}
                 /\ reply.shown \subseteq DOMAIN notes

Done(command) == next = "done" /\ ask.command = command

(* status reads the store three times while notes are saved: what it prints  *)
(* still fits together.  The total is no more than the files' counts add up  *)
(* to, and the last note is counted, with at least total - 1 before it.      *)
StatusAddsUp ==
    Done("status") =>
        /\ reply.known \subseteq reply.shown
        /\ Cardinality(reply.known) <= reply.total
        /\ reply.total <= Cardinality({i \in reply.shown : i <= reply.last})
        /\ reply.last # 0 => reply.last \in reply.shown

(* A search of the notes of one's own repository, by meaning or by words,    *)
(* shows only hits in the file asked for, and none from before the second in *)
(* which --since lies; unless there are more hits than the limit, from       *)
(* whatever file and time, it misses none that was there (and had its        *)
(* vector) when it was asked.                                                *)
SearchLosesOnlyToTheLimit ==
    Done("search") /\ reply.of = ask.project =>
        /\ reply.shown \subseteq Hits(ask.project) \cap OfFile(ask.file)
        /\ \A i \in reply.shown : i >= Truncate(ask.since)
        /\ Cardinality(reply.shown) <= SearchLimit
        /\ Cardinality(Hits(ask.project)) <= SearchLimit =>
              {i \in reply.known \cap Hits(ask.project) \cap OfFile(ask.file) : i > ask.since}
                 \subseteq reply.shown

(* "Display a summary of intent notes recorded in this repository including  *)
(* files worked on and low context files" (cli/log.go 183): not those of     *)
(* another repository.                                                       *)
StatusOfThisRepository == Done("status") => reply.of = ask.project
=============================================================================
