---------------------------- MODULE ProjectInit ----------------------------
(* `synth init' (src/internal/cli/init.go, config/config.go, git/hooks.go):  *)
(* the check, the directory, the config file, the database, the hook and     *)
(* .gitignore, each a system call of its own, of which any may fail or be    *)
(* the last before a crash.  The hook and .gitignore are read, truncated and *)
(* written again.  What the user does to them between two inits is here too. *)
EXTENDS HookFile, FiniteSets

CONSTANTS MaxInits,      \* bound: how often init is run
          MaxCrashes,    \* bound: how often it is killed
          MaxUserActs    \* bound: what the user does between

ASSUME InitAssumption == {MaxInits, MaxCrashes, MaxUserActs} \subseteq Nat

Files == {"hook", "ignore"}   \* .git/hooks/post-commit and .gitignore

VARIABLES synthDir,    \* does .synth/ exist?
          config,      \* .synth/config.toml: the id in it, 0 while it is empty
          databases,   \* the ids that have a database under ~/.synth
          content,     \* the lines of each of Files
          step,        \* what the init does next, "idle" when there is none
          id,          \* the project id of the last init, 0 if it was refused
          loaded,      \* the file that it has read and will write again
          outcome,     \* how it ended
          warned,      \* did it warn that the hook could not be installed?
          userHook,    \* the user's own lines of the hook, in order
          torn,        \* files that were truncated and not written again
          edited,      \* did the user touch the markers in the hook?
          inits, crashes, userActs

initFiles == <<synthDir, config, databases>>
userFiles == <<content, userHook, torn, edited>>
initRun == <<id, loaded, outcome, warned>>
counters == <<inits, crashes, userActs>>
projectVars == <<initFiles, userFiles, step, initRun, counters>>

Steps == {"idle", "mkdir", "create", "write", "open", "read hook", "truncate hook",
          "fill hook", "read ignore", "truncate ignore", "fill ignore", "done"}

\* A hook that is there already: the user's, or one of an older release.
OldHooks == {NoFile} \cup {<<"sh", u>> : u \in UserLines}
               \cup {<<"sh", u, "blank", "start", "old body", "end">> : u \in UserLines}

ProjectInit == /\ synthDir = FALSE
               /\ config = NoFile
               /\ databases = {}
               /\ \E old \in OldHooks :
                     /\ content = [f \in Files |-> IF f = "hook" THEN old ELSE <<"pattern">>]
                     /\ userHook = IF old = NoFile THEN <<>> ELSE <<old[2]>>
               /\ step = "idle"
               /\ id = 0
               /\ loaded = <<>>
               /\ outcome = "none"
               /\ warned = FALSE
               /\ torn = {}
               /\ edited = FALSE
               /\ inits = 0 /\ crashes = 0 /\ userActs = 0

End(how) == step' = "idle" /\ loaded' = <<>> /\ outcome' = how

-----------------------------------------------------------------------------
(* The check of step 2 comes before the first write; the id is a new one.    *)
BeginInit == /\ step = "idle"
             /\ inits < MaxInits
             /\ inits' = inits + 1
             /\ IF config = NoFile THEN step' = "mkdir" /\ id' = inits + 1
                                   ELSE step' = "done" /\ id' = 0
             /\ outcome' = "none"
             /\ warned' = FALSE
             /\ UNCHANGED <<initFiles, userFiles, loaded, crashes, userActs>>

MakeSynthDir == /\ step = "mkdir"
                /\ synthDir' = TRUE
                /\ step' = "create"
                /\ UNCHANGED <<config, databases, userFiles, initRun, counters>>

(* SaveProjectConfig: os.Create truncates, Fprintf writes. *)
CreateConfig == /\ step = "create"
                /\ config' = 0
                /\ step' = "write"
                /\ UNCHANGED <<synthDir, databases, userFiles, initRun, counters>>

WriteConfig == /\ step = "write"
               /\ config' = id
               /\ step' = "open"
               /\ UNCHANGED <<synthDir, databases, userFiles, initRun, counters>>

\* store.Open and Close; the schema is the matter of Migrations.
OpenStore == /\ step = "open"
             /\ databases' = databases \cup {id}
             /\ step' = "read hook"
             /\ UNCHANGED <<synthDir, config, userFiles, initRun, counters>>

\* The global directories or .synth/ cannot be made: nothing is cleaned up.
FailEarly == /\ step = "mkdir"
             /\ End("not begun")
             /\ UNCHANGED <<initFiles, userFiles, id, warned, counters>>

\* mutant: an error of the database leaves the directory there
FailUncleaned == /\ step \in {"create", "write", "open"}
                 /\ End("failed")
                 /\ UNCHANGED <<initFiles, userFiles, id, warned, counters>>

(* cleanup: os.RemoveAll(.synth) *)
Fail == /\ step \in {"create", "write", "open"}
        /\ End("failed")
        /\ synthDir' = FALSE
        /\ config' = NoFile
        /\ UNCHANGED <<databases, userFiles, id, warned, counters>>

-----------------------------------------------------------------------------
(* The hook and .gitignore are rewritten in the same way.                    *)
Rewrite == [f \in Files |->
    IF f = "hook"
    THEN [read |-> "read hook", truncate |-> "truncate hook", fill |-> "fill hook",
          next |-> "read ignore"]
    ELSE [read |-> "read ignore", truncate |-> "truncate ignore",
          fill |-> "fill ignore", next |-> "done"]]

\* ensureGitignoreEntry; the user's patterns are one line.
WithEntry(file) == IF At(file, "synth") # 0 THEN file ELSE Append(file, "synth")

NewContent(f) == IF f = "hook" THEN Installed(loaded) ELSE WithEntry(loaded)

ReadFile(f) == /\ step = Rewrite[f].read
               /\ loaded' = content[f]
               /\ step' = Rewrite[f].truncate
               /\ UNCHANGED <<initFiles, userFiles, id, outcome, warned, counters>>

\* os.WriteFile opens with O_TRUNC ...
TruncateFile(f) == /\ step = Rewrite[f].truncate
                   /\ content' = [content EXCEPT ![f] = <<>>]
                   /\ step' = Rewrite[f].fill
                   /\ UNCHANGED <<initFiles, userHook, torn, edited, initRun, counters>>

\* ... and writes afterwards.
FillFile(f) == /\ step = Rewrite[f].fill
               /\ content' = [content EXCEPT ![f] = NewContent(f)]
               /\ loaded' = <<>>
               /\ step' = Rewrite[f].next
               /\ UNCHANGED <<initFiles, userHook, torn, edited, id, outcome, warned,
                              counters>>

(* A file that cannot be read or written is a warning, and no more: also if  *)
(* it was truncated by then.  The entry in .gitignore may not be wanted,     *)
(* or be there already.                                                      *)
SkipFile(f) == /\ step \in {Rewrite[f].read, Rewrite[f].truncate, Rewrite[f].fill}
               /\ torn' = IF step = Rewrite[f].fill THEN torn \cup {f} ELSE torn
               /\ warned' = (warned \/ f = "hook")
               /\ loaded' = <<>>
               /\ step' = Rewrite[f].next
               /\ UNCHANGED <<initFiles, content, userHook, edited, id, outcome, counters>>

\* Step 12, or "already initialized".
EndInit == /\ step = "done"
           /\ End(IF id = 0 THEN "refused" ELSE "ok")
           /\ UNCHANGED <<initFiles, userFiles, id, warned, counters>>

CrashInit == /\ step # "idle"
             /\ crashes < MaxCrashes
             /\ crashes' = crashes + 1
             /\ torn' = torn \cup {f \in Files : step = Rewrite[f].fill}
             /\ End("none")
             /\ UNCHANGED <<initFiles, content, userHook, edited, id, warned, inits,
                            userActs>>

-----------------------------------------------------------------------------
(* The user, while no init runs. *)
UserActs == /\ step = "idle"
            /\ userActs < MaxUserActs
            /\ userActs' = userActs + 1
            /\ outcome' = "none"
            /\ UNCHANGED <<step, id, loaded, warned, inits, crashes>>

AddUserLine(u) ==
    /\ UserActs
    /\ content["hook"] # NoFile
    /\ \/ /\ content' = [content EXCEPT !["hook"] = Append(@, u)]
          /\ userHook' = Append(userHook, u)
       \/ /\ content' = [content EXCEPT !["hook"] = <<u>> \o @]
          /\ userHook' = <<u>> \o userHook
    /\ UNCHANGED <<initFiles, torn, edited>>

\* In the face of "do not edit this block manually".
CutMarker(m) ==
    /\ UserActs
    /\ content["hook"] # NoFile
    /\ At(content["hook"], m) # 0
    /\ content' = [content EXCEPT !["hook"] = UpTo(@, At(@, m) - 1) \o From(@, At(@, m) + 1)]
    /\ edited' = TRUE
    /\ UNCHANGED <<initFiles, userHook, torn>>

\* So that the project can be initialised again.
RemoveProject == /\ UserActs
                 /\ synthDir
                 /\ synthDir' = FALSE
                 /\ config' = NoFile
                 /\ UNCHANGED <<databases, userFiles>>

\* The function is there and tested; no command of this release calls it.
UninstallHook == /\ UserActs
                 /\ content' = [content EXCEPT !["hook"] = Uninstalled(@)]
                 /\ UNCHANGED <<initFiles, userHook, torn, edited>>

-----------------------------------------------------------------------------
InitStep == \/ MakeSynthDir \/ CreateConfig \/ WriteConfig \/ OpenStore
            \/ FailEarly \/ Fail \/ EndInit
            \/ \E f \in Files : ReadFile(f) \/ TruncateFile(f) \/ FillFile(f) \/ SkipFile(f)

UserStep == \/ \E u \in UserLines : AddUserLine(u)
            \/ \E m \in {"start", "end"} : CutMarker(m)
            \/ RemoveProject \/ UninstallHook

ProjectNext == BeginInit \/ InitStep \/ CrashInit \/ UserStep

ProjectSpec == ProjectInit /\ [][ProjectNext]_projectVars

-----------------------------------------------------------------------------
Occurrences(file, line) == {i \in DOMAIN file : file[i] = line}

UserAt(file) == IF file = NoFile THEN {} ELSE {i \in DOMAIN file : file[i] \in UserLines}

\* These are the user's lines of the file, each once and in their order.
UserLinesAre(file, lines) ==
    /\ Len(lines) = Cardinality(UserAt(file))
    /\ \A i \in UserAt(file) : file[i] = lines[Cardinality({j \in UserAt(file) : j <= i})]

(* "From this point, any failure must clean up" (init.go 132): an init that  *)
(* failed after it leaves no project behind, so that it can be run again;    *)
(* after one that reported success the commands find its own project, which  *)
(* has a database.  What an earlier, killed init left makes no difference.   *)
InitIsAllOrNothing ==
    /\ outcome = "failed" => ~ synthDir /\ config = NoFile
    /\ outcome = "ok" => synthDir /\ config = id /\ id \in databases

(* Installing, upgrading and uninstalling keep the user's own lines of the   *)
(* hook, each once and in their order, and the patterns of .gitignore, as    *)
(* long as no rewrite was cut off between truncation and writing.  A user    *)
(* who edited the markers may find lines doubled, and none lost.             *)
UserLinesSurvive ==
    /\ "hook" \notin torn /\ step # "fill hook" =>
          IF edited
          THEN \A i \in DOMAIN userHook : Occurrences(content["hook"], userHook[i]) # {}
          ELSE UserLinesAre(content["hook"], userHook)
    /\ "ignore" \notin torn /\ step # "fill ignore" =>
          Occurrences(content["ignore"], "pattern") # {}

(* However often, and after whatever crash, the hook is installed, git runs  *)
(* synth once for a commit: there is at most one block, and it is whole.     *)
(* After an init that did not warn there is one, and it is this release's.   *)
OneWholeBlock ==
    LET file == content["hook"]
    IN ~ edited /\ file # NoFile =>
          /\ \A i \in Occurrences(file, "start") :
                /\ Occurrences(file, "start") = {i}
                /\ Occurrences(file, "end") = {i + 2}
                /\ file[i + 1] \in {"body", "old body"}
          /\ outcome = "ok" /\ ~ warned =>
                Occurrences(file, "start") # {} /\ Occurrences(file, "body") # {}
=============================================================================
