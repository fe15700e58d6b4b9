----------------------------- MODULE MCCommands -----------------------------
(* What the commands do to files and to the database, with or without a      *)
(* daemon beside them: open the store, init, download the model, write the   *)
(* daemon's log, read.  None of these looks at what another one writes (the  *)
(* readers start with a schema that is there), so one of them runs in a      *)
(* behaviour and the others stand still.                                     *)
EXTENDS Migrations, ProjectInit, ModelDownload, DaemonLog, Queries, TLC

VARIABLE part

vars == <<part, migrationVars, projectVars, downloadVars, logVars, queryVars>>

Init == /\ part \in {"open", "init", "download", "log", "queries"}
        /\ MigrationsInit /\ ProjectInit /\ DownloadInit /\ LogInit /\ QueriesInit
        /\ part # "open" => applied = {}
        /\ part # "init" => content["hook"] = NoFile

Next == \/ /\ part = "open"
           /\ MigrationsNext
           /\ UNCHANGED <<part, projectVars, downloadVars, logVars, queryVars>>
        \/ /\ part = "init"
           /\ ProjectNext
           /\ UNCHANGED <<part, migrationVars, downloadVars, logVars, queryVars>>
        \/ /\ part = "download"
           /\ DownloadNext
           /\ UNCHANGED <<part, migrationVars, projectVars, logVars, queryVars>>
        \/ /\ part = "log"
           /\ LogNext
           /\ UNCHANGED <<part, migrationVars, projectVars, downloadVars, queryVars>>
        \/ /\ part = "queries"
           /\ QueriesNext
           /\ UNCHANGED <<part, migrationVars, projectVars, downloadVars, logVars>>

Spec == Init /\ [][Next]_vars

Symmetry == Permutations(Projects) \cup Permutations(Paths)
=============================================================================
