------------------------------ MODULE HookFile ------------------------------
(* The post-commit hook as a sequence of lines: what installing, upgrading   *)
(* and uninstalling make of it (src/internal/git/hooks.go).  A line is one   *)
(* of the block's (its markers and its body, of this or of an older          *)
(* release), a blank one, the shebang, or the user's own.                    *)
EXTENDS Integers, Sequences

CONSTANTS UserLines,   \* the commands of the user's own in the hook
          NoFile       \* there is no file at the path

Ours == {"start", "old body", "body", "end"}
Neutral == {"blank", "sh"}
Lines == Ours \cup Neutral \cup UserLines

ASSUME HookAssumption == /\ UserLines \cap (Ours \cup Neutral) = {}
                         /\ NoFile \notin Seq(Lines)

Block == <<"start", "body", "end">>   \* synthHookBlock

(* The first line of that kind, 0 when there is none: strings.Index. *)
At(file, line) ==
    IF \E i \in DOMAIN file : file[i] = line
    THEN CHOOSE i \in DOMAIN file : /\ file[i] = line
                                    /\ \A j \in 1 .. i - 1 : file[j] # line
    ELSE 0

UpTo(file, i) == SubSeq(file, 1, i)
From(file, i) == SubSeq(file, i, Len(file))

\* mutant: what is behind the end marker is not kept.
ReplaceToTheEnd(file) ==
    IF At(file, "start") = 0 \/ At(file, "end") = 0
    THEN file
    ELSE UpTo(file, At(file, "start") - 1) \o Block

(* From the first start marker to the first end marker, wherever these are.  *)
ReplaceSynthBlock(file) ==
    IF At(file, "start") = 0 \/ At(file, "end") = 0
    THEN file
    ELSE UpTo(file, At(file, "start") - 1) \o Block
            \o From(file, At(file, "end") + 1)

\* mutant: the block is appended whatever the file holds.
AppendAlways(file) ==
    CASE file = NoFile -> <<"sh">> \o Block
      [] file = <<>> -> <<"blank", "blank">> \o Block
      [] OTHER -> file \o <<"blank">> \o Block

(* InstallPostCommitHook: write the template, append the block, or upgrade.  *)
(* An empty file gets the newline that it does not end with.                 *)
Installed(file) ==
    CASE file = NoFile -> <<"sh">> \o Block
      [] file = <<>> -> <<"blank", "blank">> \o Block
      [] file # NoFile /\ file # <<>> /\ At(file, "start") = 0 ->
            file \o <<"blank">> \o Block
      [] OTHER -> ReplaceSynthBlock(file)

(* strings.TrimRight and TrimLeft of newlines. *)
WithoutLastBlanks(file) ==
    LET used == {i \in DOMAIN file : file[i] # "blank"}
    IN IF used = {} THEN <<>>
       ELSE UpTo(file, CHOOSE i \in used : \A j \in used : j <= i)

WithoutFirstBlanks(file) ==
    LET used == {i \in DOMAIN file : file[i] # "blank"}
    IN IF used = {} THEN <<>>
       ELSE From(file, CHOOSE i \in used : \A j \in used : i <= j)

RemoveSynthBlock(file) ==
    IF At(file, "start") = 0 \/ At(file, "end") = 0
    THEN file
    ELSE WithoutLastBlanks(UpTo(file, At(file, "start") - 1))
            \o WithoutFirstBlanks(From(file, At(file, "end") + 1))

(* UninstallHook: no file is left when nothing but the shebang would remain. *)
Uninstalled(file) ==
    LET rest == RemoveSynthBlock(file)
    IN IF file = NoFile \/ At(file, "start") = 0 THEN file
       ELSE IF WithoutFirstBlanks(WithoutLastBlanks(rest)) \in {<<>>, <<"sh">>}
            THEN NoFile
            ELSE rest
=============================================================================
