--------------------------- MODULE ModelDownload ---------------------------
(* `synth model download' (src/internal/cli/model.go, embed/download.go):    *)
(* each file of the model is copied to <name>.tmp and renamed when it is     *)
(* whole.  Nothing keeps two downloads, from two terminals, apart: they      *)
(* write to one .tmp.  A file is the set of its chunks that were written: a  *)
(* chunk goes to its own place, whatever was cut off before it.              *)
EXTENDS Integers

CONSTANTS Downloaders,    \* processes
          FileCount,      \* how many files the model has
          ChunkCount,     \* how many chunks a file has
          MaxDownloads    \* bound: how many downloads are begun

ASSUME DownloadAssumption == /\ {FileCount, ChunkCount} \subseteq Nat \ {0}
                             /\ MaxDownloads \in Nat

ModelFiles == 1 .. FileCount
Chunks == 1 .. ChunkCount

VARIABLES final,      \* the files in place: name -> chunks
          tmp,        \* the .tmp files: name -> chunks
          does,       \* what each download does next
          file,       \* the file that it is at
          force,      \* was it started with --force?
          copied,     \* how many chunks it has copied
          handle,     \* what its open file is called by now
          finished,   \* did a download report success?
          beside,     \* the downloads that have run beside another one
          cut,        \* was one of those cut off in its copy?
          downloads

disk == <<final, tmp>>
loop == <<does, file, force, copied, handle>>
history == <<finished, beside, cut>>
downloadVars == <<disk, loop, history, downloads>>

Partial == UNION {[names -> SUBSET Chunks] : names \in SUBSET ModelFiles}
Put(files, f, chunks) == [g \in DOMAIN files \cup {f} |-> IF g = f THEN chunks ELSE files[g]]
Drop(files, f) == [g \in DOMAIN files \ {f} |-> files[g]]

DownloadTypeOK == /\ final \in Partial /\ tmp \in Partial
                  /\ does \in [Downloaders -> {"nothing", "stat", "get", "copy", "rename"}]
                  /\ file \in [Downloaders -> 1 .. FileCount + 1]
                  /\ force \in [Downloaders -> BOOLEAN]
                  /\ copied \in [Downloaders -> 0 .. ChunkCount]
                  /\ handle \in [Downloaders -> {"closed", "tmp", "final", "gone"}]
                  /\ {finished, cut} \subseteq BOOLEAN
                  /\ beside \subseteq Downloaders
                  /\ downloads \in 0 .. MaxDownloads

DownloadInit == /\ final = [f \in {} |-> {}] /\ tmp = [f \in {} |-> {}]
                /\ does = [p \in Downloaders |-> "nothing"]
                /\ file = [p \in Downloaders |-> 1]
                /\ force = [p \in Downloaders |-> FALSE]
                /\ copied = [p \in Downloaders |-> 0]
                /\ handle = [p \in Downloaders |-> "closed"]
                /\ finished = FALSE
                /\ beside = {}
                /\ cut = FALSE
                /\ downloads = 0

Does(p, what) == does' = [does EXCEPT ![p] = what]
Downloading(p) == does[p] # "nothing"

(* os.Stat: it is there and not empty, which does not mean that it is whole. *)
LooksComplete(f) == f \in DOMAIN final /\ final[f] # {}
IsModelComplete == \A f \in ModelFiles : LooksComplete(f)

(* The names of open files follow a rename and a removal of f. *)
HandlesOf(f, now) ==
    [p \in Downloaders |-> IF file[p] = f THEN now[handle[p]] ELSE handle[p]]

Over(p) == /\ Does(p, "nothing")
           /\ file' = [file EXCEPT ![p] = 1]
           /\ force' = [force EXCEPT ![p] = FALSE]
           /\ copied' = [copied EXCEPT ![p] = 0]
           /\ beside' = beside \ {p}

-----------------------------------------------------------------------------
BeginDownload(p, forced) ==
    /\ ~ Downloading(p)
    /\ downloads < MaxDownloads
    /\ forced \/ ~ IsModelComplete
    /\ downloads' = downloads + 1
    /\ Does(p, "stat")
    /\ force' = [force EXCEPT ![p] = forced]
    /\ beside' = LET others == {q \in Downloaders \ {p} : Downloading(q)}
                 IN IF others = {} THEN beside ELSE beside \cup others \cup {p}
    /\ UNCHANGED <<disk, file, copied, handle, finished, cut>>

StatFile(p) == /\ does[p] = "stat"
               /\ file[p] \in ModelFiles
               /\ IF ~ force[p] /\ LooksComplete(file[p])
                  THEN /\ file' = [file EXCEPT ![p] = @ + 1]
                       /\ UNCHANGED does
                  ELSE /\ Does(p, "get")
                       /\ UNCHANGED file
               /\ UNCHANGED <<disk, force, copied, handle, history, downloads>>

\* No connection, another status than 200, or no file can be made.
GetFails(p) == /\ does[p] = "get"
               /\ Over(p)
               /\ UNCHANGED <<disk, handle, finished, cut, downloads>>

(* os.Create truncates the file that is there, another download's too. *)
CreateTmp(p) == /\ does[p] = "get"
                /\ tmp' = Put(tmp, file[p], {})
                /\ handle' = [handle EXCEPT ![p] = "tmp"]
                /\ copied' = [copied EXCEPT ![p] = 0]
                /\ Does(p, "copy")
                /\ UNCHANGED <<final, file, force, history, downloads>>

CopyChunk(p) ==
    LET f == file[p]
        chunk == copied[p] + 1
    IN /\ does[p] = "copy"
       /\ copied[p] < ChunkCount
       /\ copied' = [copied EXCEPT ![p] = chunk]
       /\ tmp' = IF handle[p] = "tmp" THEN Put(tmp, f, tmp[f] \cup {chunk}) ELSE tmp
       /\ final' = IF handle[p] = "final" THEN Put(final, f, final[f] \cup {chunk}) ELSE final
       /\ UNCHANGED <<does, file, force, handle, history, downloads>>

CutOff(p) == cut' = (cut \/ p \in beside)

\* mutant: what was copied until the error is kept and renamed
KeepPart(p) == /\ does[p] = "copy"
               /\ handle' = [handle EXCEPT ![p] = "closed"]
               /\ Does(p, "rename")
               /\ CutOff(p)
               /\ UNCHANGED <<disk, file, force, copied, finished, beside, downloads>>

(* The .tmp is removed, whoever made the one that is there by now. *)
CopyFails(p) ==
    /\ does[p] = "copy"
    /\ Over(p)
    /\ tmp' = Drop(tmp, file[p])
    /\ handle' = [HandlesOf(file[p], [closed |-> "closed", tmp |-> "gone",
                                      final |-> "final", gone |-> "gone"])
                    EXCEPT ![p] = "closed"]
    /\ CutOff(p)
    /\ UNCHANGED <<final, finished, downloads>>

CopyEnds(p) == /\ does[p] = "copy"
               /\ copied[p] = ChunkCount
               /\ handle' = [handle EXCEPT ![p] = "closed"]
               /\ Does(p, "rename")
               /\ UNCHANGED <<disk, file, force, copied, history, downloads>>

RenameTmp(p) ==
    LET f == file[p]
    IN /\ does[p] = "rename"
       /\ f \in DOMAIN tmp
       /\ final' = Put(final, f, tmp[f])
       /\ tmp' = Drop(tmp, f)
       /\ handle' = HandlesOf(f, [closed |-> "closed", tmp |-> "final",
                                  final |-> "gone", gone |-> "gone"])
       /\ file' = [file EXCEPT ![p] = f + 1]
       /\ Does(p, "stat")
       /\ UNCHANGED <<force, copied, history, downloads>>

\* Another download has renamed or removed it, or the disk fails.
RenameFails(p) == /\ does[p] = "rename"
                  /\ Over(p)
                  /\ UNCHANGED <<disk, handle, finished, cut, downloads>>

EndDownload(p) == /\ does[p] = "stat"
                  /\ file[p] = FileCount + 1
                  /\ Over(p)
                  /\ finished' = TRUE
                  /\ UNCHANGED <<disk, handle, cut, downloads>>

KillDownload(p) == /\ Downloading(p)
                   /\ Over(p)
                   /\ handle' = [handle EXCEPT ![p] = "closed"]
                   /\ IF does[p] = "copy" THEN CutOff(p) ELSE UNCHANGED cut
                   /\ UNCHANGED <<disk, finished, downloads>>

DownloadNext ==
    \E p \in Downloaders :
       \/ \E forced \in BOOLEAN : BeginDownload(p, forced)
       \/ StatFile(p) \/ GetFails(p) \/ CreateTmp(p) \/ CopyChunk(p) \/ CopyFails(p)
       \/ CopyEnds(p) \/ RenameTmp(p) \/ RenameFails(p) \/ EndDownload(p) \/ KillDownload(p)

DownloadSpec == DownloadInit /\ [][DownloadNext]_downloadVars

-----------------------------------------------------------------------------
(* Once no download runs, a model file that is in place is whole, and all    *)
(* are in place if one has reported success: whatever failed or was killed   *)
(* before, and even if downloads wrote to one .tmp and renamed each other's, *)
(* unless one of these was cut off in its copy.                              *)
QuietModelIsWhole ==
    (\A p \in Downloaders : ~ Downloading(p)) /\ ~ cut =>
        /\ \A f \in DOMAIN final : final[f] = Chunks
        /\ finished => DOMAIN final = ModelFiles
=============================================================================
