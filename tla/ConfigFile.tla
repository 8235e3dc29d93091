----------------------------- MODULE ConfigFile -----------------------------
(***************************************************************************)
(* How the config file is replaced: edit_config_file and replace_file      *)
(* (crates/infrastructure/src/repositories/config_persistence.rs), over a  *)
(* file system that keeps pages and directory entries in memory until they *)
(* are synced or written back, with the process killed or the power lost   *)
(* between any two steps.                                                  *)
(*                                                                         *)
(* Saves take turns (every caller holds the config lock for writing), so   *)
(* there is one save at a time.  A document is a revision; a file that was *)
(* truncated or partly written is not whole, and neither is what is edited *)
(* from it.  An error of a system call is one of two kinds: "refused"      *)
(* (needs_in_place_write) or "failed" (any other).                         *)
(***************************************************************************)
EXTENDS Naturals

CONSTANTS
    Target,     \* the name of the config file
    Inodes,
    NoInode,    \* what a name that is not in the directory stands for
    Pids,       \* process ids the service may be started with
    MaxSaves,   \* bound: saves
    MaxStops    \* bound: kills and power losses

ASSUME ConfigFileAssumption ==
    /\ Target \notin Pids \X Nat
    /\ NoInode \notin Inodes
    /\ MaxSaves \in Nat /\ MaxStops \in Nat

VARIABLES
    page,      \* what each file holds, as the processes see it
    disk,      \* what of it would survive a power loss
    dir,       \* the directory, as the processes see it
    ddir,      \* the directory that would survive
    pid, seq,  \* process id and SEQUENCE, which name the temp file
    pc,        \* where the save is
    temp,      \* its temp file's name
    ino,       \* its open temp file
    doc,       \* the document it writes
    result,    \* what the last save returned
    before,    \* history: what the target held when the save began
    inplace,   \* history: the revisions written in place, the target truncated
    ackRev,     \* history: the last revision a save reported and synced
    rev,       \* history: saves so far
    stops,     \* history: kills and power losses so far
    left       \* history: temp names a stop or a failed removal left behind

saveVars == <<pid, seq, pc, temp, ino, doc, result>>
fileHistory  == <<before, inplace, ackRev, rev, stops, left>>
fileVars == <<page, disk, dir, ddir, saveVars, fileHistory>>

TempNames == Pids \X (0..MaxSaves)
Names == {Target} \cup TempNames

Doc(n, s) == [rev |-> n, state |-> s]
Torn(d)   == Doc(d.rev, "torn")
WholeDoc(d)  == d.state = "whole"
Nothing   == Doc(0, "torn")

FileInit ==
    /\ \E i \in Inodes : dir = [n \in Names |-> IF n = Target THEN i ELSE NoInode]
    /\ ddir = dir
    /\ page = [i \in Inodes |-> IF i = dir[Target] THEN Doc(0, "whole") ELSE Nothing]
    /\ disk = page
    /\ pid \in Pids /\ seq = 0
    /\ pc = "idle" /\ temp = Target /\ ino = dir[Target] /\ doc = Doc(0, "whole")
    /\ result = "ok"
    /\ before = Doc(0, "whole") /\ inplace = {}
    /\ ackRev = 0 /\ rev = 0 /\ stops = 0 /\ left = {}

Kinds == {"refused", "failed"}

\* Where a save has its temp file.
Holding == {"write", "sync", "rename"}

SaveAt(l) == pc' = l
Unlinked == [dir EXCEPT ![temp] = NoInode]

\* remove_temp, which only warns when it cannot.
RemoveTemp ==
    \/ dir' = Unlinked /\ left' = left \ {temp}
    \/ dir' = dir /\ left' = IF dir[temp] = NoInode THEN left ELSE left \cup {temp}

(***************************************************************************)
(* replace_file                                                            *)
(***************************************************************************)

\* Reading and editing the document, and a name for the temp file.  A file that
\* is not whole may fail to parse, which ends the save here; it may as well parse.
Begin ==
    /\ pc = "idle" /\ rev < MaxSaves
    /\ rev' = rev + 1
    /\ doc' = Doc(rev + 1, page[dir[Target]].state)
    /\ temp' = <<pid, seq>> /\ seq' = seq + 1
    /\ before' = page[dir[Target]]
    /\ SaveAt("create")
    /\ UNCHANGED <<page, disk, dir, ddir, pid, ino, result, inplace, ackRev, stops, left>>

\* write_synced_temp: create_new.
CreateTemp ==
    /\ pc = "create" /\ dir[temp] = NoInode
    /\ \E i \in Inodes :
           /\ \A n \in Names : dir[n] # i /\ ddir[n] # i
           /\ ino' = i
           /\ dir' = [dir EXCEPT ![temp] = i]
           /\ page' = [page EXCEPT ![i] = Nothing]
           /\ disk' = [disk EXCEPT ![i] = Nothing]
    /\ SaveAt("write")
    /\ UNCHANGED <<ddir, pid, seq, temp, doc, result, fileHistory>>

\* A save ends with an error.
Fail == SaveAt("idle") /\ result' = "err"

\* A temp file a stopped process of the same id left behind has the name:
\* AlreadyExists, and it is taken away for the next one.
TempTaken ==
    /\ pc = "create" /\ dir[temp] # NoInode
    /\ RemoveTemp
    /\ Fail
    /\ UNCHANGED <<page, disk, ddir, pid, seq, temp, ino, doc, before, inplace, ackRev, rev,
                   stops>>

\* What is done about an error, the temp file gone.
AfterError(kind) ==
    IF kind = "refused" THEN SaveAt("truncate") /\ UNCHANGED result ELSE Fail

\* The temp file cannot be created, or its mode, bytes or sync fail: the save
\* fails or goes on in place.
TempFails(kind) ==
    /\ pc \in {"create", "write", "sync"}
    /\ RemoveTemp
    /\ AfterError(kind)
    /\ UNCHANGED <<page, disk, ddir, pid, seq, temp, ino, doc, before, inplace, ackRev, rev,
                   stops>>

\* replacement_for: the temp file cannot be given the target's owner.
OwnerNotKept ==
    /\ pc = "write"
    /\ RemoveTemp
    /\ SaveAt("truncate")
    /\ UNCHANGED <<page, disk, ddir, pid, seq, temp, ino, doc, result, before, inplace,
                   ackRev, rev, stops>>

WriteTemp ==
    /\ pc = "write"
    /\ page' = [page EXCEPT ![ino] = doc]
    /\ SaveAt("sync")
    /\ UNCHANGED <<disk, dir, ddir, pid, seq, temp, ino, doc, result, fileHistory>>

\* Mutant: the temp file is renamed without a sync.
SyncTempSkipped ==
    /\ pc = "sync"
    /\ SaveAt("rename")
    /\ UNCHANGED <<page, disk, dir, ddir, pid, seq, temp, ino, doc, result, fileHistory>>

SyncTemp ==
    /\ pc = "sync"
    /\ disk' = [disk EXCEPT ![ino] = page[ino]]
    /\ SaveAt("rename")
    /\ UNCHANGED <<page, dir, ddir, pid, seq, temp, ino, doc, result, fileHistory>>

Rename ==
    /\ pc = "rename"
    /\ dir' = [Unlinked EXCEPT ![Target] = ino]
    /\ SaveAt("sync_dir")
    /\ UNCHANGED <<page, disk, ddir, pid, seq, temp, ino, doc, result, fileHistory>>

\* EBUSY and EXDEV: the target is a mount point; EACCES and EROFS: the directory
\* is not writable.
RenameFails(kind) ==
    /\ pc = "rename"
    /\ RemoveTemp
    /\ AfterError(kind)
    /\ UNCHANGED <<page, disk, ddir, pid, seq, temp, ino, doc, before, inplace, ackRev, rev,
                   stops>>

\* Mutant: the directory is not synced.
SyncDirSkipped ==
    /\ pc = "sync_dir"
    /\ ackRev' = doc.rev
    /\ SaveAt("idle") /\ result' = "ok"
    /\ UNCHANGED <<page, disk, dir, ddir, pid, seq, temp, ino, doc, before, inplace, rev,
                   stops, left>>

SyncDir ==
    /\ pc = "sync_dir"
    /\ ddir' = dir
    /\ ackRev' = doc.rev
    /\ SaveAt("idle") /\ result' = "ok"
    /\ UNCHANGED <<page, disk, dir, pid, seq, temp, ino, doc, before, inplace, rev, stops,
                   left>>

\* A directory that cannot be synced is only warned of.
SyncDirFails ==
    /\ pc = "sync_dir"
    /\ SaveAt("idle") /\ result' = "ok"
    /\ UNCHANGED <<page, disk, dir, ddir, pid, seq, temp, ino, doc, fileHistory>>

(***************************************************************************)
(* overwrite_in_place                                                      *)
(***************************************************************************)

Truncate ==
    /\ pc = "truncate"
    /\ page' = [page EXCEPT ![dir[Target]] = Torn(doc)]
    /\ inplace' = inplace \cup {doc.rev}
    /\ SaveAt("rewrite")
    /\ UNCHANGED <<disk, dir, ddir, pid, seq, temp, ino, doc, result, before, ackRev, rev, stops,
                   left>>

Rewrite ==
    /\ pc = "rewrite"
    /\ page' = [page EXCEPT ![dir[Target]] = doc]
    /\ SaveAt("sync_target")
    /\ UNCHANGED <<disk, dir, ddir, pid, seq, temp, ino, doc, result, fileHistory>>

SyncTarget ==
    /\ pc = "sync_target"
    /\ disk' = [disk EXCEPT ![dir[Target]] = page[dir[Target]]]
    /\ ackRev' = IF ddir[Target] = dir[Target] THEN doc.rev ELSE ackRev
    /\ SaveAt("idle") /\ result' = "ok"
    /\ UNCHANGED <<page, dir, ddir, pid, seq, temp, ino, doc, before, inplace, rev, stops,
                   left>>

InPlaceFails ==
    /\ pc \in {"truncate", "rewrite", "sync_target"}
    /\ Fail
    /\ UNCHANGED <<page, disk, dir, ddir, pid, seq, temp, ino, doc, fileHistory>>

(***************************************************************************)
(* The system around it                                                    *)
(***************************************************************************)

\* Write-back of dirty pages, all of them or some.
Flush(i) ==
    /\ page[i] # disk[i]
    /\ \E d \in {page[i], Torn(page[i])} : disk' = [disk EXCEPT ![i] = d]
    /\ UNCHANGED <<page, dir, ddir, saveVars, fileHistory>>

FlushName(n) ==
    /\ dir[n] # ddir[n]
    /\ ddir' = [ddir EXCEPT ![n] = dir[n]]
    /\ UNCHANGED <<page, disk, dir, saveVars, fileHistory>>

Stop ==
    /\ pc # "down" /\ stops < MaxStops
    /\ stops' = stops + 1
    /\ SaveAt("down")
    /\ UNCHANGED <<pid, seq, temp, ino, doc, result, before, inplace, ackRev, rev>>

Kill ==
    /\ Stop
    /\ left' = IF pc \in Holding THEN left \cup {temp} ELSE left
    /\ UNCHANGED <<page, disk, dir, ddir>>

PowerLoss ==
    /\ Stop
    /\ page' = disk /\ dir' = ddir
    /\ left' = {n \in TempNames : ddir[n] # NoInode}
    /\ UNCHANGED <<disk, ddir>>

\* SEQUENCE starts over, and in a container so does the process id.
ProcessStarts(p) ==
    /\ pc = "down"
    /\ pid' = p /\ seq' = 0
    /\ SaveAt("idle") /\ result' = "none"
    /\ UNCHANGED <<page, disk, dir, ddir, temp, ino, doc, fileHistory>>

SaveSteps ==
    \/ Begin \/ CreateTemp \/ TempTaken \/ OwnerNotKept \/ WriteTemp \/ SyncTemp \/ Rename
    \/ SyncDir \/ SyncDirFails
    \/ Truncate \/ Rewrite \/ SyncTarget \/ InPlaceFails
    \/ \E kind \in Kinds : TempFails(kind) \/ RenameFails(kind)

System ==
    \/ \E i \in Inodes : Flush(i)
    \/ \E n \in Names : FlushName(n)
    \/ Kill \/ PowerLoss
    \/ \E p \in Pids : ProcessStarts(p)

FileNext == SaveSteps \/ System

FileSpec == FileInit /\ [][FileNext]_fileVars

(***************************************************************************)
(* Properties                                                              *)
(***************************************************************************)

Steps == Holding \cup {"idle", "create", "sync_dir", "truncate", "rewrite", "sync_target", "down"}
Docs  == [rev : Nat, state : {"whole", "torn"}]

FileTypeOK ==
    /\ page \in [Inodes -> Docs] /\ disk \in [Inodes -> Docs]
    /\ dir \in [Names -> Inodes \cup {NoInode}] /\ ddir \in [Names -> Inodes \cup {NoInode}]
    /\ dir[Target] \in Inodes /\ ddir[Target] \in Inodes
    /\ pid \in Pids /\ seq \in 0..MaxSaves
    /\ pc \in Steps /\ temp \in Names /\ ino \in Inodes /\ doc \in Docs
    /\ result \in {"ok", "err", "none"}
    /\ before \in Docs /\ inplace \subseteq Nat
    /\ ackRev \in Nat /\ rev \in Nat /\ stops \in Nat
    /\ left \subseteq TempNames

\* "a crash leaves either the old or the new document, never a truncated one":
\* at every point, what a power loss would leave under the config's name is a
\* whole document, unless some save had to rewrite the file in place.
NeverTruncated == inplace = {} => WholeDoc(disk[ddir[Target]])

\* A save that was reported, its file and directory synced, is never undone by a
\* power loss: the file is of that revision or of a later one.
AckedSurvives == disk[ddir[Target]].rev >= ackRev

\* Ok means that the file holds the new document, an error that it holds the old
\* one (but for a rewrite in place that failed half way); a failed directory sync
\* is no error, for "the new document is already in place".
ResultTellsTruth ==
    pc = "idle" =>
        /\ result = "ok" => page[dir[Target]] = doc
        /\ result = "err" /\ doc.rev \notin inplace => page[dir[Target]] = before

\* A temp file is that of the save under way, or was left by a process that
\* stopped or a removal that failed; so only these can make a later save find its
\* name taken.
TempAccounted ==
    \A n \in TempNames :
        dir[n] # NoInode => n \in left \/ (n = temp /\ pc \in Holding)

(***************************************************************************)
(* The inductive invariant (ConfigProofs)                              *)
(***************************************************************************)

\* The temp file is no file the config's name stands for, now or after a power
\* loss, and each step of the save finds in it what the last one left.
TempPrivate ==
    /\ pc \in Holding \cup {"create"} => temp \in TempNames
    /\ pc \in Holding =>
           dir[temp] = ino /\ ino # dir[Target] /\ ino # ddir[Target]
    /\ pc \in {"sync", "rename"} => page[ino] = doc
    /\ pc = "rename" => disk[ino] = doc
    /\ pc = "sync_dir" => dir[Target] = ino /\ page[ino] = doc /\ disk[ino] = doc
    /\ pc = "sync_target" => page[dir[Target]] = doc

\* Until it is renamed over or opened, the target is as the save found it.
TargetUntouched ==
    /\ pc \in Holding \cup {"create", "truncate"} =>
           doc.rev \notin inplace /\ page[dir[Target]] = before
    /\ pc \in {"rewrite", "sync_target"} => doc.rev \in inplace

Saving == Holding \cup {"create", "sync_dir", "truncate", "rewrite", "sync_target"}

\* The files the config's name stands for are no older than what was reported,
\* and synced and whole while no save was in place; so is what a save writes.
TargetSound ==
    /\ \A i \in {dir[Target], ddir[Target]} :
           /\ page[i].rev >= ackRev /\ disk[i].rev >= ackRev
           /\ inplace = {} => WholeDoc(page[i]) /\ disk[i] = page[i]
    /\ pc \in Saving => doc.rev = rev /\ (inplace = {} => WholeDoc(doc))
    /\ \A n \in inplace : n <= rev
    /\ ackRev <= rev /\ seq <= rev /\ rev <= MaxSaves

FileInv ==
    /\ FileTypeOK /\ TempPrivate /\ TargetUntouched /\ TargetSound
    /\ ResultTellsTruth /\ TempAccounted

=============================================================================
