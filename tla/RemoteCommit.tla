------------------------------ MODULE RemoteCommit ------------------------------
(***************************************************************************)
(* What Libssh2Worker does to one remote file: writeFile (the editor) and  *)
(* uploadFile both fill a temporary file and hand it to                    *)
(* commitRemoteTemporaryFile, which tries an atomic rename, then an        *)
(* overwriting one, then a plain one behind a backup of the old file.      *)
(*                                                                         *)
(* The server's files are a function from the names that matter to         *)
(* contents.  Every libssh2 call is one step, and every call may fail: it  *)
(* is refused, or it is carried out and its answer does not come in time,  *)
(* or the link is lost and with it all later calls of this operation.      *)
(* One worker runs one operation at a time; other programs on the server   *)
(* may create the file while it is absent.                                 *)
(***************************************************************************)
EXTENDS Naturals, Sequences

CONSTANTS
    Versions,    \* what the user saves, or what a local file holds
    Size,        \* blocks of each version
    MaxSize,     \* blocks of the longest one
    None,        \* no such file
    MaxFaults    \* bound on refused calls, late answers, lost links and other programs' files

ASSUME SizeAssumption == MaxSize \in Nat /\ Size \in [Versions -> 0 .. MaxSize]
ASSUME FaultAssumption == MaxFaults \in Nat

Kinds == {"save", "upload"}                                       \* writeFile, uploadFile
Temp == [save |-> "edit.part", upload |-> "part"]
Backup == [save |-> "edit.part.backup", upload |-> "part.backup"]
Names == {"dest"} \cup {Temp[k] : k \in Kinds} \cup {Backup[k] : k \in Kinds}
Modes == {"own", "default", "all"}      \* a chosen one, 0644 under the umask, a link's 0777
Files == [data : Seq(Versions), mode : Modes, symlink : BOOLEAN]
Servers == {"posix", "overwrite", "legacy"}    \* the best rename the server knows
Ops == [kind : Kinds, version : Versions, overwrite : BOOLEAN]

ASSUME NoneAssumption == None \notin Files

VARIABLES
    server, linked,      \* the server's kind; the transport works
    files,             \* [Names -> Files or None]
    pc,                \* the next call, or how the last operation ended
    op,                \* the operation and its arguments
    offset, truncate,  \* blocks sent so far; the temporary file is opened with TRUNC
    existed, mode,     \* destinationExists; permissions of the temporary file
    before, foreign,   \* history: the file when op began; the temporary file held other blocks
    last,              \* history: the latest contents of the file
    faults

locals == <<op, offset, truncate, existed, mode, before, foreign>>
commitVars == <<server, linked, files, pc, locals, last, faults>>

Idle == pc \in {"idle", "saved", "failed"}
Complete(v) == [i \in 1 .. Size[v] |-> v]
Regular(data, m) == [data |-> data, mode |-> m, symlink |-> FALSE]

\* lstat: a symbolic link's own permissions, not those of the file it names.
LstatMode(f) == IF f.symlink THEN "all" ELSE f.mode

CommitInit ==
    /\ server \in Servers /\ linked = TRUE
    /\ \E dest \in {None} \cup {[data |-> Complete(v), mode |-> "own", symlink |-> s] :
                                   v \in Versions, s \in BOOLEAN} :
          /\ files = [n \in Names |-> IF n = "dest" THEN dest ELSE None]
          /\ before = dest
          /\ last = IF dest = None THEN None ELSE dest.data
    /\ pc = "idle"
    /\ op \in {o \in Ops : o.kind = "upload" /\ o.overwrite}
    /\ offset = 0 /\ truncate = FALSE /\ existed = FALSE /\ mode = "default"
    /\ foreign = FALSE /\ faults = 0

History == last' = IF files'["dest"] = None THEN last ELSE files'["dest"].data

-----------------------------------------------------------------------------
(* Calls to the server. *)

Fault == faults < MaxFaults /\ faults' = faults + 1

\* A call with result ok that turns the files into effect if it is allowed.
CallEnds(ok, allowed, effect) ==
    \/ ok /\ linked /\ allowed /\ files' = effect /\ UNCHANGED faults
    \/ ~ok /\ ~(linked /\ allowed) /\ UNCHANGED <<files, faults>>
    \/ ~ok /\ linked /\ allowed /\ Fault /\ files' \in {files, effect}

Call(allowed, effect, done, error) ==
    /\ \E ok \in BOOLEAN : CallEnds(ok, allowed, effect) /\ pc' = IF ok THEN done ELSE error
    /\ History

Exists(n) == files[n] # None
Removed(n) == [files EXCEPT ![n] = None]
Renamed(from, to) == [files EXCEPT ![to] = files[from], ![from] = None]
PlainRename(from, to, done, error) == Call(Exists(from) /\ ~Exists(to), Renamed(from, to), done, error)

\* Where an operation goes on after a success and after a failure.  The faulty variant leaves the
\* permissions of the temporary file.
DoneAtOnce == "saved"
Done == IF op.kind = "save" /\ existed THEN "setstat" ELSE "saved"
Broken == IF op.kind = "save" THEN "cleanup" ELSE "failed"

Step(name) == pc = name /\ UNCHANGED <<server, linked>>

-----------------------------------------------------------------------------
(* writeFile and uploadFile. *)

Start(kind, v, overwrite) ==
    /\ Idle /\ linked
    /\ kind = "upload" => overwrite
    /\ op' = [kind |-> kind, version |-> v, overwrite |-> overwrite]
    /\ pc' = "init" /\ before' = files["dest"]
    /\ offset' = 0 /\ truncate' = (kind = "save")
    /\ existed' = FALSE /\ mode' = "default" /\ foreign' = FALSE
    /\ UNCHANGED <<server, linked, files, last, faults>>

InitSftp == Step("init") /\ Call(TRUE, files, "stat", "failed") /\ UNCHANGED locals

\* A save looks at the file it will replace.
StatDestination ==
    /\ Step("stat") /\ op.kind = "save"
    /\ \E found \in BOOLEAN :
          /\ CallEnds(found, Exists("dest"), files) /\ History
          /\ existed' = found
          /\ mode' = IF found THEN LstatMode(files["dest"]) ELSE "default"
          /\ pc' = IF found /\ ~op.overwrite THEN "cleanup" ELSE "open"
    /\ UNCHANGED <<op, offset, truncate, before, foreign>>

\* An upload goes on after what an earlier one left, by its length alone.
StatTemporary ==
    /\ Step("stat") /\ op.kind = "upload"
    /\ \E found \in BOOLEAN :
          /\ CallEnds(found, Exists("part"), files) /\ History
          /\ LET size == IF found THEN Len(files["part"].data) ELSE 0
             IN  /\ offset' = IF size <= Size[op.version] THEN size ELSE 0
                 /\ truncate' = (size > Size[op.version])
    /\ pc' = "open"
    /\ UNCHANGED <<op, existed, mode, before, foreign>>

\* The temporary file once it is open; a new one gets mode m.
OpenedFile(m) ==
    LET old == files[Temp[op.kind]]
    IN  IF old = None THEN Regular(<<>>, m)
        ELSE [old EXCEPT !.data = IF truncate THEN <<>> ELSE old.data]

\* The server's umask may reduce the mode of a new file.
OpenTemporary ==
    /\ Step("open")
    /\ \E m \in {mode, "default"} :
          /\ Call(TRUE, [files EXCEPT ![Temp[op.kind]] = OpenedFile(m)], "write", Broken)
          /\ foreign' = \E i \in DOMAIN OpenedFile(m).data : OpenedFile(m).data[i] # op.version
    /\ UNCHANGED <<op, offset, truncate, existed, mode, before>>

Put(data, v) == IF offset < Len(data) THEN [data EXCEPT ![offset + 1] = v] ELSE Append(data, v)

\* Faulty: the loop ends at an error as it does at the end of the data.
WriteIgnoringErrors ==
    /\ Step("write") /\ offset < Size[op.version]
    /\ \E ok \in BOOLEAN :
          /\ CallEnds(ok, TRUE, [files EXCEPT ![Temp[op.kind]].data = Put(@, op.version)]) /\ History
          /\ offset' = IF ok THEN offset + 1 ELSE offset
          /\ pc' = IF ok THEN "write" ELSE "sync"
    /\ UNCHANGED <<op, truncate, existed, mode, before, foreign>>

Write ==
    /\ Step("write") /\ offset < Size[op.version]
    /\ \E ok \in BOOLEAN :
          /\ CallEnds(ok, TRUE, [files EXCEPT ![Temp[op.kind]].data = Put(@, op.version)]) /\ History
          /\ offset' = IF ok THEN offset + 1 ELSE offset
          /\ pc' = IF ok THEN "write" ELSE Broken
    /\ UNCHANGED <<op, truncate, existed, mode, before, foreign>>

\* The transfer or the connection is canceled before a block.
Canceled ==
    /\ Step("write") /\ offset < Size[op.version]
    /\ pc' = Broken
    /\ UNCHANGED <<files, locals, last, faults>>

Written ==
    /\ Step("write") /\ offset = Size[op.version]
    /\ pc' = "sync"
    /\ UNCHANGED <<files, locals, last, faults>>

\* Faulty: a new file is committed like any other.
SyncThenReplace == Step("sync") /\ Call(TRUE, files, "posix", Broken) /\ UNCHANGED locals

Sync ==
    /\ Step("sync")
    /\ Call(TRUE, files, IF op.overwrite THEN "posix" ELSE "plain", Broken)
    /\ UNCHANGED locals

\* The permissions of the old file; the result is not looked at.
RestorePermissions ==
    /\ Step("setstat")
    /\ Call(Exists("dest"), [files EXCEPT !["dest"].mode = mode], "saved", "saved")
    /\ UNCHANGED locals

\* A save that failed removes its temporary file, an upload keeps it.
Cleanup ==
    /\ Step("cleanup")
    /\ Call(Exists(Temp[op.kind]), Removed(Temp[op.kind]), "failed", "failed")
    /\ UNCHANGED locals

-----------------------------------------------------------------------------
(* commitRemoteTemporaryFile. *)

PosixRename ==
    /\ Step("posix")
    /\ Call(server = "posix" /\ Exists(Temp[op.kind]), Renamed(Temp[op.kind], "dest"), Done, "overwrite")
    /\ UNCHANGED locals

OverwritingRename ==
    /\ Step("overwrite")
    /\ Call(/\ server = "overwrite" \/ (server = "posix" /\ ~Exists("dest"))
            /\ Exists(Temp[op.kind]), Renamed(Temp[op.kind], "dest"), Done, "lstat")
    /\ UNCHANGED locals

LookForDestination ==
    Step("lstat") /\ Call(Exists("dest"), files, "clear", "plain") /\ UNCHANGED locals

CommitPlainly ==
    Step("plain") /\ PlainRename(Temp[op.kind], "dest", Done, Broken) /\ UNCHANGED locals

ClearBackup ==
    /\ Step("clear")
    /\ Call(Exists(Backup[op.kind]), Removed(Backup[op.kind]), "backup", "backup")
    /\ UNCHANGED locals

BackUp == Step("backup") /\ PlainRename("dest", Backup[op.kind], "move", Broken) /\ UNCHANGED locals

\* Faulty: the backup is dropped although the new file was not committed.
CommitBehindBackupOnce ==
    Step("move") /\ PlainRename(Temp[op.kind], "dest", "drop", "drop") /\ UNCHANGED locals

CommitBehindBackup ==
    Step("move") /\ PlainRename(Temp[op.kind], "dest", "drop", "rollback") /\ UNCHANGED locals

DropBackup ==
    /\ Step("drop")
    /\ Call(Exists(Backup[op.kind]), Removed(Backup[op.kind]), Done, Done)
    /\ UNCHANGED locals

\* Faulty: a commit that was rolled back counts as a success.
RollBackAndReport ==
    Step("rollback") /\ PlainRename(Backup[op.kind], "dest", Done, Broken) /\ UNCHANGED locals

RollBack == Step("rollback") /\ PlainRename(Backup[op.kind], "dest", Broken, Broken) /\ UNCHANGED locals

-----------------------------------------------------------------------------
(* The rest of the world. *)

\* The file panel removes the file.
RemovePath ==
    /\ Idle /\ Exists("dest")
    /\ pc' = "idle"
    /\ \E ok \in BOOLEAN : CallEnds(ok, TRUE, Removed("dest"))
    /\ last' = IF files'["dest"] = None THEN None ELSE last
    /\ UNCHANGED <<server, linked, locals>>

LinkLost ==
    /\ ~Idle /\ linked /\ Fault
    /\ linked' = FALSE
    /\ UNCHANGED <<server, files, pc, locals, last>>

Reconnect ==
    /\ Idle /\ ~linked
    /\ linked' = TRUE
    /\ UNCHANGED <<server, files, pc, locals, last, faults>>

OthersCreate(v) ==
    /\ ~Idle /\ ~Exists("dest") /\ Fault
    /\ files' = [files EXCEPT !["dest"] = Regular(Complete(v), "own")]
    /\ last' = Complete(v)
    /\ UNCHANGED <<server, linked, pc, locals>>

Transfer ==
    \/ InitSftp \/ StatDestination \/ StatTemporary \/ OpenTemporary
    \/ Write \/ Canceled \/ Written \/ Sync \/ RestorePermissions \/ Cleanup

CommitSteps ==
    \/ PosixRename \/ OverwritingRename \/ LookForDestination \/ CommitPlainly
    \/ ClearBackup \/ BackUp \/ CommitBehindBackup \/ DropBackup \/ RollBack

Environment == RemovePath \/ LinkLost \/ Reconnect \/ \E v \in Versions : OthersCreate(v)

CommitNext ==
    \/ \E kind \in Kinds, v \in Versions, overwrite \in BOOLEAN : Start(kind, v, overwrite)
    \/ Transfer \/ CommitSteps \/ Environment

CommitSpec == CommitInit /\ [][CommitNext]_commitVars

-----------------------------------------------------------------------------
(* What makes the component correct. *)

CommitStages ==
    {"idle", "saved", "failed", "init", "stat", "open", "write", "sync", "setstat", "cleanup", "posix",
     "overwrite", "lstat", "plain", "clear", "backup", "move", "drop", "rollback"}

\* Every variable keeps its shape, and no more is sent than the data holds
\* (the loops of writeFile and uploadFile, Libssh2Worker.cpp:1115 and 1355).
CommitTypeOK ==
    /\ server \in Servers /\ linked \in BOOLEAN
    /\ files \in [Names -> Files \cup {None}]
    /\ pc \in CommitStages /\ op \in Ops
    /\ offset \in 0 .. Size[op.version] /\ truncate \in BOOLEAN
    /\ existed \in BOOLEAN /\ mode \in Modes
    /\ before \in Files \cup {None} /\ foreign \in BOOLEAN
    /\ last \in Seq(Versions) \cup {None}
    /\ faults \in Nat

\* The latest contents of the file are never gone: the file holds them or, where
\* the server cannot replace a file, a backup does, whichever calls fail.
NeverLost ==
    ~Exists("dest") /\ last # None =>
        \E k \in Kinds : Exists(Backup[k]) /\ files[Backup[k]].data = last

\* Whenever the file changes it becomes a complete version, or its latest
\* contents return.  An upload that went on after blocks of another version
\* (its local file has changed) is the exception: it mixes the two.
Mixes == op.kind = "upload" /\ foreign
NeverTorn ==
    [][files'["dest"] # files["dest"] /\ files'["dest"] # None =>
          \/ \E v \in Versions : files'["dest"].data = Complete(v)
          \/ files'["dest"].data = last
          \/ ~Idle /\ Mixes]_commitVars

\* What is reported as saved or uploaded is there, complete, also after faults
\* and on servers that need the detours of the commit.
SavedMeansSaved ==
    pc = "saved" => Exists("dest") /\ (files["dest"].data = Complete(op.version) \/ Mixes)

\* Creating a file never touches one that exists, also if another program
\* creates it between the look at the name and the commit.
KeepsExisting ==
    [][~Idle /\ ~op.overwrite /\ Exists("dest") => files'["dest"] = files["dest"]]_commitVars

\* A save keeps the permissions the file had (README.md:149), as long as no call
\* fails - the result of setstat is ignored - and the file is no link, whose own
\* 0777 it would take.
PermissionsKept ==
    pc = "saved" /\ op.kind = "save" /\ before # None /\ faults = 0 =>
        before.symlink \/ files["dest"].mode = before.mode
=============================================================================
