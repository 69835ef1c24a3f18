---------------------------- MODULE BundleStore ----------------------------
(***************************************************************************)
(* The state shared by every operation that replaces files of one bundle   *)
(* (src-tauri/src/agent/agent_stage.rs): the files of the bundle, the      *)
(* hidden transaction artifacts beside them, the private records in the    *)
(* application data directory, and the memory of one staging session.      *)
(*                                                                         *)
(* A path is a number, so that the order in which the code walks its       *)
(* sorted map of staged files is the order of the numbers.  Each           *)
(* transaction names its artifacts by a fresh UUID; a UUID is the next     *)
(* unused number, and the artifacts are indexed by it.                     *)
(***************************************************************************)
EXTENDS Naturals

CONSTANTS
    N,            \* number of paths the session may stage
    Text,         \* complete file contents
    UserText,     \* the contents only an external editor writes
    Torn,         \* a file created whose contents were never written
    Absent,       \* no file
    None,         \* no record, no checkpoint, nothing staged
    Nested,       \* the paths below the one subdirectory of the bundle
    Start,        \* the bundles the session may find
    MaxIds,       \* bound: transactions and checkpoints ever planned
    MaxCrashes,   \* bound: process deaths
    MaxFaults,    \* bound: file system calls that fail
    MaxEdits,     \* bound: changes made by an external editor
    RacingEdits   \* whether the editor may write while an operation runs

ASSUME NAssumption == N \in Nat \ {0}
ASSUME TextAssumption == Torn \notin Text /\ Absent \notin Text /\ Torn # Absent
ASSUME UserTextAssumption == UserText \subseteq Text
ASSUME NestedAssumption == Nested \subseteq 1..N
ASSUME StartAssumption == Start \subseteq [1..N -> Text \cup {Absent}]
ASSUME BoundAssumption == {MaxIds, MaxCrashes, MaxFaults, MaxEdits} \subseteq Nat
ASSUME RacingAssumption == RacingEdits \in BOOLEAN

VARIABLES
    \* the bundle directory
    target,       \* [Paths -> File]: the bundle's own files
    temp,         \* [Ids -> [Paths -> File]]: replacement text (.tmp, -restore.tmp)
    backup,       \* [Ids -> [Paths -> File]]: displaced text (.bak, -undo.tmp)
    dir,          \* whether the subdirectory of the Nested paths exists
    \* the application data directory
    ckpt,         \* <fingerprint>.json: the latest applied checkpoint
    applyRec,     \* <fingerprint>.apply.json: the apply in progress
    restoreRec,   \* <fingerprint>.restore.json: the restore in progress
    \* SessionStage of one session, lost with the process
    session,      \* whether the session is registered
    staged,       \* reviewed changes waiting for Apply
    memory,       \* the session's copy of the checkpoint
    \* the operation that is running
    op,           \* which handler runs
    pc,           \* where it is
    job,          \* whose files the recovery loop rewrites
    txn,          \* the planned transaction
    todo,         \* the files the current loop has not visited
    \* bounds
    nextId, crashes, faults, edits

disk == <<target, temp, backup, dir>>
store == <<ckpt, applyRec, restoreRec>>
stage == <<session, staged, memory>>
control == <<op, pc, job, txn, todo>>
bounds == <<nextId, crashes, faults, edits>>
vars == <<disk, store, stage, control, bounds>>

-----------------------------------------------------------------------------
Paths == 1..N
Ids == 1..MaxIds
File == Text \cup {Absent, Torn}

Blank == [p \in Paths |-> Absent]

(* What one apply did: for every file, the text before and after it.  A    *)
(* created file has no original, a deleted one no applied text.            *)
Checkpoint ==
    [id : Ids, files : SUBSET Paths,
     original : [Paths -> File], applied : [Paths -> File], mkdir : BOOLEAN]

(* tid names the artifacts; prev is the checkpoint an apply replaces.      *)
Transaction == [tid : Ids, ckpt : Checkpoint, prev : Checkpoint \cup {None}]

(* base is the text the review was made against, content the outcome of    *)
(* the hunks kept: Absent for a deletion and for a rejected creation.      *)
StagedFile == [base : File, content : File]

(* No record, no checkpoint and nothing staged are none of them.           *)
ASSUME NoneAssumption ==
    None \notin Transaction /\ None \notin Checkpoint /\ None \notin StagedFile

Stages == [Paths -> StagedFile \cup {None}]
NothingStaged == [p \in Paths |-> None]

Ops == {"none", "register", "apply", "restore"}
Jobs == {"none", "apply", "rollback", "restore"}

RecoveryPcs ==
    {"recover", "sweep", "unrecord", "rewrite", "rewriteText", "rewriteClear",
     "rewritePut", "rewriteSweep", "verify", "reinstate", "consume", "rollback"}
ApplyPcs ==
    {"planned", "mkdir", "prepare", "prepareText", "replace", "aside", "put",
     "commit", "save", "saved", "undo", "undoPut", "cleanup", "abandon"}
RestorePcs ==
    {"rPlanned", "rPrepare", "rPrepareText", "rReplace", "rAside", "rPut",
     "rSweep", "rConsume", "rUnrecord", "rCleanup", "rAbandon"}
Pcs == {"idle", "settled"} \cup RecoveryPcs \cup ApplyPcs \cup RestorePcs

-----------------------------------------------------------------------------
Files == txn.ckpt.files
Original(p) == txn.ckpt.original[p]
Applied(p) == txn.ckpt.applied[p]
Temp(p) == temp[txn.tid][p]
Backup(p) == backup[txn.tid][p]

SetTarget(p, text) == target' = [target EXCEPT ![p] = text]
SetTemp(p, text) == temp' = [temp EXCEPT ![txn.tid][p] = text]
SetBackup(p, text) == backup' = [backup EXCEPT ![txn.tid][p] = text]

(* The text goes into the file opened before it, which another session may *)
(* have renamed or removed in the meantime.                                *)
WriteText(p, text) ==
    /\ temp' = [temp EXCEPT ![txn.tid][p] = IF @ = Torn THEN text ELSE @]
    /\ target' = [target EXCEPT ![p] = IF @ = Torn THEN text ELSE @]

(* Loops visit the files in the order of their paths, rollbacks in reverse. *)
First(p) == p \in todo /\ \A q \in todo : p <= q
Last(p) == p \in todo /\ \A q \in todo : q <= p

Goto(label) == pc' = label /\ UNCHANGED <<op, job, txn>>
Step(label) == Goto(label) /\ UNCHANGED todo
Loop(label) == Goto(label) /\ todo' = Files
Visited(p, label) == Goto(label) /\ todo' = todo \ {p}

(* On to the files that the loop has already visited.                      *)
Revisit(label) == Goto(label) /\ todo' = Files \ todo

(* A file system call that fails.                                          *)
Fault ==
    /\ faults < MaxFaults
    /\ faults' = faults + 1
    /\ UNCHANGED <<nextId, crashes, edits>>

(* The handler returns and forgets its locals.                             *)
Return ==
    /\ op' = "none" /\ pc' = "idle" /\ job' = "none"
    /\ txn' = None /\ todo' = {}

(* rename target -> backup, temp -> target and backup -> target.           *)
MoveAside(p) == SetBackup(p, target[p]) /\ SetTarget(p, Absent)
PutTemp(p) == SetTarget(p, Temp(p)) /\ SetTemp(p, Absent)
PutBack(p) == SetTarget(p, Backup(p)) /\ SetBackup(p, Absent)

(* remove_dir succeeds only on an empty directory and its failure is       *)
(* ignored: cleanup_directories and cleanup_recovery_directories.          *)
DirectoryEmpty ==
    \A p \in Nested :
        /\ target[p] = Absent
        /\ \A i \in Ids : temp[i][p] = Absent /\ backup[i][p] = Absent

RemoveCreatedDirectory ==
    dir' = (dir /\ ~(txn.ckpt.mkdir /\ DirectoryEmpty))

=============================================================================
