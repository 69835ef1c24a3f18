-------------------------- MODULE CheckpointedStage --------------------------
(***************************************************************************)
(* One session of a persistent SessionStages over one bundle: a user       *)
(* reviews changes and applies or restores them, the process dies and      *)
(* starts again, file system calls fail, and an external editor changes    *)
(* files.  The steps of the operations are those of ApplyTransaction,      *)
(* RestoreTransaction and TransactionRecovery.                             *)
(***************************************************************************)
EXTENDS ApplyTransaction, RestoreTransaction, TransactionRecovery

DiskTypeOK ==
    /\ target \in [Paths -> File]
    /\ temp \in [Ids -> [Paths -> File]]
    /\ backup \in [Ids -> [Paths -> File]]
    /\ dir \in BOOLEAN

StoreTypeOK ==
    /\ ckpt \in Checkpoint \cup {None}
    /\ applyRec \in Transaction \cup {None}
    /\ restoreRec \in Transaction \cup {None}

StageTypeOK ==
    /\ session \in BOOLEAN
    /\ staged \in Stages
    /\ memory \in Checkpoint \cup {None}

ControlTypeOK ==
    /\ op \in Ops /\ pc \in Pcs /\ job \in Jobs
    /\ txn \in Transaction \cup {None}
    /\ todo \in SUBSET Paths

BoundsTypeOK ==
    /\ nextId \in 1..(MaxIds + 1)
    /\ crashes \in 0..MaxCrashes /\ faults \in 0..MaxFaults /\ edits \in 0..MaxEdits

(* Every variable holds a value of its kind.                               *)
TypeOK == DiskTypeOK /\ StoreTypeOK /\ StageTypeOK /\ ControlTypeOK /\ BoundsTypeOK

Init ==
    /\ target \in Start
    /\ temp = [i \in Ids |-> Blank] /\ backup = [i \in Ids |-> Blank]
    /\ dir = (\E p \in Nested : target[p] # Absent)
    /\ ckpt = None /\ applyRec = None /\ restoreRec = None
    /\ session = FALSE /\ staged = NothingStaged /\ memory = None
    /\ op = "none" /\ pc = "idle" /\ job = "none" /\ txn = None /\ todo = {}
    /\ nextId = 1 /\ crashes = 0 /\ faults = 0 /\ edits = 0

-----------------------------------------------------------------------------
(* Every handler starts by recovering what an earlier one left.            *)
Begin(handler) ==
    /\ pc = "idle"
    /\ handler # "register" => session /\ nextId <= MaxIds
    /\ op' = handler
    /\ pc' = "recover"
    /\ UNCHANGED <<disk, store, stage, job, txn, todo, bounds>>

(* The outcome of staging, hunk review and validation: for some files the  *)
(* reviewed text, decided against the text now on disk.  A file on disk is *)
(* modified or deleted; a new one is created or fully rejected.            *)
Review ==
    /\ pc = "idle" /\ session /\ staged = NothingStaged
    /\ \E files \in (SUBSET Paths) \ {{}},
          content \in [Paths -> (Text \ UserText) \cup {Absent}] :
          staged' = [p \in Paths |->
                        IF p \in files THEN [base |-> target[p], content |-> content[p]]
                                       ELSE None]
    /\ UNCHANGED <<disk, store, session, memory, control, bounds>>

Discard ==
    /\ pc = "idle" /\ staged # NothingStaged
    /\ staged' = NothingStaged
    /\ UNCHANGED <<disk, store, session, memory, control, bounds>>

(* An editor outside Studio writes or removes one of the files.            *)
Edit ==
    /\ RacingEdits \/ pc = "idle"
    /\ edits < MaxEdits
    /\ \E p \in Paths, text \in Text \cup {Absent} :
        /\ target[p] # text
        /\ SetTarget(p, text)
        /\ dir' = (dir \/ (p \in Nested /\ text # Absent))
    /\ edits' = edits + 1
    /\ UNCHANGED <<temp, backup, store, stage, control, nextId, crashes, faults>>

(* The process dies: memory is lost, the disk keeps what was written.      *)
Crash ==
    /\ crashes < MaxCrashes
    /\ crashes' = crashes + 1
    /\ session' = FALSE /\ staged' = NothingStaged /\ memory' = None
    /\ Return
    /\ UNCHANGED <<disk, store, nextId, faults, edits>>

OperationNext == ApplyNext \/ RestoreNext \/ RecoveryNext

(* What only the steps of another connection can make happen.              *)
OvertakenStep(p) ==
    \/ PrepareTaken(p) \/ RestorePrepareTaken(p)
    \/ RewriteTaken(p) \/ RewritePutFails(p) \/ RewriteSweepBackup(p)

OvertakenNext ==
    \/ \E p \in Paths : OvertakenStep(p)
    \/ ReinstateFails \/ ReinstateNotNeeded \/ ConsumeFails \/ RecordVanished

Next ==
    \/ OperationNext
    \/ \E handler \in Ops \ {"none"} : Begin(handler)
    \/ Review \/ Discard \/ Edit \/ Crash

Spec == Init /\ [][Next]_vars

(* A handler that runs keeps running; sessions keep being opened.          *)
Fairness == WF_vars(OperationNext) /\ SF_vars(Begin("register"))

FairSpec == Spec /\ Fairness

-----------------------------------------------------------------------------
(* No handler runs and no record asks for a recovery.                      *)
Settled == pc = "idle" /\ NoRecord

(* Recovery never meets two interrupted transactions of one bundle, the    *)
(* state recover_interrupted_transaction refuses as overlapping.           *)
RecordsExclusive == applyRec = None \/ restoreRec = None

(* Once settled, the saved checkpoint describes the files: what Restore    *)
(* would verify is what the apply wrote, through crashes and failures.     *)
CheckpointDescribesBundle ==
    Settled /\ edits = 0 /\ ckpt # None
        => \A p \in ckpt.files : target[p] = ckpt.applied[p]

(* An apply that reported an error and kept its stage restored every       *)
(* replacement, or had committed them all and failed to drop its record.   *)
FailureIsAllOrNothing ==
    Settled /\ edits = 0
        => \/ \A p \in Paths : staged[p] # None => target[p] = staged[p].base
           \/ \A p \in Paths : staged[p] # None => target[p] = staged[p].content

(* Once settled, no hidden transaction file is left in the bundle.         *)
NoArtifactsLeft ==
    Settled /\ faults = 0
        => \A i \in Ids : temp[i] = Blank /\ backup[i] = Blank

(* Apply clears the stage only when every reviewed change is on disk.      *)
StageClearedWhenApplied ==
    [][op = "apply" /\ staged # NothingStaged /\ staged' = NothingStaged /\ crashes' = crashes
        => \A p \in Paths : staged[p] # None => target[p] = staged[p].content]_vars

(* A directory an apply created goes with the files it was created for,    *)
(* when the apply is undone and when it is restored.                       *)
CreatedDirectoryRemoved ==
    [][/\ applyRec # None /\ applyRec' = None /\ ~Committed(applyRec)
          => (applyRec.ckpt.mkdir /\ edits + faults = 0 => ~dir)
       /\ restoreRec # None /\ restoreRec' = None /\ ckpt = None
          => (restoreRec.ckpt.mkdir /\ edits + faults = 0 => ~dir)]_vars

(* A file of the bundle or beside it holds the text.                       *)
FileHolds(p, text) ==
    target[p] = text \/ \E i \in Ids : temp[i][p] = text \/ backup[i][p] = text

(* Nobody reviewed the text as the base or the outcome of what runs.       *)
Unreviewed(p, text) == txn = None \/ text \notin {Original(p), Applied(p)}

EditLost(p, text) ==
    Unreviewed(p, text) /\ FileHolds(p, text) /\ ~FileHolds(p, text)'

(* The steps that do not look at what they remove: putting a file in place *)
(* of one recreated since the old one was moved aside, rolling back a file *)
(* edited since it was replaced, sweeping what a restore displaced,        *)
(* discarding the backups of a failed rollback, and recovery rewriting a   *)
(* file edited since it was checked.                                       *)
Window ==
    \/ pc \in {"put", "rPut", "undo", "undoPut", "rSweep"}
    \/ pc \in RecoveryPcs /\ job = "rollback"
    \/ pc \in {"rewrite", "rewriteClear", "rewritePut"}

(* Everywhere else Studio keeps an edit that nobody reviewed, whenever it  *)
(* is made: in the bundle, or among the displaced files.                   *)
EditsLostOnlyInWindows ==
    [][\A p \in Paths, text \in UserText :
        EditLost(p, text) /\ edits' = edits => Window]_vars

(* A handler always comes back to its caller.                              *)
HandlersReturn == pc # "idle" ~> pc = "idle"

(* What makes recovery give up for good on an apply that was interrupted:  *)
(* a modified file displaced and not yet replaced, a transaction file with *)
(* other text than planned, or a deletion, whose recovery is never taken   *)
(* as verified.                                                            *)
Displaced(t) ==
    \E p \in t.ckpt.files :
        /\ target[p] = Absent
        /\ t.ckpt.original[p] # Absent /\ t.ckpt.applied[p] # Absent
UnplannedText(t, text) ==
    \E p \in t.ckpt.files : temp[t.tid][p] \notin {Absent, text[p]}
HasDeletion(t) ==
    \E p \in t.ckpt.files : t.ckpt.original[p] # Absent /\ t.ckpt.applied[p] = Absent

(* As long as sessions are opened, an interrupted apply is settled, except *)
(* in the cases above and for a record without files.                      *)
InterruptedApplySettles ==
    applyRec # None
        ~> \/ applyRec = None
           \/ /\ ~Committed(applyRec)
              /\ \/ Displaced(applyRec) \/ HasDeletion(applyRec)
                 \/ UnplannedText(applyRec, applyRec.ckpt.applied)

(* An interrupted restore is finished, unless a transaction file was being *)
(* written when the process died.                                          *)
InterruptedRestoreSettles ==
    restoreRec # None
        ~> restoreRec = None \/ UnplannedText(restoreRec, restoreRec.ckpt.original)

-----------------------------------------------------------------------------
(* What the state stands for while a record is pending: an uncommitted     *)
(* apply has not happened, a committed one has, and a restore has happened *)
(* once its checkpoint is consumed.  A file holding anything else was      *)
(* edited and stands for itself.                                           *)
Stands(r, p, done) ==
    IF target[p] \notin {r.ckpt.original[p], r.ckpt.applied[p], Absent} THEN target[p]
    ELSE IF done THEN r.ckpt.applied[p] ELSE r.ckpt.original[p]

LogicalBundle ==
    [p \in Paths |->
        IF applyRec # None /\ p \in applyRec.ckpt.files
            THEN Stands(applyRec, p, Committed(applyRec))
        ELSE IF restoreRec # None /\ p \in restoreRec.ckpt.files
            THEN Stands(restoreRec, p, ckpt # None)
        ELSE target[p]]

LogicalCheckpoint ==
    IF applyRec # None /\ ~Committed(applyRec) THEN applyRec.prev ELSE ckpt

LogicalSaved ==
    IF LogicalCheckpoint = None THEN None
    ELSE [files |-> LogicalCheckpoint.files,
          before |-> LogicalCheckpoint.original,
          after |-> LogicalCheckpoint.applied]

(* No apply to undo is none of those that can be undone.                   *)
ASSUME SavedAssumption ==
    None \notin [files : SUBSET Paths, before : [Paths -> File], after : [Paths -> File]]

Atomic == INSTANCE AtomicBundle WITH
            bundle <- LogicalBundle, saved <- LogicalSaved, Paths <- 1..N

(* Apply and Restore are atomic for the user, whatever interrupts them.    *)
ImplementsAtomicBundle == Atomic!AtomicSpec

=============================================================================
