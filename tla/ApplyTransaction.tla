-------------------------- MODULE ApplyTransaction --------------------------
(***************************************************************************)
(* SessionStages::apply_staged after recovery found nothing to do:         *)
(* plan_apply_transaction, execute_apply_transaction, its rollback, and    *)
(* the commit that replaces the saved checkpoint.  One action per file     *)
(* system call that a crash, a failure or another writer can separate.     *)
(***************************************************************************)
EXTENDS BundleStore

(* Mutant: a staged deletion is skipped like a rejected creation.          *)
PlannedFilesWithoutDeletions ==
    {p \in Paths : staged[p] # None /\ staged[p].content # Absent}

(* A fully rejected creation takes no part in the transaction.             *)
PlannedFiles ==
    {p \in Paths : /\ staged[p] # None
                   /\ ~(staged[p].base = Absent /\ staged[p].content = Absent)}

(* The revision that was validated is the one the disk and stage have now. *)
RevisionMatches ==
    \A p \in Paths : staged[p] # None => target[p] = staged[p].base

PlannedCheckpoint ==
    [id |-> nextId,
     files |-> PlannedFiles,
     original |-> [p \in Paths |-> IF p \in PlannedFiles THEN staged[p].base ELSE Absent],
     applied |-> [p \in Paths |-> IF p \in PlannedFiles THEN staged[p].content ELSE Absent],
     mkdir |-> ~dir /\ PlannedFiles \cap Nested # {}]

ApplyPlan ==
    /\ pc = "settled" /\ op = "apply"
    /\ memory' = ckpt
    /\ staged # NothingStaged
    /\ RevisionMatches
    /\ txn' = [tid |-> nextId, ckpt |-> PlannedCheckpoint, prev |-> ckpt]
    /\ nextId' = nextId + 1
    /\ pc' = "planned"
    /\ UNCHANGED <<disk, store, session, staged, op, job, todo, crashes, faults, edits>>

(* Nothing staged, a stale revision, or validation finding an error.       *)
ApplyRefused ==
    /\ pc = "settled" /\ op = "apply"
    /\ memory' = ckpt
    /\ Return
    /\ UNCHANGED <<disk, store, session, staged, bounds>>

PersistApply ==
    /\ pc = "planned"
    /\ applyRec = None
    /\ applyRec' = txn
    /\ Step("mkdir")
    /\ UNCHANGED <<disk, ckpt, restoreRec, stage, bounds>>

PersistApplyFails ==
    /\ pc = "planned"
    /\ \/ applyRec # None /\ UNCHANGED bounds
       \/ Fault
    /\ Return
    /\ UNCHANGED <<disk, store, stage>>

MakeDirectory ==
    /\ pc = "mkdir"
    /\ txn.ckpt.mkdir => ~dir
    /\ dir' = (dir \/ txn.ckpt.mkdir)
    /\ Loop("prepare")
    /\ UNCHANGED <<target, temp, backup, store, stage, bounds>>

MakeDirectoryFails ==
    /\ pc = "mkdir"
    /\ txn.ckpt.mkdir
    /\ \/ dir /\ UNCHANGED bounds
       \/ Fault
    /\ Step("abandon")
    /\ UNCHANGED <<disk, store, stage>>

-----------------------------------------------------------------------------
(* Phase 1 writes every replacement beside its target, whose text must be  *)
(* the base still and whose temporary name must be free.                   *)
Preparable(p) ==
    target[p] = Original(p) /\ (Applied(p) # Absent => Temp(p) = Absent)

PrepareOpen(p) ==
    /\ pc = "prepare" /\ First(p)
    /\ Preparable(p) /\ Applied(p) # Absent
    /\ SetTemp(p, Torn)
    /\ Step("prepareText")
    /\ UNCHANGED <<target, backup, dir, store, stage, bounds>>

(* The permissions of an existing file are copied, from one that is there  *)
(* to one that is there.                                                   *)
Permitted(p) == Original(p) # Absent => target[p] # Absent /\ Temp(p) # Absent

PrepareText(p) ==
    /\ pc = "prepareText" /\ First(p)
    /\ Permitted(p)
    /\ WriteText(p, Applied(p))
    /\ Visited(p, "prepare")
    /\ UNCHANGED <<backup, dir, store, stage, bounds>>

PrepareDeletion(p) ==
    /\ pc = "prepare" /\ First(p)
    /\ Preparable(p) /\ Applied(p) = Absent
    /\ Visited(p, "prepare")
    /\ UNCHANGED <<disk, store, stage, bounds>>

(* The base changed or cannot be read: only the files before this one are  *)
(* cleaned up, and nothing is removed beside it.                           *)
PrepareRefused(p) ==
    /\ pc = "prepare" /\ First(p)
    /\ \/ target[p] # Original(p) /\ UNCHANGED bounds
       \/ Fault
    /\ Revisit("cleanup")
    /\ UNCHANGED <<disk, store, stage>>

(* The replacement could not be created or written: it is removed as well. *)
PrepareFails(p) ==
    /\ pc \in {"prepare", "prepareText"} /\ First(p)
    /\ Applied(p) # Absent
    /\ \/ pc = "prepare" /\ target[p] = Original(p) /\ Temp(p) # Absent /\ UNCHANGED bounds
       \/ pc = "prepareText" /\ Original(p) # Absent /\ target[p] = Absent /\ UNCHANGED bounds
       \/ Fault
    /\ SetTemp(p, Absent)
    /\ Revisit("cleanup")
    /\ UNCHANGED <<target, backup, dir, store, stage>>

(* Another connection took the replacement away, perhaps into the bundle,  *)
(* before it was written: it has no permissions to set.                    *)
PrepareTaken(p) ==
    /\ pc = "prepareText" /\ First(p)
    /\ Original(p) # Absent /\ target[p] # Absent /\ Temp(p) = Absent
    /\ WriteText(p, Applied(p))
    /\ Revisit("cleanup")
    /\ UNCHANGED <<backup, dir, store, stage, bounds>>

PrepareDone ==
    /\ pc = "prepare" /\ todo = {}
    /\ Loop("replace")
    /\ UNCHANGED <<disk, store, stage, bounds>>

(* Phase 2: recheck the base, move it aside, put the replacement.          *)
ReplaceVerify(p) ==
    /\ pc = "replace" /\ First(p)
    /\ target[p] = Original(p)
    /\ Step("aside")
    /\ UNCHANGED <<disk, store, stage, bounds>>

ReplaceAside(p) ==
    /\ pc = "aside" /\ First(p)
    /\ \/ Original(p) # Absent /\ target[p] # Absent /\ MoveAside(p)
       \/ Original(p) = Absent /\ UNCHANGED <<target, backup>>
    /\ Step("put")
    /\ UNCHANGED <<temp, dir, store, stage, bounds>>

(* Mutant: a failed replacement cleans up without rolling back.            *)
ReplaceFailsWithoutRollback(p) ==
    /\ pc \in {"replace", "aside"} /\ First(p)
    /\ \/ pc = "replace" /\ target[p] # Original(p) /\ UNCHANGED bounds
       \/ pc = "aside" /\ Original(p) # Absent /\ target[p] = Absent /\ UNCHANGED bounds
       \/ Fault
    /\ Loop("cleanup")
    /\ UNCHANGED <<disk, store, stage>>

(* The base changed, it could not be moved, or it is gone.                 *)
ReplaceFails(p) ==
    /\ pc \in {"replace", "aside"} /\ First(p)
    /\ \/ pc = "replace" /\ target[p] # Original(p) /\ UNCHANGED bounds
       \/ pc = "aside" /\ Original(p) # Absent /\ target[p] = Absent /\ UNCHANGED bounds
       \/ Fault
    /\ Revisit("undo")
    /\ UNCHANGED <<disk, store, stage>>

ReplacePut(p) ==
    /\ pc = "put" /\ First(p)
    /\ \/ Applied(p) # Absent /\ Temp(p) # Absent /\ PutTemp(p)
       \/ Applied(p) = Absent /\ UNCHANGED <<target, temp>>
    /\ Visited(p, "replace")
    /\ UNCHANGED <<backup, dir, store, stage, bounds>>

(* The displaced original goes back first, then the files already replaced. *)
ReplacePutFails(p) ==
    /\ pc = "put" /\ First(p)
    /\ Applied(p) # Absent
    /\ \/ Temp(p) = Absent /\ UNCHANGED bounds
       \/ Fault
    /\ Goto("undoPut")
    /\ todo' = (Files \ todo) \cup {p}
    /\ UNCHANGED <<disk, store, stage>>

ReplaceDone ==
    /\ pc = "replace" /\ todo = {}
    /\ Step("commit")
    /\ UNCHANGED <<disk, store, stage, bounds>>

-----------------------------------------------------------------------------
(* Rollback of the files already replaced, newest first; every failure is  *)
(* ignored.  A restore that fails rolls back the same way.                 *)
UndoRemove(p) ==
    /\ pc = "undo" /\ Last(p)
    /\ SetTarget(p, Absent)
    /\ Step("undoPut")
    /\ UNCHANGED <<temp, backup, dir, store, stage, bounds>>

UndoPut(p) ==
    /\ pc = "undoPut" /\ Last(p)
    /\ \/ Backup(p) # Absent /\ PutBack(p)
       \/ Backup(p) = Absent /\ UNCHANGED <<target, backup>>
    /\ Visited(p, "undo")
    /\ UNCHANGED <<temp, dir, store, stage, bounds>>

UndoFails(p) ==
    /\ pc \in {"undo", "undoPut"} /\ Last(p)
    /\ Fault
    /\ \/ pc = "undo" /\ Step("undoPut")
       \/ pc = "undoPut" /\ Visited(p, "undo")
    /\ UNCHANGED <<disk, store, stage>>

UndoDone ==
    /\ pc = "undo" /\ todo = {}
    /\ Loop(IF op = "apply" THEN "cleanup" ELSE "rCleanup")
    /\ UNCHANGED <<disk, store, stage, bounds>>

(* Remove the replacements, and move back an original still displaced.     *)
StillDisplaced(p) == target[p] = Absent /\ Backup(p) # Absent

MoveBackDisplaced(p) ==
    \/ StillDisplaced(p) /\ PutBack(p)
    \/ ~StillDisplaced(p) /\ UNCHANGED <<target, backup>>

Cleanup(p) ==
    /\ pc = "cleanup" /\ First(p)
    /\ SetTemp(p, Absent)
    /\ MoveBackDisplaced(p)
    /\ Visited(p, "cleanup")
    /\ UNCHANGED <<dir, store, stage, bounds>>

CleanupFails(p) ==
    /\ pc = "cleanup" /\ First(p)
    /\ Fault
    /\ \/ UNCHANGED temp /\ MoveBackDisplaced(p)
       \/ SetTemp(p, Absent) /\ UNCHANGED <<target, backup>>
    /\ Visited(p, "cleanup")
    /\ UNCHANGED <<dir, store, stage>>

CleanupDone ==
    /\ pc = "cleanup" /\ todo = {}
    /\ RemoveCreatedDirectory
    /\ Step("abandon")
    /\ UNCHANGED <<target, temp, backup, store, stage, bounds>>

(* The handler drops its record and reports the error; the stage stays.    *)
Abandon ==
    /\ pc = "abandon"
    /\ applyRec' = None
    /\ Return
    /\ UNCHANGED <<disk, ckpt, restoreRec, stage, bounds>>

AbandonFails ==
    /\ pc = "abandon"
    /\ Fault
    /\ Return
    /\ UNCHANGED <<disk, store, stage>>

-----------------------------------------------------------------------------
(* Every creation was rejected: nothing to commit.                         *)
CommitNothing ==
    /\ pc = "commit" /\ Files = {}
    /\ memory' = None
    /\ staged' = NothingStaged
    /\ Return
    /\ UNCHANGED <<disk, store, session, bounds>>

PreviousReplaced == memory # None /\ ckpt # None /\ ckpt.id # memory.id

CommitDropPrevious ==
    /\ pc = "commit" /\ Files # {}
    /\ ~PreviousReplaced
    /\ ckpt' = IF memory = None THEN ckpt ELSE None
    /\ Step("save")
    /\ UNCHANGED <<disk, applyRec, restoreRec, stage, bounds>>

(* The commit point: from here on recovery keeps the applied files.        *)
CommitSave ==
    /\ pc = "save"
    /\ ckpt = None
    /\ ckpt' = txn.ckpt
    /\ Step("saved")
    /\ UNCHANGED <<disk, applyRec, restoreRec, stage, bounds>>

CommitFails ==
    /\ \/ pc = "commit" /\ Files # {} /\ PreviousReplaced /\ UNCHANGED bounds
       \/ pc = "commit" /\ Files # {} /\ memory # None /\ Fault
       \/ pc = "save" /\ ckpt # None /\ UNCHANGED bounds
       \/ pc = "save" /\ Fault
    /\ pc' = "rollback" /\ job' = "rollback"
    /\ UNCHANGED <<disk, store, stage, op, txn, todo>>

(* The record and the displaced originals are gone: forget the stage.      *)
ApplyFinish ==
    /\ pc = "unrecord" /\ job = "none"
    /\ applyRec' = None
    /\ memory' = txn.ckpt
    /\ staged' = NothingStaged
    /\ Return
    /\ UNCHANGED <<disk, ckpt, restoreRec, session, bounds>>

ApplyStep(p) ==
    \/ PrepareOpen(p) \/ PrepareText(p) \/ PrepareDeletion(p)
    \/ PrepareRefused(p) \/ PrepareFails(p)
    \/ ReplaceVerify(p) \/ ReplaceAside(p) \/ ReplaceFails(p)
    \/ ReplacePut(p) \/ ReplacePutFails(p)
    \/ UndoRemove(p) \/ UndoPut(p) \/ UndoFails(p)
    \/ Cleanup(p) \/ CleanupFails(p)

ApplyNext ==
    \/ \E p \in Paths : ApplyStep(p)
    \/ ApplyPlan \/ ApplyRefused \/ PersistApply \/ PersistApplyFails
    \/ MakeDirectory \/ MakeDirectoryFails \/ PrepareDone \/ ReplaceDone
    \/ UndoDone \/ CleanupDone \/ Abandon \/ AbandonFails
    \/ CommitNothing \/ CommitDropPrevious \/ CommitSave \/ CommitFails
    \/ ApplyFinish

=============================================================================
