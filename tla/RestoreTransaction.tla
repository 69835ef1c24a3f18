------------------------- MODULE RestoreTransaction -------------------------
(***************************************************************************)
(* SessionStages::restore_checkpoint after recovery found nothing to do:   *)
(* plan_restore_transaction and execute_restore_transaction, which swaps   *)
(* every applied file for its original and then consumes the checkpoint.   *)
(* A failed swap is undone by UndoRemove and UndoPut of ApplyTransaction.  *)
(***************************************************************************)
EXTENDS BundleStore

StillApplied ==
    /\ ckpt # None
    /\ \A p \in ckpt.files : target[p] = ckpt.applied[p]

(* Mutant: the artifacts are named by the next transaction's id.           *)
RestorePlanOffByOne ==
    /\ pc = "settled" /\ op = "restore"
    /\ memory' = ckpt
    /\ staged = NothingStaged
    /\ StillApplied
    /\ txn' = [tid |-> nextId + 1, ckpt |-> ckpt, prev |-> None]
    /\ nextId' = nextId + 1
    /\ pc' = "rPlanned"
    /\ UNCHANGED <<disk, store, session, staged, op, job, todo, crashes, faults, edits>>

RestorePlan ==
    /\ pc = "settled" /\ op = "restore"
    /\ memory' = ckpt
    /\ staged = NothingStaged
    /\ StillApplied
    /\ txn' = [tid |-> nextId, ckpt |-> ckpt, prev |-> None]
    /\ nextId' = nextId + 1
    /\ pc' = "rPlanned"
    /\ UNCHANGED <<disk, store, session, staged, op, job, todo, crashes, faults, edits>>

(* Staged work, no checkpoint, or an applied file that changed since.      *)
RestoreRefused ==
    /\ pc = "settled" /\ op = "restore"
    /\ ~(staged = NothingStaged /\ StillApplied)
    /\ memory' = ckpt
    /\ Return
    /\ UNCHANGED <<disk, store, session, staged, bounds>>

PersistRestore ==
    /\ pc = "rPlanned"
    /\ restoreRec = None
    /\ restoreRec' = txn
    /\ Loop("rPrepare")
    /\ UNCHANGED <<disk, ckpt, applyRec, stage, bounds>>

PersistRestoreFails ==
    /\ pc = "rPlanned"
    /\ \/ restoreRec # None /\ UNCHANGED bounds
       \/ Fault
    /\ Return
    /\ UNCHANGED <<disk, store, stage>>

-----------------------------------------------------------------------------
RestorePrepareOpen(p) ==
    /\ pc = "rPrepare" /\ First(p)
    /\ Original(p) # Absent /\ Temp(p) = Absent
    /\ SetTemp(p, Torn)
    /\ Step("rPrepareText")
    /\ UNCHANGED <<target, backup, dir, store, stage, bounds>>

(* The permissions of the file in place, if there is one, are copied.      *)
RestorePrepareText(p) ==
    /\ pc = "rPrepareText" /\ First(p)
    /\ target[p] # Absent => Temp(p) # Absent
    /\ WriteText(p, Original(p))
    /\ Visited(p, "rPrepare")
    /\ UNCHANGED <<backup, dir, store, stage, bounds>>

RestorePrepareCreation(p) ==
    /\ pc = "rPrepare" /\ First(p)
    /\ Original(p) = Absent
    /\ Visited(p, "rPrepare")
    /\ UNCHANGED <<disk, store, stage, bounds>>

(* The files before this one are cleaned up, and its own new text is gone. *)
RestorePrepareFails(p) ==
    /\ pc \in {"rPrepare", "rPrepareText"} /\ First(p)
    /\ Original(p) # Absent
    /\ \/ pc = "rPrepare" /\ Temp(p) # Absent /\ UNCHANGED bounds
       \/ Fault
    /\ SetTemp(p, Absent)
    /\ Revisit("rCleanup")
    /\ UNCHANGED <<target, backup, dir, store, stage>>

(* Another connection took the original away before it was written.        *)
RestorePrepareTaken(p) ==
    /\ pc = "rPrepareText" /\ First(p)
    /\ target[p] # Absent /\ Temp(p) = Absent
    /\ WriteText(p, Original(p))
    /\ Revisit("rCleanup")
    /\ UNCHANGED <<backup, dir, store, stage, bounds>>

RestorePrepareDone ==
    /\ pc = "rPrepare" /\ todo = {}
    /\ Loop("rReplace")
    /\ UNCHANGED <<disk, store, stage, bounds>>

RestoreVerify(p) ==
    /\ pc = "rReplace" /\ First(p)
    /\ target[p] = Applied(p)
    /\ Step("rAside")
    /\ UNCHANGED <<disk, store, stage, bounds>>

RestoreAside(p) ==
    /\ pc = "rAside" /\ First(p)
    /\ \/ Applied(p) # Absent /\ target[p] # Absent /\ MoveAside(p)
       \/ Applied(p) = Absent /\ UNCHANGED <<target, backup>>
    /\ Step("rPut")
    /\ UNCHANGED <<temp, dir, store, stage, bounds>>

RestoreFails(p) ==
    /\ pc \in {"rReplace", "rAside"} /\ First(p)
    /\ \/ pc = "rReplace" /\ target[p] # Applied(p) /\ UNCHANGED bounds
       \/ pc = "rAside" /\ Applied(p) # Absent /\ target[p] = Absent /\ UNCHANGED bounds
       \/ Fault
    /\ Revisit("undo")
    /\ UNCHANGED <<disk, store, stage>>

RestorePut(p) ==
    /\ pc = "rPut" /\ First(p)
    /\ \/ Original(p) # Absent /\ Temp(p) # Absent /\ PutTemp(p)
       \/ Original(p) = Absent /\ UNCHANGED <<target, temp>>
    /\ Visited(p, "rReplace")
    /\ UNCHANGED <<backup, dir, store, stage, bounds>>

RestorePutFails(p) ==
    /\ pc = "rPut" /\ First(p)
    /\ Original(p) # Absent
    /\ \/ Temp(p) = Absent /\ UNCHANGED bounds
       \/ Fault
    /\ Goto("undoPut")
    /\ todo' = (Files \ todo) \cup {p}
    /\ UNCHANGED <<disk, store, stage>>

RestoreReplaced ==
    /\ pc = "rReplace" /\ todo = {}
    /\ Loop("rSweep")
    /\ UNCHANGED <<disk, store, stage, bounds>>

-----------------------------------------------------------------------------
RestoreCleanup(p) ==
    /\ pc = "rCleanup" /\ First(p)
    /\ \/ SetTemp(p, Absent) /\ UNCHANGED bounds
       \/ UNCHANGED temp /\ Fault
    /\ Visited(p, "rCleanup")
    /\ UNCHANGED <<target, backup, dir, store, stage>>

RestoreCleanupDone ==
    /\ pc = "rCleanup" /\ todo = {}
    /\ Step("rAbandon")
    /\ UNCHANGED <<disk, store, stage, bounds>>

RestoreAbandon ==
    /\ pc = "rAbandon"
    /\ \/ restoreRec' = None /\ UNCHANGED bounds
       \/ UNCHANGED restoreRec /\ Fault
    /\ Return
    /\ UNCHANGED <<disk, ckpt, applyRec, stage>>

(* The displaced applied files go; a failure leaves one behind.            *)
RestoreSweep(p) ==
    /\ pc = "rSweep" /\ First(p)
    /\ \/ SetBackup(p, Absent) /\ UNCHANGED bounds
       \/ UNCHANGED backup /\ Fault
    /\ Visited(p, "rSweep")
    /\ UNCHANGED <<target, temp, dir, store, stage>>

RestoreSwept ==
    /\ pc = "rSweep" /\ todo = {}
    /\ RemoveCreatedDirectory
    /\ Step("rConsume")
    /\ UNCHANGED <<target, temp, backup, store, stage, bounds>>

CheckpointReplaced == ckpt # None /\ ckpt.id # txn.ckpt.id

(* Mutant: the checkpoint survives the restore.                            *)
RestoreConsumeNothing ==
    /\ pc = "rConsume"
    /\ ~CheckpointReplaced
    /\ Step("rUnrecord")
    /\ UNCHANGED <<disk, store, stage, bounds>>

RestoreConsume ==
    /\ pc = "rConsume"
    /\ ~CheckpointReplaced
    /\ ckpt' = None
    /\ Step("rUnrecord")
    /\ UNCHANGED <<disk, applyRec, restoreRec, stage, bounds>>

RestoreFinish ==
    /\ pc = "rUnrecord"
    /\ restoreRec' = None
    /\ memory' = None
    /\ Return
    /\ UNCHANGED <<disk, ckpt, applyRec, session, staged, bounds>>

(* The error is reported and the record stays for the next recovery.       *)
RestoreFinishFails ==
    /\ \/ pc = "rConsume" /\ CheckpointReplaced /\ UNCHANGED bounds
       \/ pc \in {"rConsume", "rUnrecord"} /\ Fault
    /\ Return
    /\ UNCHANGED <<disk, store, stage>>

RestoreStep(p) ==
    \/ RestorePrepareOpen(p) \/ RestorePrepareText(p) \/ RestorePrepareCreation(p)
    \/ RestorePrepareFails(p) \/ RestoreVerify(p) \/ RestoreAside(p) \/ RestoreFails(p)
    \/ RestorePut(p) \/ RestorePutFails(p) \/ RestoreCleanup(p) \/ RestoreSweep(p)

RestoreNext ==
    \/ \E p \in Paths : RestoreStep(p)
    \/ RestorePlan \/ RestoreRefused \/ PersistRestore \/ PersistRestoreFails
    \/ RestorePrepareDone \/ RestoreReplaced \/ RestoreCleanupDone \/ RestoreAbandon
    \/ RestoreSwept \/ RestoreConsume \/ RestoreFinish \/ RestoreFinishFails

=============================================================================
