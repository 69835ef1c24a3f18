------------------------ MODULE TransactionRecovery ------------------------
(***************************************************************************)
(* SessionStages::recover_interrupted_transaction, which every handler     *)
(* runs first, and rollback_apply_transaction, which a failed commit runs: *)
(* recover_committed_apply, recover_uncommitted_apply and                  *)
(* recover_interrupted_restore.  Both rewrites of the original texts share *)
(* one loop; job tells whose files it visits.                              *)
(***************************************************************************)
EXTENDS BundleStore

Committed(t) == ckpt # None /\ ckpt.id = t.ckpt.id

(* Mutant: displaced originals are not checked before they are removed.    *)
IntactCommittedAnyBackup(t) ==
    \A p \in t.ckpt.files :
        /\ target[p] = t.ckpt.applied[p]
        /\ temp[t.tid][p] \in {Absent, t.ckpt.applied[p]}

(* Mutant: an original already removed counts as changed.                  *)
IntactCommittedAllBackups(t) ==
    \A p \in t.ckpt.files :
        /\ target[p] = t.ckpt.applied[p]
        /\ temp[t.tid][p] \in {Absent, t.ckpt.applied[p]}
        /\ backup[t.tid][p] = t.ckpt.original[p]

(* The checks each recovery makes on every file before it changes one.     *)
IntactCommitted(t) ==
    \A p \in t.ckpt.files :
        /\ target[p] = t.ckpt.applied[p]
        /\ temp[t.tid][p] \in {Absent, t.ckpt.applied[p]}
        /\ backup[t.tid][p] \in {Absent, t.ckpt.original[p]}

(* Mutant: the bundle's own files are not checked.                         *)
IntactUncommittedAnyTarget(t) ==
    \A p \in t.ckpt.files :
        /\ temp[t.tid][p] \in {Absent, t.ckpt.applied[p]}
        /\ backup[t.tid][p] \in {Absent, t.ckpt.original[p]}

IntactUncommitted(t) ==
    \A p \in t.ckpt.files :
        /\ target[p] \in {t.ckpt.original[p], t.ckpt.applied[p]}
        /\ temp[t.tid][p] \in {Absent, t.ckpt.applied[p]}
        /\ backup[t.tid][p] \in {Absent, t.ckpt.original[p]}

IntactRestore(t) ==
    \A p \in t.ckpt.files :
        /\ temp[t.tid][p] \in {Absent, t.ckpt.original[p]}
        /\ backup[t.tid][p] \in {Absent, t.ckpt.applied[p]}
        /\ \/ target[p] \in {t.ckpt.original[p], t.ckpt.applied[p]}
           \/ /\ target[p] = Absent
              /\ temp[t.tid][p] # Absent \/ backup[t.tid][p] # Absent

PreviousMatches(t) == ckpt # None => t.prev # None /\ t.prev.id = ckpt.id

CommittedRecoverable ==
    /\ applyRec # None /\ restoreRec = None /\ applyRec.ckpt.files # {}
    /\ Committed(applyRec) /\ IntactCommitted(applyRec)

UncommittedRecoverable ==
    /\ applyRec # None /\ restoreRec = None /\ applyRec.ckpt.files # {}
    /\ ~Committed(applyRec) /\ PreviousMatches(applyRec) /\ IntactUncommitted(applyRec)

(* Mutant: a checkpoint consumed before the crash blocks recovery.         *)
RestoreRecoverableUnconsumed ==
    /\ restoreRec # None /\ applyRec = None
    /\ ckpt # None /\ Committed(restoreRec)
    /\ IntactRestore(restoreRec)

RestoreRecoverable ==
    /\ restoreRec # None /\ applyRec = None
    /\ ckpt # None => Committed(restoreRec)
    /\ IntactRestore(restoreRec)

(* persisted_checkpoint rejects a record without files.                    *)
InvalidRecord == applyRec # None /\ restoreRec = None /\ applyRec.ckpt.files = {}

(* Mutant: a pending apply is overlooked.                                  *)
NoRestoreRecord == restoreRec = None

NoRecord == applyRec = None /\ restoreRec = None

RecoveryBlocked ==
    ~ \/ NoRecord \/ InvalidRecord
      \/ CommittedRecoverable \/ UncommittedRecoverable \/ RestoreRecoverable

(* An error inside recovery: what it already did stays, as does the record. *)
(* A failed rollback also discards the displaced originals.                *)
RecoveryFails ==
    /\ \/ job = "rollback" /\ backup' = [backup EXCEPT ![txn.tid] = Blank]
       \/ job # "rollback" /\ UNCHANGED backup
    /\ Return
    /\ UNCHANGED <<target, temp, dir, store, stage>>

-----------------------------------------------------------------------------
RecoverNothing ==
    /\ pc = "recover" /\ NoRecord
    /\ Step("settled")
    /\ UNCHANGED <<disk, store, stage, bounds>>

RecoverBlocked ==
    /\ pc = "recover" /\ RecoveryBlocked
    /\ Return
    /\ UNCHANGED <<disk, store, stage, bounds>>

RecoverQuarantine ==
    /\ pc = "recover" /\ InvalidRecord
    /\ applyRec' = None
    /\ Return
    /\ UNCHANGED <<disk, ckpt, restoreRec, stage, bounds>>

Recovering(t, whose, label) ==
    /\ txn' = t /\ job' = whose /\ pc' = label
    /\ todo' = t.ckpt.files
    /\ UNCHANGED <<disk, store, stage, op, bounds>>

RecoverCommitted ==
    /\ pc = "recover" /\ CommittedRecoverable
    /\ Recovering(applyRec, "apply", "sweep")

RecoverUncommitted ==
    /\ pc = "recover" /\ UncommittedRecoverable
    /\ Recovering(applyRec, "apply", "rewrite")

RecoverRestore ==
    /\ pc = "recover" /\ RestoreRecoverable
    /\ Recovering(restoreRec, "restore", "rewrite")

(* rollback_apply_transaction, when the checkpoint could not be saved: the *)
(* one on disk, if any, is not that of the transaction.                    *)
RollbackStart ==
    /\ pc = "rollback"
    /\ PreviousMatches(txn) /\ IntactUncommitted(txn)
    /\ Loop("rewrite")
    /\ UNCHANGED <<disk, store, stage, bounds>>

RollbackBlocked ==
    /\ pc = "rollback"
    /\ ~(PreviousMatches(txn) /\ IntactUncommitted(txn))
    /\ RecoveryFails
    /\ UNCHANGED bounds

-----------------------------------------------------------------------------
(* recover_committed_apply, called by apply itself right after the commit. *)
SavedCheck ==
    /\ pc = "saved" /\ IntactCommitted(txn)
    /\ Loop("sweep")
    /\ UNCHANGED <<disk, store, stage, bounds>>

SavedChanged ==
    /\ pc = "saved" /\ ~IntactCommitted(txn)
    /\ RecoveryFails
    /\ UNCHANGED bounds

(* Mutant: the displaced originals stay.                                   *)
SweepTemporaries(p) ==
    /\ pc = "sweep" /\ First(p)
    /\ SetTemp(p, Absent)
    /\ Visited(p, "sweep")
    /\ UNCHANGED <<target, backup, dir, store, stage, bounds>>

Sweep(p) ==
    /\ pc = "sweep" /\ First(p)
    /\ SetTemp(p, Absent) /\ SetBackup(p, Absent)
    /\ Visited(p, "sweep")
    /\ UNCHANGED <<target, dir, store, stage, bounds>>

SweepDone ==
    /\ pc = "sweep" /\ todo = {}
    /\ Step("unrecord")
    /\ UNCHANGED <<disk, store, stage, bounds>>

(* Mutant: the new file takes its place before its text is written.        *)
RewriteOpenAndPut(p) ==
    /\ pc = "rewrite" /\ First(p)
    /\ Original(p) # Absent /\ target[p] # Original(p)
    /\ SetTemp(p, Torn)
    /\ Step("rewriteClear")
    /\ UNCHANGED <<target, backup, dir, store, stage, bounds>>

(* An existing file whose text is not the original one is written anew.    *)
RewriteOpen(p) ==
    /\ pc = "rewrite" /\ First(p)
    /\ Original(p) # Absent /\ target[p] # Original(p)
    /\ SetTemp(p, Torn)
    /\ Step("rewriteText")
    /\ UNCHANGED <<target, backup, dir, store, stage, bounds>>

RewriteText(p) ==
    /\ pc = "rewriteText" /\ First(p)
    /\ WriteText(p, Original(p))
    /\ Step("rewriteClear")
    /\ UNCHANGED <<backup, dir, store, stage, bounds>>

(* The permissions come from the file in place, or from the one displaced, *)
(* if either was there when the new file was opened, which is not          *)
(* remembered; they are not copied if another connection took either file. *)
RewriteTaken(p) ==
    /\ pc = "rewriteText" /\ First(p)
    /\ target[p] = Absent \/ Temp(p) = Absent
    /\ WriteText(p, Original(p))
    /\ \/ job = "rollback" /\ backup' = [backup EXCEPT ![txn.tid] = Blank]
       \/ job # "rollback" /\ UNCHANGED backup
    /\ Return
    /\ UNCHANGED <<dir, store, stage, bounds>>

RewriteClear(p) ==
    /\ pc = "rewriteClear" /\ First(p)
    /\ SetTarget(p, Absent)
    /\ Step("rewritePut")
    /\ UNCHANGED <<temp, backup, dir, store, stage, bounds>>

RewritePut(p) ==
    /\ pc = "rewritePut" /\ First(p)
    /\ Temp(p) # Absent
    /\ PutTemp(p)
    /\ Step("rewriteSweep")
    /\ UNCHANGED <<backup, dir, store, stage, bounds>>

(* Another connection's recovery or cleanup removed the new text.          *)
RewritePutFails(p) ==
    /\ pc = "rewritePut" /\ First(p)
    /\ Temp(p) = Absent
    /\ RecoveryFails
    /\ UNCHANGED bounds

RewriteKeep(p) ==
    /\ pc = "rewrite" /\ First(p)
    /\ Original(p) # Absent /\ target[p] = Original(p)
    /\ Step("rewriteSweep")
    /\ UNCHANGED <<disk, store, stage, bounds>>

RewriteCreation(p) ==
    /\ pc = "rewrite" /\ First(p)
    /\ Original(p) = Absent
    /\ SetTarget(p, Absent)
    /\ Step("rewriteSweep")
    /\ UNCHANGED <<temp, backup, dir, store, stage, bounds>>

(* Mutant: the loop does not move on to the next file.                     *)
RewriteSweepAgain(p) ==
    /\ pc = "rewriteSweep" /\ First(p)
    /\ SetTemp(p, Absent) /\ SetBackup(p, Absent)
    /\ Step("rewrite")
    /\ UNCHANGED <<target, dir, store, stage, bounds>>

RewriteSweep(p) ==
    /\ pc = "rewriteSweep" /\ First(p)
    /\ SetTemp(p, Absent) /\ SetBackup(p, Absent)
    /\ Visited(p, "rewrite")
    /\ UNCHANGED <<target, dir, store, stage, bounds>>

(* A new text that another connection opened since this one was put stays: *)
(* the recovery of an apply does not look for it again.                    *)
RewriteSweepBackup(p) ==
    /\ pc = "rewriteSweep" /\ First(p)
    /\ job # "restore" /\ Original(p) # Absent /\ Temp(p) # Absent
    /\ SetBackup(p, Absent)
    /\ Visited(p, "rewrite")
    /\ UNCHANGED <<target, temp, dir, store, stage, bounds>>

(* Mutant: the directories that apply created stay.                        *)
RewriteDoneKeepingDirectory ==
    /\ pc = "rewrite" /\ todo = {}
    /\ Step("verify")
    /\ UNCHANGED <<disk, store, stage, bounds>>

RewriteDone ==
    /\ pc = "rewrite" /\ todo = {}
    /\ RemoveCreatedDirectory
    /\ Step("verify")
    /\ UNCHANGED <<target, temp, backup, store, stage, bounds>>

(* verify_recovered_originals expects the original text of modified files  *)
(* only: any other file must be gone.                                      *)
RecoveredOriginals ==
    \A p \in Files :
        /\ target[p] = IF Applied(p) # Absent THEN Original(p) ELSE Absent
        /\ Temp(p) = Absent /\ Backup(p) = Absent

RestoredCheckpoint == \A p \in Files : target[p] = Original(p)

Verified == IF job = "restore" THEN RestoredCheckpoint ELSE RecoveredOriginals

VerifyDone ==
    /\ pc = "verify" /\ Verified
    /\ Step(IF job = "restore" THEN "consume" ELSE "reinstate")
    /\ UNCHANGED <<disk, store, stage, bounds>>

VerifyFails ==
    /\ pc = "verify" /\ ~Verified
    /\ RecoveryFails
    /\ UNCHANGED bounds

(* Mutant: the older checkpoint is not put back.                           *)
ReinstateNothing ==
    /\ pc = "reinstate"
    /\ Step("unrecord")
    /\ UNCHANGED <<disk, store, stage, bounds>>

Reinstate ==
    /\ pc = "reinstate"
    /\ ckpt' = IF ckpt = None THEN txn.prev ELSE ckpt
    /\ Step("unrecord")
    /\ UNCHANGED <<disk, applyRec, restoreRec, stage, bounds>>

(* Recovery puts the older checkpoint back if it found none at its start.  *)
(* Another connection may have saved one since, which is an error, or      *)
(* removed the one that was found, which goes unnoticed.                   *)
ReinstateFails ==
    /\ pc = "reinstate" /\ job = "apply"
    /\ txn.prev # None /\ ckpt # None
    /\ RecoveryFails
    /\ UNCHANGED bounds

ReinstateNotNeeded ==
    /\ pc = "reinstate" /\ job = "apply"
    /\ txn.prev # None /\ ckpt = None
    /\ Step("unrecord")
    /\ UNCHANGED <<disk, store, stage, bounds>>

Consume ==
    /\ pc = "consume"
    /\ ckpt # None => Committed(txn)
    /\ ckpt' = None
    /\ Step("unrecord")
    /\ UNCHANGED <<disk, applyRec, restoreRec, stage, bounds>>

(* Another connection replaced the checkpoint since the recovery began.    *)
ConsumeFails ==
    /\ pc = "consume"
    /\ ckpt # None /\ ~Committed(txn)
    /\ RecoveryFails
    /\ UNCHANGED bounds

(* The record goes last; the handler continues on the settled bundle.      *)
RecoveredApply ==
    /\ pc = "unrecord" /\ job = "apply" /\ applyRec # None
    /\ applyRec' = None
    /\ pc' = "settled" /\ job' = "none" /\ txn' = None
    /\ UNCHANGED <<disk, ckpt, restoreRec, stage, op, todo, bounds>>

RecoveredRestore ==
    /\ pc = "unrecord" /\ job = "restore" /\ restoreRec # None
    /\ restoreRec' = None
    /\ pc' = "settled" /\ job' = "none" /\ txn' = None
    /\ UNCHANGED <<disk, ckpt, applyRec, stage, op, todo, bounds>>

RolledBack ==
    /\ pc = "unrecord" /\ job = "rollback"
    /\ applyRec' = None
    /\ Return
    /\ UNCHANGED <<disk, ckpt, restoreRec, stage, bounds>>

(* Removing a record another connection already removed is an error.       *)
RecordVanished ==
    /\ pc = "unrecord"
    /\ \/ job = "apply" /\ applyRec = None
       \/ job = "restore" /\ restoreRec = None
    /\ RecoveryFails
    /\ UNCHANGED bounds

(* Any file system call of a recovery may fail.                            *)
RecoveryIoError ==
    /\ pc \in RecoveryPcs
    /\ Fault
    /\ RecoveryFails

RegisterDone ==
    /\ pc = "settled" /\ op = "register"
    /\ session' = TRUE
    /\ staged' = NothingStaged
    /\ memory' = ckpt
    /\ Return
    /\ UNCHANGED <<disk, store, bounds>>

RecoveryStep(p) ==
    \/ Sweep(p) \/ RewriteOpen(p) \/ RewriteText(p) \/ RewriteClear(p)
    \/ RewritePut(p) \/ RewriteKeep(p)
    \/ RewriteCreation(p) \/ RewriteSweep(p)

RecoveryNext ==
    \/ \E p \in Paths : RecoveryStep(p)
    \/ RecoverNothing \/ RecoverBlocked \/ RecoverQuarantine
    \/ RecoverCommitted \/ RecoverUncommitted \/ RecoverRestore
    \/ RollbackStart \/ RollbackBlocked \/ SavedCheck \/ SavedChanged \/ SweepDone
    \/ RewriteDone \/ VerifyDone \/ VerifyFails \/ Reinstate \/ Consume
    \/ RecoveredApply \/ RecoveredRestore \/ RolledBack
    \/ RecoveryIoError \/ RegisterDone

=============================================================================
