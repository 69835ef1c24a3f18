----------------------- MODULE CheckpointedStage_proofs -----------------------
(***************************************************************************)
(* Type correctness of CheckpointedStage, and that recovery never finds an *)
(* interrupted apply and an interrupted restore of one bundle together,    *)
(* for every number of paths, texts, transactions, crashes and failures.   *)
(*                                                                         *)
(* Then the files an apply or a restore puts beside those of the bundle,   *)
(* whatever is edited: they go with the transaction unless a call fails,   *)
(* and an edit made at any moment is lost at the steps of Window only.     *)
(* And the stage is cleared when what was reviewed is in the bundle.       *)
(***************************************************************************)
EXTENDS CheckpointedStage, TLAPS

(* The handler has not planned or taken over a transaction yet.            *)
Unplanned == pc \in {"idle", "recover", "settled"}

(* Past these points there is a transaction to work on.                    *)
TransactionPlanned == ~Unplanned => txn \in Transaction

(* Only a recovery or a rollback under way has a job.                      *)
JobRecovers == job # "none" => pc \in RecoveryPcs \ {"recover"}

(* A handler that will plan a transaction has an id left for it.           *)
IdLeft ==
    op \in {"apply", "restore"} /\ (pc \in {"recover", "settled"} \/ job \in {"apply", "restore"})
        => nextId <= MaxIds

ControlInv == TransactionPlanned /\ JobRecovers /\ IdLeft

(* No record is pending when a handler plans; recovery takes one record    *)
(* over only when the other kind is absent.                                *)
RecordsInv ==
    /\ RecordsExclusive
    /\ pc \in {"settled", "planned", "rPlanned"} => NoRecord
    /\ job = "apply" => restoreRec = None
    /\ job = "restore" => applyRec = None

IInv == TypeOK /\ ControlInv

-----------------------------------------------------------------------------
(* What the parts of a checkpoint are.                                     *)
LEMMA CheckpointParts ==
    ASSUME NEW c \in Checkpoint
    PROVE  /\ c.id \in Ids /\ c.files \in SUBSET Paths /\ c.mkdir \in BOOLEAN
           /\ \A p \in Paths : c.original[p] \in File /\ c.applied[p] \in File
BY DEF Checkpoint

(* What the parts of a transaction are.                                    *)
LEMMA TransactionParts ==
    ASSUME NEW t \in Transaction
    PROVE  /\ t.tid \in Ids /\ t.ckpt \in Checkpoint /\ t.prev \in Checkpoint \cup {None}
           /\ t.ckpt.files \in SUBSET Paths /\ t.ckpt.mkdir \in BOOLEAN
           /\ \A p \in Paths : t.ckpt.original[p] \in File /\ t.ckpt.applied[p] \in File
<1>1. t.tid \in Ids /\ t.ckpt \in Checkpoint /\ t.prev \in Checkpoint \cup {None}
  BY DEF Transaction
<1> QED
  BY <1>1, CheckpointParts

(* Writing a file beside the bundle keeps the files of every transaction.  *)
LEMMA ArtifactType ==
    ASSUME NEW f \in [Ids -> [Paths -> File]], NEW i \in Ids, NEW p \in Paths, NEW text \in File
    PROVE  [f EXCEPT ![i][p] = text] \in [Ids -> [Paths -> File]]
OBVIOUS

(* What the writing helpers do to the type of what they write.             *)
LEMMA WriteTypes ==
    ASSUME DiskTypeOK, txn \in Transaction, NEW p \in Paths, NEW text \in File
    PROVE  /\ Original(p) \in File /\ Applied(p) \in File
           /\ Temp(p) \in File /\ Backup(p) \in File /\ target[p] \in File
           /\ SetTarget(p, text) => target' \in [Paths -> File]
           /\ SetTemp(p, text) => temp' \in [Ids -> [Paths -> File]]
           /\ SetBackup(p, text) => backup' \in [Ids -> [Paths -> File]]
           /\ WriteText(p, text) => /\ target' \in [Paths -> File]
                                    /\ temp' \in [Ids -> [Paths -> File]]
<1>1. txn.tid \in Ids /\ Original(p) \in File /\ Applied(p) \in File
  BY TransactionParts DEF Original, Applied
<1>2. Temp(p) \in File /\ Backup(p) \in File /\ target[p] \in File
  BY <1>1 DEF DiskTypeOK, Temp, Backup
<1>3. SetTarget(p, text) => target' \in [Paths -> File]
  BY DEF DiskTypeOK, SetTarget
<1>4. SetTemp(p, text) => temp' \in [Ids -> [Paths -> File]]
  BY <1>1, ArtifactType DEF DiskTypeOK, SetTemp
<1>5. SetBackup(p, text) => backup' \in [Ids -> [Paths -> File]]
  BY <1>1, ArtifactType DEF DiskTypeOK, SetBackup
<1>6. WriteText(p, text) => target' \in [Paths -> File]
  BY DEF DiskTypeOK, WriteText
<1>7. WriteText(p, text) => temp' \in [Ids -> [Paths -> File]]
  BY <1>1 DEF DiskTypeOK, WriteText
<1> QED
  BY <1>1, <1>2, <1>3, <1>4, <1>5, <1>6, <1>7

(* The moves between a file, its replacement and its backup.               *)
LEMMA MoveTypes ==
    ASSUME DiskTypeOK, txn \in Transaction, NEW p \in Paths
    PROVE  /\ MoveAside(p) => /\ target' \in [Paths -> File]
                              /\ backup' \in [Ids -> [Paths -> File]]
           /\ PutTemp(p) => /\ target' \in [Paths -> File]
                            /\ temp' \in [Ids -> [Paths -> File]]
           /\ PutBack(p) => /\ target' \in [Paths -> File]
                            /\ backup' \in [Ids -> [Paths -> File]]
<1>1. Absent \in File
  BY DEF File
<1> QED
  BY <1>1, WriteTypes DEF MoveAside, PutTemp, PutBack

(* A failure stays within its bound.                                       *)
LEMMA FaultType ==
    ASSUME BoundsTypeOK, Fault
    PROVE  BoundsTypeOK' /\ nextId' = nextId
BY BoundAssumption DEF BoundsTypeOK, Fault

(* While a transaction runs, its files are paths.                          *)
LEMMA Working ==
    ASSUME IInv, ~Unplanned
    PROVE  txn \in Transaction /\ Files \in SUBSET Paths
BY TransactionParts DEF IInv, ControlInv, TransactionPlanned, Files

(* Nothing staged is a stage.                                              *)
LEMMA NothingStagedType == NothingStaged \in Stages
BY DEF NothingStaged, Stages

(* The checkpoint that Apply plans is one.                                 *)
LEMMA PlannedType ==
    ASSUME TypeOK, nextId \in Ids
    PROVE  PlannedCheckpoint \in Checkpoint
<1>1. PlannedFiles \in SUBSET Paths /\ (~dir /\ PlannedFiles \cap Nested # {}) \in BOOLEAN
  BY DEF PlannedFiles
<1>2. \A p \in PlannedFiles : staged[p].base \in File /\ staged[p].content \in File
  BY DEF PlannedFiles, TypeOK, StageTypeOK, Stages, StagedFile
<1>3. [p \in Paths |-> IF p \in PlannedFiles THEN staged[p].base ELSE Absent] \in [Paths -> File]
  BY <1>2 DEF File
<1>4. [p \in Paths |-> IF p \in PlannedFiles THEN staged[p].content ELSE Absent] \in [Paths -> File]
  BY <1>2 DEF File
<1> QED
  BY <1>1, <1>3, <1>4 DEF PlannedCheckpoint, Checkpoint

(* A recovery that fails leaves every file a file.                         *)
LEMMA RecoveryFailsType ==
    ASSUME IInv, RecoveryFails, job = "rollback" => ~Unplanned
    PROVE  DiskTypeOK' /\ StoreTypeOK' /\ StageTypeOK' /\ ControlTypeOK' /\ ControlInv'
<1>1. backup' \in [Ids -> [Paths -> File]]
  <2>1. CASE job = "rollback"
    <3>1. txn.tid \in Ids /\ Blank \in [Paths -> File]
      BY <2>1, Working, TransactionParts DEF Blank, File
    <3> QED
      BY <2>1, <3>1 DEF RecoveryFails, IInv, TypeOK, DiskTypeOK
  <2>2. CASE job # "rollback"
    BY <2>2 DEF RecoveryFails, IInv, TypeOK, DiskTypeOK
  <2> QED
    BY <2>1, <2>2
<1>2. DiskTypeOK' /\ StoreTypeOK' /\ StageTypeOK'
  BY <1>1 DEF RecoveryFails, IInv, TypeOK, DiskTypeOK, StoreTypeOK, StageTypeOK, store, stage
<1>3. ControlTypeOK' /\ ControlInv'
  BY DEF RecoveryFails, Return, ControlTypeOK, ControlInv, TransactionPlanned, Unplanned,
         JobRecovers, IdLeft, Ops, Pcs, Jobs
<1> QED
  BY <1>2, <1>3

(* A step of apply on one file keeps the invariant.                        *)
LEMMA ApplyStepInv ==
    ASSUME IInv, NEW p \in Paths, ApplyStep(p)
    PROVE  IInv'
<1> USE DEF IInv, TypeOK, StoreTypeOK, StageTypeOK, ControlTypeOK, BoundsTypeOK,
            ControlInv, TransactionPlanned, Unplanned, JobRecovers, IdLeft,
            Pcs, ApplyPcs, RecoveryPcs, RestorePcs, Jobs, Ops,
            disk, store, stage, bounds, Goto, Step, Loop, Visited, Revisit, Return
<1>1. CASE PrepareOpen(p)
  <2>1. DiskTypeOK'
    BY <1>1, Working, WriteTypes DEF DiskTypeOK, PrepareOpen, File
  <2>2. StoreTypeOK' /\ StageTypeOK' /\ ControlTypeOK' /\ BoundsTypeOK' /\ ControlInv'
    BY <1>1, Working DEF PrepareOpen
  <2> QED
    BY <2>1, <2>2
<1>2. CASE PrepareText(p)
  <2>1. DiskTypeOK'
    BY <1>2, Working, WriteTypes DEF DiskTypeOK, PrepareText
  <2>2. StoreTypeOK' /\ StageTypeOK' /\ ControlTypeOK' /\ BoundsTypeOK' /\ ControlInv'
    BY <1>2, Working DEF PrepareText
  <2> QED
    BY <2>1, <2>2
<1>3. CASE PrepareDeletion(p)
  BY <1>3, Working DEF DiskTypeOK, PrepareDeletion
<1>4. CASE PrepareFails(p)
  <2>1. DiskTypeOK'
    BY <1>4, Working, WriteTypes DEF DiskTypeOK, PrepareFails, File
  <2>2. StoreTypeOK' /\ StageTypeOK' /\ ControlTypeOK' /\ BoundsTypeOK' /\ ControlInv'
    BY <1>4, Working, FaultType DEF PrepareFails
  <2> QED
    BY <2>1, <2>2
<1>4a. CASE PrepareRefused(p)
  BY <1>4a, Working, FaultType DEF DiskTypeOK, PrepareRefused
<1>5. CASE ReplaceVerify(p)
  BY <1>5, Working DEF DiskTypeOK, ReplaceVerify
<1>6. CASE ReplaceAside(p)
  <2>1. DiskTypeOK'
    BY <1>6, Working, MoveTypes DEF DiskTypeOK, ReplaceAside
  <2>2. StoreTypeOK' /\ StageTypeOK' /\ ControlTypeOK' /\ BoundsTypeOK' /\ ControlInv'
    BY <1>6, Working DEF ReplaceAside
  <2> QED
    BY <2>1, <2>2
<1>7. CASE ReplaceFails(p)
  BY <1>7, Working, FaultType DEF DiskTypeOK, ReplaceFails
<1>8. CASE ReplacePut(p)
  <2>1. DiskTypeOK'
    BY <1>8, Working, MoveTypes DEF DiskTypeOK, ReplacePut
  <2>2. StoreTypeOK' /\ StageTypeOK' /\ ControlTypeOK' /\ BoundsTypeOK' /\ ControlInv'
    BY <1>8, Working DEF ReplacePut
  <2> QED
    BY <2>1, <2>2
<1>9. CASE ReplacePutFails(p)
  BY <1>9, Working, FaultType DEF DiskTypeOK, ReplacePutFails
<1>10. CASE UndoRemove(p)
  <2>1. DiskTypeOK'
    BY <1>10, Working, WriteTypes DEF DiskTypeOK, UndoRemove, File
  <2>2. StoreTypeOK' /\ StageTypeOK' /\ ControlTypeOK' /\ BoundsTypeOK' /\ ControlInv'
    BY <1>10, Working DEF UndoRemove
  <2> QED
    BY <2>1, <2>2
<1>11. CASE UndoPut(p)
  <2>1. DiskTypeOK'
    BY <1>11, Working, MoveTypes DEF DiskTypeOK, UndoPut
  <2>2. StoreTypeOK' /\ StageTypeOK' /\ ControlTypeOK' /\ BoundsTypeOK' /\ ControlInv'
    BY <1>11, Working DEF UndoPut
  <2> QED
    BY <2>1, <2>2
<1>12. CASE UndoFails(p)
  BY <1>12, Working, FaultType DEF DiskTypeOK, UndoFails
<1>13. CASE Cleanup(p)
  <2>1. DiskTypeOK'
    BY <1>13, Working, WriteTypes, MoveTypes DEF DiskTypeOK, Cleanup, File, MoveBackDisplaced
  <2>2. StoreTypeOK' /\ StageTypeOK' /\ ControlTypeOK' /\ BoundsTypeOK' /\ ControlInv'
    BY <1>13, Working DEF Cleanup
  <2> QED
    BY <2>1, <2>2
<1>14. CASE CleanupFails(p)
  <2>1. DiskTypeOK'
    BY <1>14, Working, WriteTypes, MoveTypes DEF DiskTypeOK, CleanupFails, File, MoveBackDisplaced
  <2>2. StoreTypeOK' /\ StageTypeOK' /\ ControlTypeOK' /\ BoundsTypeOK' /\ ControlInv'
    BY <1>14, Working, FaultType DEF CleanupFails
  <2> QED
    BY <2>1, <2>2
<1> QED
  BY <1>1, <1>2, <1>3, <1>4, <1>4a, <1>5, <1>6, <1>7, <1>8, <1>9, <1>10, <1>11, <1>12, <1>13,
     <1>14 DEF ApplyStep

(* A step of apply keeps the invariant.                                    *)
LEMMA ApplyNextInv ==
    ASSUME IInv, ApplyNext
    PROVE  IInv'
<1> USE DEF IInv, TypeOK, StoreTypeOK, StageTypeOK, ControlTypeOK, BoundsTypeOK,
            ControlInv, TransactionPlanned, Unplanned, JobRecovers, IdLeft,
            Pcs, ApplyPcs, RecoveryPcs, RestorePcs, Jobs, Ops,
            disk, store, stage, bounds, Goto, Step, Loop, Visited, Revisit, Return
<1>1. CASE ApplyPlan
  <2>1. DiskTypeOK'
    BY <1>1 DEF DiskTypeOK, ApplyPlan
  <2>2. nextId \in Ids
    BY <1>1 DEF ApplyPlan, Ids
  <2>3. txn' \in Transaction
    BY <1>1, <2>2, PlannedType DEF ApplyPlan, Transaction
  <2>4. StoreTypeOK' /\ StageTypeOK' /\ ControlTypeOK' /\ BoundsTypeOK' /\ ControlInv'
    BY <1>1, <2>2, <2>3, BoundAssumption DEF ApplyPlan, Ids
  <2> QED
    BY <2>1, <2>4
<1>2. CASE ApplyRefused
  BY <1>2 DEF DiskTypeOK, ApplyRefused
<1>3. CASE PersistApply
  BY <1>3, Working DEF DiskTypeOK, PersistApply
<1>4. CASE PersistApplyFails
  BY <1>4, FaultType DEF DiskTypeOK, PersistApplyFails
<1>5. CASE MakeDirectory
  <2>1. DiskTypeOK'
    BY <1>5, Working DEF DiskTypeOK, MakeDirectory
  <2>2. StoreTypeOK' /\ StageTypeOK' /\ ControlTypeOK' /\ BoundsTypeOK' /\ ControlInv'
    BY <1>5, Working DEF MakeDirectory
  <2> QED
    BY <2>1, <2>2
<1>6. CASE MakeDirectoryFails
  BY <1>6, Working, FaultType DEF DiskTypeOK, MakeDirectoryFails
<1>7. CASE PrepareDone
  BY <1>7, Working DEF DiskTypeOK, PrepareDone
<1>8. CASE ReplaceDone
  BY <1>8, Working DEF DiskTypeOK, ReplaceDone
<1>9. CASE UndoDone
  BY <1>9, Working DEF DiskTypeOK, UndoDone
<1>10. CASE CleanupDone
  <2>1. DiskTypeOK'
    BY <1>10, Working DEF DiskTypeOK, CleanupDone, RemoveCreatedDirectory
  <2>2. StoreTypeOK' /\ StageTypeOK' /\ ControlTypeOK' /\ BoundsTypeOK' /\ ControlInv'
    BY <1>10, Working DEF CleanupDone
  <2> QED
    BY <2>1, <2>2
<1>11. CASE Abandon
  BY <1>11 DEF DiskTypeOK, Abandon
<1>12. CASE AbandonFails
  BY <1>12, FaultType DEF DiskTypeOK, AbandonFails
<1>13. CASE CommitNothing
  BY <1>13, Working, NothingStagedType DEF DiskTypeOK, CommitNothing
<1>14. CASE CommitDropPrevious
  BY <1>14, Working DEF DiskTypeOK, CommitDropPrevious
<1>15. CASE CommitSave
  BY <1>15, Working, TransactionParts DEF DiskTypeOK, CommitSave
<1>16. CASE CommitFails
  BY <1>16, Working, FaultType DEF DiskTypeOK, CommitFails
<1>17. CASE ApplyFinish
  BY <1>17, NothingStagedType, TransactionParts DEF DiskTypeOK, ApplyFinish
<1>18. CASE \E p \in Paths : ApplyStep(p)
  BY <1>18, ApplyStepInv
<1> QED
  BY <1>1, <1>2, <1>3, <1>4, <1>5, <1>6, <1>7, <1>8, <1>9, <1>10, <1>11, <1>12, <1>13, <1>14,
     <1>15, <1>16, <1>17, <1>18 DEF ApplyNext

(* A step of restore on one file keeps the invariant.                      *)
LEMMA RestoreStepInv ==
    ASSUME IInv, NEW p \in Paths, RestoreStep(p)
    PROVE  IInv'
<1> USE DEF IInv, TypeOK, StoreTypeOK, StageTypeOK, ControlTypeOK, BoundsTypeOK,
            ControlInv, TransactionPlanned, Unplanned, JobRecovers, IdLeft,
            Pcs, ApplyPcs, RecoveryPcs, RestorePcs, Jobs, Ops,
            disk, store, stage, bounds, Goto, Step, Loop, Visited, Revisit, Return
<1>1. CASE RestorePrepareOpen(p)
  <2>1. DiskTypeOK'
    BY <1>1, Working, WriteTypes DEF DiskTypeOK, RestorePrepareOpen, File
  <2>2. StoreTypeOK' /\ StageTypeOK' /\ ControlTypeOK' /\ BoundsTypeOK' /\ ControlInv'
    BY <1>1, Working DEF RestorePrepareOpen
  <2> QED
    BY <2>1, <2>2
<1>2. CASE RestorePrepareText(p)
  <2>1. DiskTypeOK'
    BY <1>2, Working, WriteTypes DEF DiskTypeOK, RestorePrepareText
  <2>2. StoreTypeOK' /\ StageTypeOK' /\ ControlTypeOK' /\ BoundsTypeOK' /\ ControlInv'
    BY <1>2, Working DEF RestorePrepareText
  <2> QED
    BY <2>1, <2>2
<1>3. CASE RestorePrepareCreation(p)
  BY <1>3, Working DEF DiskTypeOK, RestorePrepareCreation
<1>4. CASE RestorePrepareFails(p)
  <2>1. DiskTypeOK'
    BY <1>4, Working, WriteTypes DEF DiskTypeOK, RestorePrepareFails, File
  <2>2. StoreTypeOK' /\ StageTypeOK' /\ ControlTypeOK' /\ BoundsTypeOK' /\ ControlInv'
    BY <1>4, Working, FaultType DEF RestorePrepareFails
  <2> QED
    BY <2>1, <2>2
<1>5. CASE RestoreVerify(p)
  BY <1>5, Working DEF DiskTypeOK, RestoreVerify
<1>6. CASE RestoreAside(p)
  <2>1. DiskTypeOK'
    BY <1>6, Working, MoveTypes DEF DiskTypeOK, RestoreAside
  <2>2. StoreTypeOK' /\ StageTypeOK' /\ ControlTypeOK' /\ BoundsTypeOK' /\ ControlInv'
    BY <1>6, Working DEF RestoreAside
  <2> QED
    BY <2>1, <2>2
<1>7. CASE RestoreFails(p)
  BY <1>7, Working, FaultType DEF DiskTypeOK, RestoreFails
<1>8. CASE RestorePut(p)
  <2>1. DiskTypeOK'
    BY <1>8, Working, MoveTypes DEF DiskTypeOK, RestorePut
  <2>2. StoreTypeOK' /\ StageTypeOK' /\ ControlTypeOK' /\ BoundsTypeOK' /\ ControlInv'
    BY <1>8, Working DEF RestorePut
  <2> QED
    BY <2>1, <2>2
<1>9. CASE RestorePutFails(p)
  BY <1>9, Working, FaultType DEF DiskTypeOK, RestorePutFails
<1>10. CASE RestoreCleanup(p)
  <2>1. DiskTypeOK'
    BY <1>10, Working, WriteTypes DEF DiskTypeOK, RestoreCleanup, File
  <2>2. StoreTypeOK' /\ StageTypeOK' /\ ControlTypeOK' /\ BoundsTypeOK' /\ ControlInv'
    BY <1>10, Working, FaultType DEF RestoreCleanup
  <2> QED
    BY <2>1, <2>2
<1>11. CASE RestoreSweep(p)
  <2>1. DiskTypeOK'
    BY <1>11, Working, WriteTypes DEF DiskTypeOK, RestoreSweep, File
  <2>2. StoreTypeOK' /\ StageTypeOK' /\ ControlTypeOK' /\ BoundsTypeOK' /\ ControlInv'
    BY <1>11, Working, FaultType DEF RestoreSweep
  <2> QED
    BY <2>1, <2>2
<1> QED
  BY <1>1, <1>2, <1>3, <1>4, <1>5, <1>6, <1>7, <1>8, <1>9, <1>10, <1>11 DEF RestoreStep

(* A step of restore keeps the invariant.                                  *)
LEMMA RestoreNextInv ==
    ASSUME IInv, RestoreNext
    PROVE  IInv'
<1> USE DEF IInv, TypeOK, StoreTypeOK, StageTypeOK, ControlTypeOK, BoundsTypeOK,
            ControlInv, TransactionPlanned, Unplanned, JobRecovers, IdLeft,
            Pcs, ApplyPcs, RecoveryPcs, RestorePcs, Jobs, Ops,
            disk, store, stage, bounds, Goto, Step, Loop, Visited, Revisit, Return
<1>1. CASE RestorePlan
  <2>1. DiskTypeOK'
    BY <1>1 DEF DiskTypeOK, RestorePlan
  <2>2. nextId \in Ids
    BY <1>1 DEF RestorePlan, Ids
  <2>3. txn' \in Transaction
    BY <1>1, <2>2 DEF RestorePlan, Transaction, StillApplied
  <2>4. StoreTypeOK' /\ StageTypeOK' /\ ControlTypeOK' /\ BoundsTypeOK' /\ ControlInv'
    BY <1>1, <2>2, <2>3, BoundAssumption DEF RestorePlan, Ids
  <2> QED
    BY <2>1, <2>4
<1>2. CASE RestoreRefused
  BY <1>2, NothingStagedType DEF DiskTypeOK, RestoreRefused
<1>3. CASE PersistRestore
  BY <1>3, Working DEF DiskTypeOK, PersistRestore
<1>4. CASE PersistRestoreFails
  BY <1>4, FaultType DEF DiskTypeOK, PersistRestoreFails
<1>5. CASE RestorePrepareDone
  BY <1>5, Working DEF DiskTypeOK, RestorePrepareDone
<1>6. CASE RestoreReplaced
  BY <1>6, Working DEF DiskTypeOK, RestoreReplaced
<1>7. CASE RestoreCleanupDone
  BY <1>7, Working DEF DiskTypeOK, RestoreCleanupDone
<1>8. CASE RestoreAbandon
  BY <1>8, FaultType DEF DiskTypeOK, RestoreAbandon
<1>9. CASE RestoreSwept
  <2>1. DiskTypeOK'
    BY <1>9, Working DEF DiskTypeOK, RestoreSwept, RemoveCreatedDirectory
  <2>2. StoreTypeOK' /\ StageTypeOK' /\ ControlTypeOK' /\ BoundsTypeOK' /\ ControlInv'
    BY <1>9, Working DEF RestoreSwept
  <2> QED
    BY <2>1, <2>2
<1>10. CASE RestoreConsume
  BY <1>10, Working DEF DiskTypeOK, RestoreConsume
<1>11. CASE RestoreFinish
  BY <1>11 DEF DiskTypeOK, RestoreFinish
<1>12. CASE RestoreFinishFails
  BY <1>12, FaultType DEF DiskTypeOK, RestoreFinishFails
<1>13. CASE \E p \in Paths : RestoreStep(p)
  BY <1>13, RestoreStepInv
<1> QED
  BY <1>1, <1>2, <1>3, <1>4, <1>5, <1>6, <1>7, <1>8, <1>9, <1>10, <1>11, <1>12, <1>13 DEF RestoreNext

(* A step of recovery on one file keeps the invariant.                     *)
LEMMA RecoveryStepInv ==
    ASSUME IInv, NEW p \in Paths, RecoveryStep(p)
    PROVE  IInv'
<1> USE DEF IInv, TypeOK, StoreTypeOK, StageTypeOK, ControlTypeOK, BoundsTypeOK,
            ControlInv, TransactionPlanned, Unplanned, JobRecovers, IdLeft,
            Pcs, ApplyPcs, RecoveryPcs, RestorePcs, Jobs, Ops,
            disk, store, stage, bounds, Goto, Step, Loop, Visited, Revisit, Return
<1>1. CASE Sweep(p)
  <2>1. DiskTypeOK'
    BY <1>1, Working, WriteTypes DEF DiskTypeOK, Sweep, File
  <2>2. StoreTypeOK' /\ StageTypeOK' /\ ControlTypeOK' /\ BoundsTypeOK' /\ ControlInv'
    BY <1>1, Working DEF Sweep
  <2> QED
    BY <2>1, <2>2
<1>2. CASE RewriteOpen(p)
  <2>1. DiskTypeOK'
    BY <1>2, Working, WriteTypes DEF DiskTypeOK, RewriteOpen, File
  <2>2. StoreTypeOK' /\ StageTypeOK' /\ ControlTypeOK' /\ BoundsTypeOK' /\ ControlInv'
    BY <1>2, Working DEF RewriteOpen
  <2> QED
    BY <2>1, <2>2
<1>3. CASE RewriteText(p)
  <2>1. DiskTypeOK'
    BY <1>3, Working, WriteTypes DEF DiskTypeOK, RewriteText
  <2>2. StoreTypeOK' /\ StageTypeOK' /\ ControlTypeOK' /\ BoundsTypeOK' /\ ControlInv'
    BY <1>3, Working DEF RewriteText
  <2> QED
    BY <2>1, <2>2
<1>4. CASE RewriteClear(p)
  <2>1. DiskTypeOK'
    BY <1>4, Working, WriteTypes DEF DiskTypeOK, RewriteClear, File
  <2>2. StoreTypeOK' /\ StageTypeOK' /\ ControlTypeOK' /\ BoundsTypeOK' /\ ControlInv'
    BY <1>4, Working DEF RewriteClear
  <2> QED
    BY <2>1, <2>2
<1>5. CASE RewritePut(p)
  <2>1. DiskTypeOK'
    BY <1>5, Working, MoveTypes DEF DiskTypeOK, RewritePut
  <2>2. StoreTypeOK' /\ StageTypeOK' /\ ControlTypeOK' /\ BoundsTypeOK' /\ ControlInv'
    BY <1>5, Working DEF RewritePut
  <2> QED
    BY <2>1, <2>2
<1>7. CASE RewriteKeep(p)
  BY <1>7, Working DEF DiskTypeOK, RewriteKeep
<1>8. CASE RewriteCreation(p)
  <2>1. DiskTypeOK'
    BY <1>8, Working, WriteTypes DEF DiskTypeOK, RewriteCreation, File
  <2>2. StoreTypeOK' /\ StageTypeOK' /\ ControlTypeOK' /\ BoundsTypeOK' /\ ControlInv'
    BY <1>8, Working DEF RewriteCreation
  <2> QED
    BY <2>1, <2>2
<1>9. CASE RewriteSweep(p)
  <2>1. DiskTypeOK'
    BY <1>9, Working, WriteTypes DEF DiskTypeOK, RewriteSweep, File
  <2>2. StoreTypeOK' /\ StageTypeOK' /\ ControlTypeOK' /\ BoundsTypeOK' /\ ControlInv'
    BY <1>9, Working DEF RewriteSweep
  <2> QED
    BY <2>1, <2>2
<1> QED
  BY <1>1, <1>2, <1>3, <1>4, <1>5, <1>7, <1>8, <1>9 DEF RecoveryStep

(* A step of recovery keeps the invariant.                                 *)
LEMMA RecoveryNextInv ==
    ASSUME IInv, RecoveryNext
    PROVE  IInv'
<1> USE DEF IInv, TypeOK, StoreTypeOK, StageTypeOK, ControlTypeOK, BoundsTypeOK,
            ControlInv, TransactionPlanned, Unplanned, JobRecovers, IdLeft,
            Pcs, ApplyPcs, RecoveryPcs, RestorePcs, Jobs, Ops,
            disk, store, stage, bounds, Goto, Step, Loop, Visited, Revisit, Return
<1>1. CASE RecoverNothing
  BY <1>1, Working DEF DiskTypeOK, RecoverNothing
<1>2. CASE RecoverBlocked
  BY <1>2 DEF DiskTypeOK, RecoverBlocked
<1>3. CASE RecoverQuarantine
  BY <1>3 DEF DiskTypeOK, RecoverQuarantine
<1>4. CASE RecoverCommitted
  BY <1>4, TransactionParts DEF DiskTypeOK, RecoverCommitted, Recovering, CommittedRecoverable
<1>5. CASE RecoverUncommitted
  BY <1>5, TransactionParts DEF DiskTypeOK, RecoverUncommitted, Recovering, UncommittedRecoverable
<1>6. CASE RecoverRestore
  BY <1>6, TransactionParts DEF DiskTypeOK, RecoverRestore, Recovering, RestoreRecoverable
<1>7. CASE RollbackStart
  BY <1>7, Working DEF DiskTypeOK, RollbackStart
<1>8. CASE RollbackBlocked
  BY <1>8, RecoveryFailsType DEF RollbackBlocked
<1>9. CASE SavedCheck
  BY <1>9, Working DEF DiskTypeOK, SavedCheck
<1>10. CASE SavedChanged
  BY <1>10, RecoveryFailsType DEF SavedChanged
<1>11. CASE SweepDone
  BY <1>11, Working DEF DiskTypeOK, SweepDone
<1>12. CASE RewriteDone
  <2>1. DiskTypeOK'
    BY <1>12, Working DEF DiskTypeOK, RewriteDone, RemoveCreatedDirectory
  <2>2. StoreTypeOK' /\ StageTypeOK' /\ ControlTypeOK' /\ BoundsTypeOK' /\ ControlInv'
    BY <1>12, Working DEF RewriteDone
  <2> QED
    BY <2>1, <2>2
<1>13. CASE VerifyDone
  BY <1>13, Working DEF DiskTypeOK, VerifyDone
<1>14. CASE VerifyFails
  BY <1>14, RecoveryFailsType DEF VerifyFails
<1>15. CASE Reinstate
  BY <1>15, Working, TransactionParts DEF DiskTypeOK, Reinstate
<1>16. CASE Consume
  BY <1>16, Working DEF DiskTypeOK, Consume
<1>17. CASE RecoveredApply
  BY <1>17, Working DEF DiskTypeOK, RecoveredApply
<1>18. CASE RecoveredRestore
  BY <1>18, Working DEF DiskTypeOK, RecoveredRestore
<1>19. CASE RolledBack
  BY <1>19 DEF DiskTypeOK, RolledBack
<1>21. CASE RecoveryIoError
  BY <1>21, RecoveryFailsType, FaultType DEF RecoveryIoError
<1>22. CASE RegisterDone
  BY <1>22, NothingStagedType DEF DiskTypeOK, RegisterDone
<1>23. CASE \E p \in Paths : RecoveryStep(p)
  BY <1>23, RecoveryStepInv
<1> QED
  BY <1>1, <1>2, <1>3, <1>4, <1>5, <1>6, <1>7, <1>8, <1>9, <1>10, <1>11, <1>12, <1>13, <1>14,
     <1>15, <1>16, <1>17, <1>18, <1>19, <1>21, <1>22, <1>23 DEF RecoveryNext

(* What the user, the editor and the process do keeps the invariant.       *)
LEMMA EnvironmentInv ==
    ASSUME IInv,
           \/ \E handler \in Ops \ {"none"} : Begin(handler)
           \/ Review \/ Discard \/ Edit \/ Crash
    PROVE  IInv'
<1> USE DEF IInv, TypeOK, StoreTypeOK, StageTypeOK, ControlTypeOK, BoundsTypeOK,
            ControlInv, TransactionPlanned, Unplanned, JobRecovers, IdLeft,
            Pcs, ApplyPcs, RecoveryPcs, RestorePcs, Jobs, Ops,
            DiskTypeOK, disk, store, stage, bounds, control, Goto, Step, Loop, Visited, Revisit, Return
<1>1. ASSUME NEW handler \in Ops \ {"none"}, Begin(handler)
      PROVE  IInv'
  BY <1>1 DEF Begin
<1>2. CASE Review
  BY <1>2 DEF Review, Stages, StagedFile, File, NothingStaged
<1>3. CASE Discard
  BY <1>3, NothingStagedType DEF Discard
<1>4. CASE Edit
  BY <1>4, BoundAssumption DEF Edit, SetTarget, File
<1>5. CASE Crash
  <2>1. DiskTypeOK' /\ StoreTypeOK' /\ StageTypeOK'
    BY <1>5, NothingStagedType DEF Crash
  <2>2. ControlTypeOK' /\ ControlInv'
    BY <1>5 DEF Crash
  <2>3. BoundsTypeOK'
    BY <1>5, BoundAssumption DEF Crash
  <2> QED
    BY <2>1, <2>2, <2>3
<1> QED
  BY <1>1, <1>2, <1>3, <1>4, <1>5

(* The initial states have the invariant.                                  *)
LEMMA InitInv == Init => IInv
<1> SUFFICES ASSUME Init PROVE IInv
  OBVIOUS
<1>1. Blank \in [Paths -> File] /\ target \in [Paths -> File]
  BY StartAssumption DEF Init, Blank, File, Paths
<1>2. DiskTypeOK
  <2>1. dir \in BOOLEAN
    BY DEF Init
  <2> QED
    BY <1>1, <2>1 DEF Init, DiskTypeOK
<1>3. StoreTypeOK /\ StageTypeOK
  BY NothingStagedType DEF Init, StoreTypeOK, StageTypeOK
<1>4. ControlTypeOK /\ ControlInv
  BY DEF Init, ControlTypeOK, ControlInv, TransactionPlanned, Unplanned, JobRecovers, IdLeft,
         Pcs, Jobs, Ops
<1>5. BoundsTypeOK
  BY BoundAssumption DEF Init, BoundsTypeOK
<1> QED
  BY <1>2, <1>3, <1>4, <1>5 DEF IInv, TypeOK

(* Every step keeps the invariant.                                         *)
LEMMA NextInv == IInv /\ [Next]_vars => IInv'
<1> SUFFICES ASSUME IInv, [Next]_vars PROVE IInv'
  OBVIOUS
<1>1. CASE OperationNext
  BY <1>1, ApplyNextInv, RestoreNextInv, RecoveryNextInv DEF OperationNext
<1>2. CASE (\E handler \in Ops \ {"none"} : Begin(handler)) \/ Review \/ Discard \/ Edit \/ Crash
  BY <1>2, EnvironmentInv
<1>3. CASE UNCHANGED vars
  BY <1>3 DEF vars, disk, store, stage, control, bounds, IInv, TypeOK, DiskTypeOK, StoreTypeOK,
              StageTypeOK, ControlTypeOK, BoundsTypeOK, ControlInv, TransactionPlanned,
              Unplanned, JobRecovers, IdLeft
<1> QED
  BY <1>1, <1>2, <1>3 DEF Next

(* Every variable always holds a value of its kind: the locals of a        *)
(* handler are there when a step reads them, whatever ran before it.       *)
THEOREM TypeCorrect == Spec => []TypeOK
<1>1. IInv => TypeOK
  BY DEF IInv
<1> QED
  BY <1>1, InitInv, NextInv, PTL DEF Spec

-----------------------------------------------------------------------------
(* A step of an operation keeps the records apart.                         *)
LEMMA RecordsStep ==
    ASSUME IInv, RecordsInv, OperationNext
    PROVE  RecordsInv'
<1> USE DEF RecordsInv, RecordsExclusive, NoRecord, store, Goto, Step, Loop, Visited, Revisit, Return
<1>1. CASE ApplyNext
  <2>1. ASSUME NEW p \in Paths, PrepareOpen(p) PROVE RecordsInv'
    BY <2>1 DEF PrepareOpen
  <2>2. ASSUME NEW p \in Paths, PrepareText(p) PROVE RecordsInv'
    BY <2>2 DEF PrepareText
  <2>3. ASSUME NEW p \in Paths, PrepareDeletion(p) PROVE RecordsInv'
    BY <2>3 DEF PrepareDeletion
  <2>4. ASSUME NEW p \in Paths, PrepareRefused(p) \/ PrepareFails(p) PROVE RecordsInv'
    BY <2>4 DEF PrepareRefused, PrepareFails
  <2>5. ASSUME NEW p \in Paths, ReplaceVerify(p) PROVE RecordsInv'
    BY <2>5 DEF ReplaceVerify
  <2>6. ASSUME NEW p \in Paths, ReplaceAside(p) PROVE RecordsInv'
    BY <2>6 DEF ReplaceAside
  <2>7. ASSUME NEW p \in Paths, ReplaceFails(p) PROVE RecordsInv'
    BY <2>7 DEF ReplaceFails
  <2>8. ASSUME NEW p \in Paths, ReplacePut(p) PROVE RecordsInv'
    BY <2>8 DEF ReplacePut
  <2>9. ASSUME NEW p \in Paths, ReplacePutFails(p) PROVE RecordsInv'
    BY <2>9 DEF ReplacePutFails
  <2>10. ASSUME NEW p \in Paths, UndoRemove(p) PROVE RecordsInv'
    BY <2>10 DEF UndoRemove
  <2>11. ASSUME NEW p \in Paths, UndoPut(p) PROVE RecordsInv'
    BY <2>11 DEF UndoPut
  <2>12. ASSUME NEW p \in Paths, UndoFails(p) PROVE RecordsInv'
    BY <2>12 DEF UndoFails
  <2>13. ASSUME NEW p \in Paths, Cleanup(p) PROVE RecordsInv'
    BY <2>13 DEF Cleanup
  <2>14. ASSUME NEW p \in Paths, CleanupFails(p) PROVE RecordsInv'
    BY <2>14 DEF CleanupFails
  <2>15. CASE ApplyPlan
    BY <2>15 DEF ApplyPlan
  <2>16. CASE ApplyRefused
    BY <2>16 DEF ApplyRefused
  <2>17. CASE PersistApply
    BY <2>17 DEF PersistApply, IInv, ControlInv, JobRecovers, RecoveryPcs
  <2>18. CASE PersistApplyFails
    BY <2>18 DEF PersistApplyFails
  <2>19. CASE MakeDirectory
    BY <2>19 DEF MakeDirectory
  <2>20. CASE MakeDirectoryFails
    BY <2>20 DEF MakeDirectoryFails
  <2>21. CASE PrepareDone
    BY <2>21 DEF PrepareDone
  <2>22. CASE ReplaceDone
    BY <2>22 DEF ReplaceDone
  <2>23. CASE UndoDone
    BY <2>23 DEF UndoDone
  <2>24. CASE CleanupDone
    BY <2>24 DEF CleanupDone
  <2>25. CASE Abandon
    BY <2>25 DEF Abandon
  <2>26. CASE AbandonFails
    BY <2>26 DEF AbandonFails
  <2>27. CASE CommitNothing
    BY <2>27 DEF CommitNothing
  <2>28. CASE CommitDropPrevious
    BY <2>28 DEF CommitDropPrevious
  <2>29. CASE CommitSave
    BY <2>29 DEF CommitSave
  <2>30. CASE CommitFails
    BY <2>30 DEF CommitFails
  <2>31. CASE ApplyFinish
    BY <2>31 DEF ApplyFinish
  <2> QED
    BY <1>1, <2>1, <2>2, <2>3, <2>4, <2>5, <2>6, <2>7, <2>8, <2>9, <2>10, <2>11, <2>12, <2>13, <2>14,
       <2>15, <2>16, <2>17, <2>18, <2>19, <2>20, <2>21, <2>22, <2>23, <2>24, <2>25, <2>26, <2>27, <2>28,
       <2>29, <2>30, <2>31 DEF ApplyStep, ApplyNext
<1>2. CASE RestoreNext
  <2>1. ASSUME NEW p \in Paths, RestorePrepareOpen(p) PROVE RecordsInv'
    BY <2>1 DEF RestorePrepareOpen
  <2>2. ASSUME NEW p \in Paths, RestorePrepareText(p) PROVE RecordsInv'
    BY <2>2 DEF RestorePrepareText
  <2>3. ASSUME NEW p \in Paths, RestorePrepareCreation(p) PROVE RecordsInv'
    BY <2>3 DEF RestorePrepareCreation
  <2>4. ASSUME NEW p \in Paths, RestorePrepareFails(p) PROVE RecordsInv'
    BY <2>4 DEF RestorePrepareFails
  <2>5. ASSUME NEW p \in Paths, RestoreVerify(p) PROVE RecordsInv'
    BY <2>5 DEF RestoreVerify
  <2>6. ASSUME NEW p \in Paths, RestoreAside(p) PROVE RecordsInv'
    BY <2>6 DEF RestoreAside
  <2>7. ASSUME NEW p \in Paths, RestoreFails(p) PROVE RecordsInv'
    BY <2>7 DEF RestoreFails
  <2>8. ASSUME NEW p \in Paths, RestorePut(p) PROVE RecordsInv'
    BY <2>8 DEF RestorePut
  <2>9. ASSUME NEW p \in Paths, RestorePutFails(p) PROVE RecordsInv'
    BY <2>9 DEF RestorePutFails
  <2>10. ASSUME NEW p \in Paths, RestoreCleanup(p) PROVE RecordsInv'
    BY <2>10 DEF RestoreCleanup
  <2>11. ASSUME NEW p \in Paths, RestoreSweep(p) PROVE RecordsInv'
    BY <2>11 DEF RestoreSweep
  <2>12. CASE RestorePlan
    BY <2>12 DEF RestorePlan
  <2>13. CASE RestoreRefused
    BY <2>13 DEF RestoreRefused
  <2>14. CASE PersistRestore
    BY <2>14 DEF PersistRestore, IInv, ControlInv, JobRecovers, RecoveryPcs
  <2>15. CASE PersistRestoreFails
    BY <2>15 DEF PersistRestoreFails
  <2>16. CASE RestorePrepareDone
    BY <2>16 DEF RestorePrepareDone
  <2>17. CASE RestoreReplaced
    BY <2>17 DEF RestoreReplaced
  <2>18. CASE RestoreCleanupDone
    BY <2>18 DEF RestoreCleanupDone
  <2>19. CASE RestoreAbandon
    BY <2>19 DEF RestoreAbandon
  <2>20. CASE RestoreSwept
    BY <2>20 DEF RestoreSwept
  <2>21. CASE RestoreConsume
    BY <2>21 DEF RestoreConsume
  <2>22. CASE RestoreFinish
    BY <2>22 DEF RestoreFinish
  <2>23. CASE RestoreFinishFails
    BY <2>23 DEF RestoreFinishFails
  <2> QED
    BY <1>2, <2>1, <2>2, <2>3, <2>4, <2>5, <2>6, <2>7, <2>8, <2>9, <2>10, <2>11, <2>12, <2>13, <2>14,
       <2>15, <2>16, <2>17, <2>18, <2>19, <2>20, <2>21, <2>22, <2>23 DEF RestoreStep, RestoreNext
<1>3. CASE RecoveryNext
  <2>1. ASSUME NEW p \in Paths, Sweep(p) PROVE RecordsInv'
    BY <2>1 DEF Sweep
  <2>2. ASSUME NEW p \in Paths, RewriteOpen(p) PROVE RecordsInv'
    BY <2>2 DEF RewriteOpen
  <2>3. ASSUME NEW p \in Paths, RewriteText(p) PROVE RecordsInv'
    BY <2>3 DEF RewriteText
  <2>4. ASSUME NEW p \in Paths, RewriteClear(p) PROVE RecordsInv'
    BY <2>4 DEF RewriteClear
  <2>5. ASSUME NEW p \in Paths, RewritePut(p) PROVE RecordsInv'
    BY <2>5 DEF RewritePut
  <2>7. ASSUME NEW p \in Paths, RewriteKeep(p) PROVE RecordsInv'
    BY <2>7 DEF RewriteKeep
  <2>8. ASSUME NEW p \in Paths, RewriteCreation(p) PROVE RecordsInv'
    BY <2>8 DEF RewriteCreation
  <2>9. ASSUME NEW p \in Paths, RewriteSweep(p) PROVE RecordsInv'
    BY <2>9 DEF RewriteSweep
  <2>10. CASE RecoverNothing
    BY <2>10 DEF RecoverNothing
  <2>11. CASE RecoverBlocked
    BY <2>11 DEF RecoverBlocked
  <2>12. CASE RecoverQuarantine
    BY <2>12 DEF RecoverQuarantine
  <2>13. CASE RecoverCommitted
    BY <2>13 DEF RecoverCommitted, Recovering, CommittedRecoverable
  <2>14. CASE RecoverUncommitted
    BY <2>14 DEF RecoverUncommitted, Recovering, UncommittedRecoverable
  <2>15. CASE RecoverRestore
    BY <2>15 DEF RecoverRestore, Recovering, RestoreRecoverable
  <2>16. CASE RollbackStart
    BY <2>16 DEF RollbackStart
  <2>17. CASE RollbackBlocked
    BY <2>17 DEF RollbackBlocked, RecoveryFails
  <2>18. CASE SavedCheck
    BY <2>18 DEF SavedCheck
  <2>19. CASE SavedChanged
    BY <2>19 DEF SavedChanged, RecoveryFails
  <2>20. CASE SweepDone
    BY <2>20 DEF SweepDone
  <2>21. CASE RewriteDone
    BY <2>21 DEF RewriteDone
  <2>22. CASE VerifyDone
    BY <2>22 DEF VerifyDone
  <2>23. CASE VerifyFails
    BY <2>23 DEF VerifyFails, RecoveryFails
  <2>24. CASE Reinstate
    BY <2>24 DEF Reinstate
  <2>25. CASE Consume
    BY <2>25 DEF Consume
  <2>26. CASE RecoveredApply
    BY <2>26 DEF RecoveredApply
  <2>27. CASE RecoveredRestore
    BY <2>27 DEF RecoveredRestore
  <2>28. CASE RolledBack
    BY <2>28 DEF RolledBack
  <2>30. CASE RecoveryIoError
    BY <2>30 DEF RecoveryIoError, RecoveryFails
  <2>31. CASE RegisterDone
    BY <2>31 DEF RegisterDone
  <2> QED
    BY <1>3, <2>1, <2>2, <2>3, <2>4, <2>5, <2>7, <2>8, <2>9, <2>10, <2>11, <2>12, <2>13, <2>14,
       <2>15, <2>16, <2>17, <2>18, <2>19, <2>20, <2>21, <2>22, <2>23, <2>24, <2>25, <2>26, <2>27, <2>28,
       <2>30, <2>31 DEF RecoveryStep, RecoveryNext
<1> QED
  BY <1>1, <1>2, <1>3 DEF OperationNext

(* Recovery never finds an interrupted apply and an interrupted restore    *)
(* together: the error for overlapping transactions cannot occur while one *)
(* session at a time works on a bundle.                                    *)
THEOREM OneRecord == Spec => []RecordsExclusive
<1>1. Init => RecordsInv
  BY DEF Init, RecordsInv, RecordsExclusive, NoRecord
<1>2. IInv /\ RecordsInv /\ [Next]_vars => RecordsInv'
  <2> SUFFICES ASSUME IInv, RecordsInv, [Next]_vars PROVE RecordsInv'
    OBVIOUS
  <2>1. CASE OperationNext
    BY <2>1, RecordsStep
  <2>2. CASE (\E handler \in Ops \ {"none"} : Begin(handler)) \/ Review \/ Discard \/ Edit \/ Crash
    BY <2>2 DEF Begin, Review, Discard, Edit, Crash, Return, store, control,
                RecordsInv, RecordsExclusive, NoRecord
  <2>3. CASE UNCHANGED vars
    BY <2>3 DEF vars, store, control, RecordsInv, RecordsExclusive, NoRecord
  <2> QED
    BY <2>1, <2>2, <2>3 DEF Next
<1>3. RecordsInv => RecordsExclusive
  BY DEF RecordsInv
<1> QED
  BY <1>1, <1>2, <1>3, InitInv, NextInv, PTL DEF Spec

-----------------------------------------------------------------------------
(* The record of the transaction that is worked on: a restore has its own  *)
(* record, whether it runs or is recovered; everything else is an apply.   *)
Record == IF job = "restore" \/ (job = "none" /\ op = "restore") THEN restoreRec ELSE applyRec

(* Planned, and its record not yet written.                                *)
Unrecorded == {"planned", "rPlanned"}

(* Places where a loop over the files has not begun, or there is none.     *)
Unlooped == Unrecorded \cup {"mkdir", "abandon"}

(* Which handler is where, and that it works on the transaction recorded.  *)
Tracked ==
    /\ pc \in ApplyPcs \ {"undo", "undoPut"} => op = "apply"
    /\ pc \in {"undo", "undoPut"} => op \in {"apply", "restore"}
    /\ pc \in RestorePcs => op = "restore"
    /\ pc \in RecoveryPcs \ {"recover"} /\ job \in {"none", "rollback"} => op = "apply"
    /\ pc \notin RecoveryPcs => job = "none"
    /\ pc \in RecoveryPcs \ {"recover", "sweep", "unrecord"} => job # "none"
    /\ pc = "sweep" => job \in {"none", "apply"}
    /\ pc = "rollback" => job = "rollback"
    /\ pc = "reinstate" => job # "restore"
    /\ pc = "consume" => job = "restore"
    /\ pc = "idle" => op = "none"
    /\ ~Unplanned =>
          /\ txn.tid < nextId
          /\ pc \notin Unrecorded => Record = txn
          /\ pc \notin Unlooped => todo \subseteq Files

(* Names not yet drawn name nothing.                                       *)
Fresh ==
    /\ applyRec # None => applyRec.tid < nextId
    /\ restoreRec # None => restoreRec.tid < nextId
    /\ \A i \in Ids, q \in Paths : i >= nextId => temp[i][q] = Absent /\ backup[i][q] = Absent

Undisplaced ==
    {"planned", "mkdir", "prepare", "prepareText", "rPlanned", "rPrepare", "rPrepareText"}
Swapping == {"replace", "aside", "rReplace", "rAside"}
Sweeping == {"sweep", "rewrite", "rewriteText", "rewriteClear", "rewritePut", "rewriteSweep"}

(* Beside a file of the transaction lies what was reviewed: before its     *)
(* swap nothing is displaced, before a sweep nothing else was found there. *)
ReviewedAt(q) ==
    /\ Temp(q) \in {Absent, Torn, Original(q), Applied(q)}
    /\ pc \in Undisplaced => Backup(q) = Absent
    /\ pc \in Swapping /\ q \in todo => Backup(q) = Absent
    /\ pc \in {"put", "rPut"} /\ q \in todo => First(q) \/ Backup(q) = Absent
    /\ pc \in Sweeping /\ q \in todo => Backup(q) \in {Absent, Original(q), Applied(q)}

Reviewed == ~Unplanned => \A q \in Files : ReviewedAt(q)

(* A hidden file belongs to a recorded transaction.                        *)
Owned(i, q) ==
    \/ applyRec # None /\ applyRec.tid = i /\ q \in applyRec.ckpt.files
    \/ restoreRec # None /\ restoreRec.tid = i /\ q \in restoreRec.ckpt.files

AllOwned ==
    \A i \in Ids, q \in Paths : temp[i][q] # Absent \/ backup[i][q] # Absent => Owned(i, q)

(* Places where the files of the transaction have nothing beside them.     *)
Cleared ==
    {"planned", "mkdir", "rPlanned", "abandon", "rAbandon", "verify", "reinstate", "consume",
     "unrecord", "rConsume", "rUnrecord"}
Restoring == {"rPrepare", "rPrepareText", "rReplace", "rAside", "rPut"}

(* What each loop has done away with beside one file, if no call failed.   *)
CleanAt(q) ==
    /\ pc \in Cleared => Temp(q) = Absent /\ Backup(q) = Absent
    /\ pc \in {"prepare", "rPrepare"} /\ q \in todo => Temp(q) = Absent
    /\ pc \in {"prepareText", "rPrepareText"} /\ q \in todo => First(q) \/ Temp(q) = Absent
    /\ pc \in {"undo", "undoPut"} /\ q \notin todo => Backup(q) = Absent
    /\ pc \in {"cleanup", "rCleanup"} => Backup(q) = Absent /\ (q \notin todo => Temp(q) = Absent)
    /\ pc \in Sweeping /\ q \notin todo => Temp(q) = Absent /\ Backup(q) = Absent
    /\ pc \in Restoring /\ Original(q) = Absent => Temp(q) = Absent
    /\ pc \in {"rReplace", "rAside", "rPut"} /\ q \notin todo => Temp(q) = Absent
    /\ pc = "rSweep" => Temp(q) = Absent /\ (q \notin todo => Backup(q) = Absent)

Clean == faults = 0 => AllOwned /\ (~Unplanned => \A q \in Files : CleanAt(q))

(* What Apply works on is what is staged; a rejected creation is no file.  *)
Works == op = "apply" /\ ~Unplanned /\ job \in {"none", "rollback"}

Planned ==
    /\ Works => \A q \in Paths : staged[q] # None =>
          IF q \in Files THEN staged[q].content = Applied(q)
                         ELSE staged[q].content = Absent /\ target[q] = Absent
    /\ pc \in {"sweep", "unrecord"} /\ job = "none" => \A q \in Files : target[q] = Applied(q)

Inv == IInv /\ RecordsInv /\ Tracked /\ Fresh

-----------------------------------------------------------------------------
(* While a transaction runs, its parts are there and its loop is over its  *)
(* files.                                                                  *)
LEMMA Running ==
    ASSUME Inv, ~Unplanned
    PROVE  /\ txn \in Transaction /\ Files \in SUBSET Paths /\ txn.tid \in Ids
           /\ DiskTypeOK /\ nextId \in Nat /\ faults \in Nat /\ txn.tid < nextId
           /\ pc \notin Unlooped => todo \subseteq Files
BY Working, TransactionParts, BoundAssumption DEF Inv, IInv, TypeOK, BoundsTypeOK, Tracked

(* What the writing helpers do, file by file.                              *)
LEMMA TempSet ==
    ASSUME DiskTypeOK, txn.tid \in Ids, NEW p \in Paths, NEW text, SetTemp(p, text)
    PROVE  \A i \in Ids, q \in Paths :
              temp'[i][q] = IF i = txn.tid /\ q = p THEN text ELSE temp[i][q]
BY DEF DiskTypeOK, SetTemp

LEMMA BackupSet ==
    ASSUME DiskTypeOK, txn.tid \in Ids, NEW p \in Paths, NEW text, SetBackup(p, text)
    PROVE  \A i \in Ids, q \in Paths :
              backup'[i][q] = IF i = txn.tid /\ q = p THEN text ELSE backup[i][q]
BY DEF DiskTypeOK, SetBackup

LEMMA TargetSet ==
    ASSUME DiskTypeOK, NEW p \in Paths, NEW text, SetTarget(p, text)
    PROVE  \A q \in Paths : target'[q] = IF q = p THEN text ELSE target[q]
BY DEF DiskTypeOK, SetTarget

LEMMA TextWritten ==
    ASSUME DiskTypeOK, txn.tid \in Ids, NEW p \in Paths, NEW text, WriteText(p, text)
    PROVE  /\ \A i \in Ids, q \in Paths :
                 temp'[i][q] = IF i = txn.tid /\ q = p /\ temp[i][q] = Torn
                               THEN text ELSE temp[i][q]
           /\ \A q \in Paths :
                 target'[q] = IF q = p /\ target[q] = Torn THEN text ELSE target[q]
BY DEF DiskTypeOK, WriteText

(* A step on one file of a transaction leaves everything else alone.       *)
Local(p) ==
    /\ p \in Files /\ p \in todo /\ ~Unplanned /\ pc \notin Unlooped
    /\ \A i \in Ids, q \in Paths :
          i # txn.tid \/ q # p => temp'[i][q] = temp[i][q] /\ backup'[i][q] = backup[i][q]
    /\ \A q \in Paths : q # p => target'[q] = target[q]
    /\ ~Unplanned' /\ txn' = txn /\ nextId' = nextId
    /\ UNCHANGED <<store, stage>>
    /\ faults' = 0 => faults = 0

(* Each step of an apply on one file is such a step. *)
LEMMA ApplyStepLocal ==
    ASSUME Inv, NEW p \in Paths, ApplyStep(p)
    PROVE  Local(p)
<1> USE DEF Local, Unplanned, Unlooped, Unrecorded, First, Last, store, stage, disk, bounds, Fault,
            Goto, Step, Loop, Visited, Revisit
<1>1. CASE PrepareOpen(p)
  BY <1>1, Running, TempSet DEF PrepareOpen
<1>2. CASE PrepareText(p)
  BY <1>2, Running, TextWritten DEF PrepareText
<1>3. CASE PrepareDeletion(p)
  BY <1>3, Running DEF PrepareDeletion
<1>4. CASE PrepareFails(p)
  BY <1>4, Running, TempSet DEF PrepareFails
<1>4a. CASE PrepareRefused(p)
  BY <1>4a, Running DEF PrepareRefused
<1>5. CASE ReplaceVerify(p)
  BY <1>5, Running DEF ReplaceVerify
<1>6. CASE ReplaceAside(p)
  BY <1>6, Running, BackupSet, TargetSet DEF ReplaceAside, MoveAside
<1>7. CASE ReplaceFails(p)
  BY <1>7, Running DEF ReplaceFails
<1>8. CASE ReplacePut(p)
  BY <1>8, Running, TempSet, TargetSet DEF ReplacePut, PutTemp
<1>9. CASE ReplacePutFails(p)
  BY <1>9, Running DEF ReplacePutFails
<1>10. CASE UndoRemove(p)
  BY <1>10, Running, TargetSet DEF UndoRemove
<1>11. CASE UndoPut(p)
  BY <1>11, Running, BackupSet, TargetSet DEF UndoPut, PutBack
<1>12. CASE UndoFails(p)
  BY <1>12, Running DEF UndoFails
<1>13. CASE Cleanup(p)
  BY <1>13, Running, TempSet, BackupSet, TargetSet DEF Cleanup, MoveBackDisplaced, PutBack
<1>14. CASE CleanupFails(p)
  BY <1>14, Running, TempSet, BackupSet, TargetSet DEF CleanupFails, MoveBackDisplaced, PutBack
<1> QED
  BY <1>1, <1>2, <1>3, <1>4, <1>4a, <1>5, <1>6, <1>7, <1>8, <1>9, <1>10, <1>11, <1>12, <1>13,
     <1>14 DEF ApplyStep

(* Each step of a restore on one file is such a step. *)
LEMMA RestoreStepLocal ==
    ASSUME Inv, NEW p \in Paths, RestoreStep(p)
    PROVE  Local(p)
<1> USE DEF Local, Unplanned, Unlooped, Unrecorded, First, Last, store, stage, disk, bounds, Fault,
            Goto, Step, Loop, Visited, Revisit
<1>1. CASE RestorePrepareOpen(p)
  BY <1>1, Running, TempSet DEF RestorePrepareOpen
<1>2. CASE RestorePrepareText(p)
  BY <1>2, Running, TextWritten DEF RestorePrepareText
<1>3. CASE RestorePrepareCreation(p)
  BY <1>3, Running DEF RestorePrepareCreation
<1>4. CASE RestorePrepareFails(p)
  BY <1>4, Running, TempSet DEF RestorePrepareFails
<1>5. CASE RestoreVerify(p)
  BY <1>5, Running DEF RestoreVerify
<1>6. CASE RestoreAside(p)
  BY <1>6, Running, BackupSet, TargetSet DEF RestoreAside, MoveAside
<1>7. CASE RestoreFails(p)
  BY <1>7, Running DEF RestoreFails
<1>8. CASE RestorePut(p)
  BY <1>8, Running, TempSet, TargetSet DEF RestorePut, PutTemp
<1>9. CASE RestorePutFails(p)
  BY <1>9, Running DEF RestorePutFails
<1>10. CASE RestoreCleanup(p)
  BY <1>10, Running, TempSet DEF RestoreCleanup
<1>11. CASE RestoreSweep(p)
  BY <1>11, Running, BackupSet DEF RestoreSweep
<1> QED
  BY <1>1, <1>2, <1>3, <1>4, <1>5, <1>6, <1>7, <1>8, <1>9, <1>10, <1>11 DEF RestoreStep

(* Each step of a recovery on one file is such a step. *)
LEMMA RecoveryStepLocal ==
    ASSUME Inv, NEW p \in Paths, RecoveryStep(p)
    PROVE  Local(p)
<1> USE DEF Local, Unplanned, Unlooped, Unrecorded, First, Last, store, stage, disk, bounds, Fault,
            Goto, Step, Loop, Visited, Revisit
<1>1. CASE Sweep(p)
  BY <1>1, Running, TempSet, BackupSet DEF Sweep
<1>2. CASE RewriteOpen(p)
  BY <1>2, Running, TempSet DEF RewriteOpen
<1>3. CASE RewriteText(p)
  BY <1>3, Running, TextWritten DEF RewriteText
<1>4. CASE RewriteClear(p)
  BY <1>4, Running, TargetSet DEF RewriteClear
<1>5. CASE RewritePut(p)
  BY <1>5, Running, TempSet, TargetSet DEF RewritePut, PutTemp
<1>6. CASE RewriteKeep(p)
  BY <1>6, Running DEF RewriteKeep
<1>7. CASE RewriteCreation(p)
  BY <1>7, Running, TargetSet DEF RewriteCreation
<1>8. CASE RewriteSweep(p)
  BY <1>8, Running, TempSet, BackupSet DEF RewriteSweep
<1> QED
  BY <1>1, <1>2, <1>3, <1>4, <1>5, <1>6, <1>7, <1>8 DEF RecoveryStep

(* The handler that runs, and its transaction, are always known.           *)
LEMMA TrackedStep ==
    ASSUME Inv, OperationNext
    PROVE  Tracked'
<1> USE DEF Tracked, Unplanned, Unlooped, Unrecorded, Record, Files, IInv, ControlInv, JobRecovers,
            ApplyPcs, RestorePcs, RecoveryPcs,
            store, stage, disk, bounds, Fault, Goto, Step, Loop, Visited, Revisit, Return
<1>0. IInv /\ Tracked /\ Fresh /\ nextId \in Nat
  BY BoundAssumption DEF Inv, TypeOK, BoundsTypeOK
<1>1. CASE ApplyNext
  <2>1. ASSUME NEW p \in Paths, PrepareOpen(p) PROVE Tracked'
    BY <1>0, <2>1 DEF PrepareOpen, First, Last
  <2>2. ASSUME NEW p \in Paths, PrepareText(p) PROVE Tracked'
    BY <1>0, <2>2 DEF PrepareText, First, Last
  <2>3. ASSUME NEW p \in Paths, PrepareDeletion(p) PROVE Tracked'
    BY <1>0, <2>3 DEF PrepareDeletion, First, Last
  <2>4. ASSUME NEW p \in Paths, PrepareRefused(p) \/ PrepareFails(p) PROVE Tracked'
    BY <1>0, <2>4 DEF PrepareRefused, PrepareFails, First, Last
  <2>5. ASSUME NEW p \in Paths, ReplaceVerify(p) PROVE Tracked'
    BY <1>0, <2>5 DEF ReplaceVerify, First, Last
  <2>6. ASSUME NEW p \in Paths, ReplaceAside(p) PROVE Tracked'
    BY <1>0, <2>6 DEF ReplaceAside, First, Last
  <2>7. ASSUME NEW p \in Paths, ReplaceFails(p) PROVE Tracked'
    BY <1>0, <2>7 DEF ReplaceFails, First, Last
  <2>8. ASSUME NEW p \in Paths, ReplacePut(p) PROVE Tracked'
    BY <1>0, <2>8 DEF ReplacePut, First, Last
  <2>9. ASSUME NEW p \in Paths, ReplacePutFails(p) PROVE Tracked'
    BY <1>0, <2>9 DEF ReplacePutFails, First, Last
  <2>10. ASSUME NEW p \in Paths, UndoRemove(p) PROVE Tracked'
    BY <1>0, <2>10 DEF UndoRemove, First, Last
  <2>11. ASSUME NEW p \in Paths, UndoPut(p) PROVE Tracked'
    BY <1>0, <2>11 DEF UndoPut, First, Last
  <2>12. ASSUME NEW p \in Paths, UndoFails(p) PROVE Tracked'
    BY <1>0, <2>12 DEF UndoFails, First, Last
  <2>13. ASSUME NEW p \in Paths, Cleanup(p) PROVE Tracked'
    BY <1>0, <2>13 DEF Cleanup, First, Last
  <2>14. ASSUME NEW p \in Paths, CleanupFails(p) PROVE Tracked'
    BY <1>0, <2>14 DEF CleanupFails, First, Last
  <2>15. CASE ApplyPlan
    BY <1>0, <2>15 DEF ApplyPlan
  <2>16. CASE ApplyRefused
    BY <1>0, <2>16 DEF ApplyRefused
  <2>17. CASE PersistApply
    BY <1>0, <2>17 DEF PersistApply
  <2>18. CASE PersistApplyFails
    BY <1>0, <2>18 DEF PersistApplyFails
  <2>19. CASE MakeDirectory
    BY <1>0, <2>19 DEF MakeDirectory
  <2>20. CASE MakeDirectoryFails
    BY <1>0, <2>20 DEF MakeDirectoryFails
  <2>21. CASE PrepareDone
    BY <1>0, <2>21 DEF PrepareDone
  <2>22. CASE ReplaceDone
    BY <1>0, <2>22 DEF ReplaceDone
  <2>23. CASE UndoDone
    BY <1>0, <2>23 DEF UndoDone
  <2>24. CASE CleanupDone
    BY <1>0, <2>24 DEF CleanupDone
  <2>25. CASE Abandon
    BY <1>0, <2>25 DEF Abandon
  <2>26. CASE AbandonFails
    BY <1>0, <2>26 DEF AbandonFails
  <2>27. CASE CommitNothing
    BY <1>0, <2>27 DEF CommitNothing
  <2>28. CASE CommitDropPrevious
    BY <1>0, <2>28 DEF CommitDropPrevious
  <2>29. CASE CommitSave
    BY <1>0, <2>29 DEF CommitSave
  <2>30. CASE CommitFails
    BY <1>0, <2>30 DEF CommitFails
  <2>31. CASE ApplyFinish
    BY <1>0, <2>31 DEF ApplyFinish
  <2> QED
    BY <1>1, <2>1, <2>2, <2>3, <2>4, <2>5, <2>6, <2>7, <2>8, <2>9, <2>10, <2>11, <2>12, <2>13,
       <2>14, <2>15, <2>16, <2>17, <2>18, <2>19, <2>20, <2>21, <2>22, <2>23, <2>24, <2>25,
       <2>26, <2>27, <2>28, <2>29, <2>30, <2>31 DEF ApplyStep, ApplyNext
<1>2. CASE RestoreNext
  <2>1. ASSUME NEW p \in Paths, RestorePrepareOpen(p) PROVE Tracked'
    BY <1>0, <2>1 DEF RestorePrepareOpen, First, Last
  <2>2. ASSUME NEW p \in Paths, RestorePrepareText(p) PROVE Tracked'
    BY <1>0, <2>2 DEF RestorePrepareText, First, Last
  <2>3. ASSUME NEW p \in Paths, RestorePrepareCreation(p) PROVE Tracked'
    BY <1>0, <2>3 DEF RestorePrepareCreation, First, Last
  <2>4. ASSUME NEW p \in Paths, RestorePrepareFails(p) PROVE Tracked'
    BY <1>0, <2>4 DEF RestorePrepareFails, First, Last
  <2>5. ASSUME NEW p \in Paths, RestoreVerify(p) PROVE Tracked'
    BY <1>0, <2>5 DEF RestoreVerify, First, Last
  <2>6. ASSUME NEW p \in Paths, RestoreAside(p) PROVE Tracked'
    BY <1>0, <2>6 DEF RestoreAside, First, Last
  <2>7. ASSUME NEW p \in Paths, RestoreFails(p) PROVE Tracked'
    BY <1>0, <2>7 DEF RestoreFails, First, Last
  <2>8. ASSUME NEW p \in Paths, RestorePut(p) PROVE Tracked'
    BY <1>0, <2>8 DEF RestorePut, First, Last
  <2>9. ASSUME NEW p \in Paths, RestorePutFails(p) PROVE Tracked'
    BY <1>0, <2>9 DEF RestorePutFails, First, Last
  <2>10. ASSUME NEW p \in Paths, RestoreCleanup(p) PROVE Tracked'
    BY <1>0, <2>10 DEF RestoreCleanup, First, Last
  <2>11. ASSUME NEW p \in Paths, RestoreSweep(p) PROVE Tracked'
    BY <1>0, <2>11 DEF RestoreSweep, First, Last
  <2>12. CASE RestorePlan
    BY <1>0, <2>12 DEF RestorePlan
  <2>13. CASE RestoreRefused
    BY <1>0, <2>13 DEF RestoreRefused
  <2>14. CASE PersistRestore
    BY <1>0, <2>14 DEF PersistRestore
  <2>15. CASE PersistRestoreFails
    BY <1>0, <2>15 DEF PersistRestoreFails
  <2>16. CASE RestorePrepareDone
    BY <1>0, <2>16 DEF RestorePrepareDone
  <2>17. CASE RestoreReplaced
    BY <1>0, <2>17 DEF RestoreReplaced
  <2>18. CASE RestoreCleanupDone
    BY <1>0, <2>18 DEF RestoreCleanupDone
  <2>19. CASE RestoreAbandon
    BY <1>0, <2>19 DEF RestoreAbandon
  <2>20. CASE RestoreSwept
    BY <1>0, <2>20 DEF RestoreSwept
  <2>21. CASE RestoreConsume
    BY <1>0, <2>21 DEF RestoreConsume
  <2>22. CASE RestoreFinish
    BY <1>0, <2>22 DEF RestoreFinish
  <2>23. CASE RestoreFinishFails
    BY <1>0, <2>23 DEF RestoreFinishFails
  <2> QED
    BY <1>2, <2>1, <2>2, <2>3, <2>4, <2>5, <2>6, <2>7, <2>8, <2>9, <2>10, <2>11, <2>12, <2>13,
       <2>14, <2>15, <2>16, <2>17, <2>18, <2>19, <2>20, <2>21, <2>22, <2>23 DEF RestoreStep, RestoreNext
<1>3. CASE RecoveryNext
  <2>1. ASSUME NEW p \in Paths, Sweep(p) PROVE Tracked'
    BY <1>0, <2>1 DEF Sweep, First, Last
  <2>2. ASSUME NEW p \in Paths, RewriteOpen(p) PROVE Tracked'
    BY <1>0, <2>2 DEF RewriteOpen, First, Last
  <2>3. ASSUME NEW p \in Paths, RewriteText(p) PROVE Tracked'
    BY <1>0, <2>3 DEF RewriteText, First, Last
  <2>4. ASSUME NEW p \in Paths, RewriteClear(p) PROVE Tracked'
    BY <1>0, <2>4 DEF RewriteClear, First, Last
  <2>5. ASSUME NEW p \in Paths, RewritePut(p) PROVE Tracked'
    BY <1>0, <2>5 DEF RewritePut, First, Last
  <2>6. ASSUME NEW p \in Paths, RewriteKeep(p) PROVE Tracked'
    BY <1>0, <2>6 DEF RewriteKeep, First, Last
  <2>7. ASSUME NEW p \in Paths, RewriteCreation(p) PROVE Tracked'
    BY <1>0, <2>7 DEF RewriteCreation, First, Last
  <2>8. ASSUME NEW p \in Paths, RewriteSweep(p) PROVE Tracked'
    BY <1>0, <2>8 DEF RewriteSweep, First, Last
  <2>9. CASE RecoverNothing
    BY <1>0, <2>9 DEF RecoverNothing
  <2>10. CASE RecoverBlocked
    BY <1>0, <2>10 DEF RecoverBlocked
  <2>11. CASE RecoverQuarantine
    BY <1>0, <2>11 DEF RecoverQuarantine, InvalidRecord
  <2>12. CASE RecoverCommitted
    BY <1>0, <2>12 DEF RecoverCommitted, Recovering, CommittedRecoverable, Fresh
  <2>13. CASE RecoverUncommitted
    BY <1>0, <2>13 DEF RecoverUncommitted, Recovering, UncommittedRecoverable, Fresh
  <2>14. CASE RecoverRestore
    BY <1>0, <2>14 DEF RecoverRestore, Recovering, RestoreRecoverable, Fresh
  <2>15. CASE RollbackStart
    BY <1>0, <2>15 DEF RollbackStart
  <2>16. CASE RollbackBlocked
    BY <1>0, <2>16 DEF RollbackBlocked, RecoveryFails
  <2>17. CASE SavedCheck
    BY <1>0, <2>17 DEF SavedCheck
  <2>18. CASE SavedChanged
    BY <1>0, <2>18 DEF SavedChanged, RecoveryFails
  <2>19. CASE SweepDone
    BY <1>0, <2>19 DEF SweepDone
  <2>20. CASE RewriteDone
    BY <1>0, <2>20 DEF RewriteDone
  <2>21. CASE VerifyDone
    BY <1>0, <2>21 DEF VerifyDone
  <2>22. CASE VerifyFails
    BY <1>0, <2>22 DEF VerifyFails, RecoveryFails
  <2>23. CASE Reinstate
    BY <1>0, <2>23 DEF Reinstate
  <2>24. CASE Consume
    BY <1>0, <2>24 DEF Consume
  <2>25. CASE RecoveredApply
    BY <1>0, <2>25 DEF RecoveredApply
  <2>26. CASE RecoveredRestore
    BY <1>0, <2>26 DEF RecoveredRestore
  <2>27. CASE RolledBack
    BY <1>0, <2>27 DEF RolledBack
  <2>28. CASE RecoveryIoError
    BY <1>0, <2>28 DEF RecoveryIoError, RecoveryFails, Fault
  <2>29. CASE RegisterDone
    BY <1>0, <2>29 DEF RegisterDone
  <2> QED
    BY <1>3, <2>1, <2>2, <2>3, <2>4, <2>5, <2>6, <2>7, <2>8, <2>9, <2>10, <2>11, <2>12, <2>13,
       <2>14, <2>15, <2>16, <2>17, <2>18, <2>19, <2>20, <2>21, <2>22, <2>23, <2>24, <2>25,
       <2>26, <2>27, <2>28, <2>29 DEF RecoveryStep, RecoveryNext
<1> QED
  BY <1>1, <1>2, <1>3 DEF OperationNext

-----------------------------------------------------------------------------
(* A failed recovery removes backups at most.                              *)
LEMMA RecoveryFailsFiles ==
    ASSUME Inv, RecoveryFails, job = "rollback" => ~Unplanned
    PROVE  /\ UNCHANGED <<temp, target, store, stage>>
           /\ \A i \in Ids, q \in Paths : backup'[i][q] = backup[i][q] \/ backup'[i][q] = Absent
<1>1. CASE job = "rollback"
  <2>1. txn.tid \in Ids /\ DiskTypeOK
    BY <1>1, Running
  <2> QED
    BY <1>1, <2>1 DEF RecoveryFails, DiskTypeOK, Blank, store, stage
<1>2. CASE job # "rollback"
  BY <1>2 DEF RecoveryFails, store, stage
<1> QED
  BY <1>1, <1>2

(* A step on one file touches names that were drawn.                       *)
LEMMA LocalFresh ==
    ASSUME Inv, NEW p \in Paths, Local(p)
    PROVE  Fresh'
<1>1. ~Unplanned /\ txn.tid < nextId /\ nextId \in Nat /\ txn.tid \in Ids /\ Fresh
  BY Running DEF Local, Inv
<1>2. UNCHANGED <<applyRec, restoreRec, nextId>>
  BY DEF Local, store
<1>3. ASSUME NEW i \in Ids, NEW q \in Paths, i >= nextId
      PROVE  temp'[i][q] = Absent /\ backup'[i][q] = Absent
  <2>1. i # txn.tid
    BY <1>1, <1>3 DEF Ids
  <2> QED
    BY <1>1, <1>3, <2>1 DEF Local, Fresh
<1> QED
  BY <1>1, <1>2, <1>3 DEF Fresh

(* No step touches a name that was not drawn.                              *)
LEMMA FreshStep ==
    ASSUME Inv, OperationNext
    PROVE  Fresh'
<1> USE DEF Fresh, store, disk, bounds, Goto, Step, Loop, Visited, Revisit, Return, Fault
<1>0. Fresh /\ nextId \in Nat /\ MaxIds \in Nat
  BY BoundAssumption DEF Inv, IInv, TypeOK, BoundsTypeOK
<1>1. CASE \E p \in Paths : ApplyStep(p) \/ RestoreStep(p) \/ RecoveryStep(p)
  BY <1>1, ApplyStepLocal, RestoreStepLocal, RecoveryStepLocal, LocalFresh
<1>2. CASE ApplyPlan \/ RestorePlan
  <2>1. nextId' = nextId + 1 /\ UNCHANGED <<applyRec, restoreRec, temp, backup>>
    BY <1>2 DEF ApplyPlan, RestorePlan
  <2>2. \A i \in Ids : i >= nextId + 1 => i >= nextId
    BY <1>0 DEF Ids
  <2>3. \A j \in Ids : j < nextId => j < nextId + 1
    BY <1>0 DEF Ids
  <2>4. /\ applyRec # None => applyRec.tid \in Ids
        /\ restoreRec # None => restoreRec.tid \in Ids
    BY TransactionParts DEF Inv, IInv, TypeOK, StoreTypeOK
  <2> QED
    BY <1>0, <2>1, <2>2, <2>3, <2>4
<1>3. CASE PersistApply \/ PersistRestore
  <2>1. txn.tid < nextId
    BY <1>3, Running DEF PersistApply, PersistRestore, Unplanned
  <2> QED
    BY <1>0, <1>3, <2>1 DEF PersistApply, PersistRestore
<1>4. CASE \/ ApplyRefused \/ PersistApplyFails \/ MakeDirectory \/ MakeDirectoryFails
          \/ PrepareDone \/ ReplaceDone \/ UndoDone \/ CleanupDone \/ Abandon
          \/ AbandonFails \/ CommitNothing \/ CommitDropPrevious \/ CommitSave
          \/ CommitFails \/ ApplyFinish
  BY <1>0, <1>4 DEF ApplyRefused, PersistApplyFails, MakeDirectory, MakeDirectoryFails,
                         PrepareDone, ReplaceDone, UndoDone, CleanupDone, Abandon, AbandonFails,
                         CommitNothing, CommitDropPrevious, CommitSave, CommitFails, ApplyFinish
<1>5. CASE \/ RestoreRefused \/ PersistRestoreFails \/ RestorePrepareDone
          \/ RestoreReplaced \/ RestoreCleanupDone \/ RestoreAbandon \/ RestoreSwept
          \/ RestoreConsume \/ RestoreFinish \/ RestoreFinishFails
  BY <1>0, <1>5 DEF RestoreRefused, PersistRestoreFails, RestorePrepareDone,
                         RestoreReplaced, RestoreCleanupDone, RestoreAbandon, RestoreSwept,
                         RestoreConsume, RestoreFinish, RestoreFinishFails
<1>6. CASE \/ RecoverNothing \/ RecoverBlocked \/ RecoverQuarantine \/ RecoverCommitted
          \/ RecoverUncommitted \/ RecoverRestore \/ RollbackStart \/ SavedCheck
          \/ SweepDone \/ RewriteDone \/ VerifyDone \/ Reinstate \/ Consume
          \/ RecoveredApply \/ RecoveredRestore \/ RolledBack \/ RegisterDone
  BY <1>0, <1>6 DEF RecoverNothing, RecoverBlocked, RecoverQuarantine, RecoverCommitted,
                         RecoverUncommitted, RecoverRestore, RollbackStart, SavedCheck,
                         SweepDone, RewriteDone, VerifyDone, Reinstate, Consume, RecoveredApply,
                         RecoveredRestore, RolledBack, RegisterDone, Recovering
<1>7. CASE RollbackBlocked \/ SavedChanged \/ VerifyFails \/ RecoveryIoError
  <2>1. RecoveryFails /\ nextId' = nextId /\ (job = "rollback" => ~Unplanned)
    BY <1>7 DEF RollbackBlocked, SavedChanged, VerifyFails, RecoveryIoError, Unplanned, Inv, IInv,
                ControlInv, JobRecovers, RecoveryPcs
  <2> QED
    BY <1>0, <2>1, RecoveryFailsFiles
<1> QED
  BY <1>1, <1>2, <1>3, <1>4, <1>5, <1>6, <1>7 DEF OperationNext, ApplyNext, RestoreNext, RecoveryNext

(* One file is the first of those left.                                    *)
LEMMA OneFirst ==
    ASSUME NEW p \in Paths, NEW q \in Paths, First(p), First(q)
    PROVE  p = q
BY DEF First, Paths

(* A step on one file of a recorded transaction leaves what is owned owned. *)
LEMMA LocalOwned ==
    ASSUME Inv, AllOwned, NEW p \in Paths, Local(p)
    PROVE  AllOwned'
<1>1. p \in txn.ckpt.files /\ (txn = applyRec \/ txn = restoreRec) /\ txn # None
  <2>1. txn \in Transaction /\ Record = txn
    BY Running DEF Local, Inv, Tracked, Unlooped
  <2>2. txn # None
    BY <2>1, NoneAssumption
  <2> QED
    BY <2>1, <2>2 DEF Local, Record, Files
<1>2. Owned(txn.tid, p)
  BY <1>1 DEF Owned
<1> QED
  BY <1>2 DEF AllOwned, Owned, Local, store

(* What a step of an apply leaves beside the file it is about, and the others. *)
LEMMA ApplyStepFiles ==
    ASSUME Inv, Reviewed, Clean, NEW p \in Paths, ApplyStep(p)
    PROVE  Reviewed' /\ Clean'
<1>0. Local(p)
  BY ApplyStepLocal
<1>a. /\ txn.tid \in Ids /\ txn' = txn /\ Files' = Files /\ Files \subseteq Paths
      /\ p \in Files /\ p \in todo /\ todo \subseteq Files /\ DiskTypeOK
      /\ faults \in Nat /\ (faults' = 0 => faults = 0)
      /\ \A q \in Files : ReviewedAt(q) /\ (faults = 0 => CleanAt(q))
  BY <1>0, Running DEF Local, Files, Reviewed, Clean
<1>b. \A q \in Files : /\ Original(q)' = Original(q) /\ Applied(q)' = Applied(q)
                       /\ q # p => Temp(q)' = Temp(q) /\ Backup(q)' = Backup(q)
  BY <1>0, <1>a DEF Local, Original, Applied, Temp, Backup
<1> SUFFICES ASSUME NEW q \in Files PROVE ReviewedAt(q)' /\ (faults' = 0 => CleanAt(q)')
  BY <1>0, <1>a, LocalOwned DEF Reviewed, Clean
<1>c. /\ ReviewedAt(q) /\ ReviewedAt(p) /\ q \in Paths
      /\ Original(q)' = Original(q) /\ Applied(q)' = Applied(q)
      /\ q # p => Temp(q)' = Temp(q) /\ Backup(q)' = Backup(q)
      /\ p \in Files /\ p \in todo /\ todo \subseteq Files
      /\ faults' = 0 => CleanAt(q) /\ CleanAt(p)
  BY <1>a, <1>b
<1> USE DEF Goto, Step, Loop, Visited, Revisit
<1>1. CASE PrepareOpen(p)
  <2>1. pc = "prepare" /\ pc' = "prepareText" /\ todo' = todo
    BY <1>1 DEF PrepareOpen
  <2>2. Temp(p)' = Torn
    BY <1>1, <1>a, TempSet DEF PrepareOpen, disk, Temp
  <2>3. Backup(p)' = Backup(p)
    BY <1>1, <1>a DEF PrepareOpen, disk, Backup
  <2>4. First(p)'
    BY <1>1 DEF PrepareOpen, First
  <2>5. First(q) => q = p
    BY <1>1, <1>c, OneFirst DEF PrepareOpen
  <2> QED
    BY <1>c, <2>1, <2>2, <2>3, <2>4, <2>5
       DEF ReviewedAt, CleanAt, Undisplaced, Swapping, Sweeping, Cleared, Restoring
<1>2. CASE PrepareText(p)
  <2>1. pc = "prepareText" /\ pc' = "prepare" /\ todo' = todo \ {p}
    BY <1>2 DEF PrepareText
  <2>2. Temp(p)' \in {Temp(p), Applied(p)}
    BY <1>2, <1>a, TextWritten DEF PrepareText, disk, Temp
  <2>3. Backup(p)' = Backup(p)
    BY <1>2, <1>a DEF PrepareText, disk, Backup
  <2>4. First(q) => q = p
    BY <1>2, <1>c, OneFirst DEF PrepareText
  <2> QED
    BY <1>c, <2>1, <2>2, <2>3, <2>4
       DEF ReviewedAt, CleanAt, Undisplaced, Swapping, Sweeping, Cleared, Restoring
<1>3. CASE PrepareDeletion(p)
  <2>1. pc = "prepare" /\ pc' = "prepare" /\ todo' = todo \ {p}
    BY <1>3 DEF PrepareDeletion
  <2>2. Temp(p)' = Temp(p)
    BY <1>3, <1>a DEF PrepareDeletion, disk, Temp
  <2>3. Backup(p)' = Backup(p)
    BY <1>3, <1>a DEF PrepareDeletion, disk, Backup
  <2> QED
    BY <1>c, <2>1, <2>2, <2>3
       DEF ReviewedAt, CleanAt, Undisplaced, Swapping, Sweeping, Cleared, Restoring
<1>4. CASE PrepareFails(p)
  <2>1. pc \in {"prepare", "prepareText"} /\ pc' = "cleanup" /\ todo' = Files \ todo
    BY <1>4 DEF PrepareFails
  <2>2. Temp(p)' = Absent
    BY <1>4, <1>a, TempSet DEF PrepareFails, disk, Temp
  <2>3. Backup(p)' = Backup(p)
    BY <1>4, <1>a DEF PrepareFails, disk, Backup
  <2>4. First(q) => q = p
    BY <1>4, <1>c, OneFirst DEF PrepareFails
  <2> QED
    BY <1>c, <2>1, <2>2, <2>3, <2>4
       DEF ReviewedAt, CleanAt, Undisplaced, Swapping, Sweeping, Cleared, Restoring
<1>4a. CASE PrepareRefused(p)
  <2>1. pc = "prepare" /\ pc' = "cleanup" /\ todo' = Files \ todo
    BY <1>4a DEF PrepareRefused
  <2>2. Temp(p)' = Temp(p)
    BY <1>4a, <1>a DEF PrepareRefused, disk, Temp
  <2>3. Backup(p)' = Backup(p)
    BY <1>4a, <1>a DEF PrepareRefused, disk, Backup
  <2> QED
    BY <1>c, <2>1, <2>2, <2>3
       DEF ReviewedAt, CleanAt, Undisplaced, Swapping, Sweeping, Cleared, Restoring
<1>5. CASE ReplaceVerify(p)
  <2>1. pc = "replace" /\ pc' = "aside" /\ todo' = todo
    BY <1>5 DEF ReplaceVerify
  <2>2. Temp(p)' = Temp(p)
    BY <1>5, <1>a DEF ReplaceVerify, disk, Temp
  <2>3. Backup(p)' = Backup(p)
    BY <1>5, <1>a DEF ReplaceVerify, disk, Backup
  <2> QED
    BY <1>c, <2>1, <2>2, <2>3
       DEF ReviewedAt, CleanAt, Undisplaced, Swapping, Sweeping, Cleared, Restoring
<1>6. CASE ReplaceAside(p)
  <2>1. pc = "aside" /\ pc' = "put" /\ todo' = todo
    BY <1>6 DEF ReplaceAside
  <2>2. Temp(p)' = Temp(p)
    BY <1>6, <1>a DEF ReplaceAside, MoveAside, disk, Temp
  <2>3. First(p)'
    BY <1>6, <1>a, BackupSet DEF ReplaceAside, MoveAside, disk, First
  <2>4. First(q) => q = p
    BY <1>6, <1>c, OneFirst DEF ReplaceAside
  <2> QED
    BY <1>c, <2>1, <2>2, <2>3, <2>4
       DEF ReviewedAt, CleanAt, Undisplaced, Swapping, Sweeping, Cleared, Restoring
<1>7. CASE ReplaceFails(p)
  <2>1. pc \in {"replace", "aside"} /\ pc' = "undo" /\ todo' = Files \ todo
    BY <1>7 DEF ReplaceFails
  <2>2. Temp(p)' = Temp(p)
    BY <1>7, <1>a DEF ReplaceFails, disk, Temp
  <2>3. Backup(p)' = Backup(p)
    BY <1>7, <1>a DEF ReplaceFails, disk, Backup
  <2> QED
    BY <1>c, <2>1, <2>2, <2>3
       DEF ReviewedAt, CleanAt, Undisplaced, Swapping, Sweeping, Cleared, Restoring
<1>8. CASE ReplacePut(p)
  <2>1. pc = "put" /\ pc' = "replace" /\ todo' = todo \ {p}
    BY <1>8 DEF ReplacePut
  <2>2. Temp(p)' \in {Absent, Temp(p)}
    BY <1>8, <1>a, TempSet DEF ReplacePut, PutTemp, disk, Temp
  <2>3. Backup(p)' = Backup(p)
    BY <1>8, <1>a DEF ReplacePut, PutTemp, disk, Backup
  <2>4. First(q) => q = p
    BY <1>8, <1>c, OneFirst DEF ReplacePut
  <2> QED
    BY <1>c, <2>1, <2>2, <2>3, <2>4
       DEF ReviewedAt, CleanAt, Undisplaced, Swapping, Sweeping, Cleared, Restoring
<1>9. CASE ReplacePutFails(p)
  <2>1. pc = "put" /\ pc' = "undoPut" /\ todo' = (Files \ todo) \cup {p}
    BY <1>9 DEF ReplacePutFails
  <2>2. Temp(p)' = Temp(p)
    BY <1>9, <1>a DEF ReplacePutFails, disk, Temp
  <2>3. Backup(p)' = Backup(p)
    BY <1>9, <1>a DEF ReplacePutFails, disk, Backup
  <2>4. First(q) => q = p
    BY <1>9, <1>c, OneFirst DEF ReplacePutFails
  <2> QED
    BY <1>c, <2>1, <2>2, <2>3, <2>4
       DEF ReviewedAt, CleanAt, Undisplaced, Swapping, Sweeping, Cleared, Restoring
<1>10. CASE UndoRemove(p)
  <2>1. pc = "undo" /\ pc' = "undoPut" /\ todo' = todo
    BY <1>10 DEF UndoRemove
  <2>2. Temp(p)' = Temp(p)
    BY <1>10, <1>a DEF UndoRemove, disk, Temp
  <2>3. Backup(p)' = Backup(p)
    BY <1>10, <1>a DEF UndoRemove, disk, Backup
  <2> QED
    BY <1>c, <2>1, <2>2, <2>3
       DEF ReviewedAt, CleanAt, Undisplaced, Swapping, Sweeping, Cleared, Restoring
<1>11. CASE UndoPut(p)
  <2>1. pc = "undoPut" /\ pc' = "undo" /\ todo' = todo \ {p}
    BY <1>11 DEF UndoPut
  <2>2. Temp(p)' = Temp(p)
    BY <1>11, <1>a DEF UndoPut, PutBack, disk, Temp
  <2>3. Backup(p)' = Absent
    BY <1>11, <1>a, BackupSet DEF UndoPut, PutBack, disk, Backup
  <2> QED
    BY <1>c, <2>1, <2>2, <2>3
       DEF ReviewedAt, CleanAt, Undisplaced, Swapping, Sweeping, Cleared, Restoring
<1>12. CASE UndoFails(p)
  <2>1. pc \in {"undo", "undoPut"} /\ pc' \in {"undo", "undoPut"}
    BY <1>12 DEF UndoFails
  <2>2. Temp(p)' = Temp(p)
    BY <1>12, <1>a DEF UndoFails, disk, Temp
  <2>3. Backup(p)' = Backup(p) /\ faults' # 0
    BY <1>12, <1>a DEF UndoFails, disk, Backup, Fault
  <2> QED
    BY <1>c, <2>1, <2>2, <2>3 DEF ReviewedAt, Undisplaced, Swapping, Sweeping
<1>13. CASE Cleanup(p)
  <2>1. pc = "cleanup" /\ pc' = "cleanup" /\ todo' = todo \ {p}
    BY <1>13 DEF Cleanup
  <2>2. Temp(p)' = Absent
    BY <1>13, <1>a, TempSet DEF Cleanup, MoveBackDisplaced, PutBack, disk, Temp
  <2>3. Backup(p)' \in {Backup(p), Absent}
    BY <1>13, <1>a, BackupSet DEF Cleanup, MoveBackDisplaced, PutBack, disk, Backup
  <2> QED
    BY <1>c, <2>1, <2>2, <2>3
       DEF ReviewedAt, CleanAt, Undisplaced, Swapping, Sweeping, Cleared, Restoring
<1>14. CASE CleanupFails(p)
  <2>1. pc = "cleanup" /\ pc' = "cleanup" /\ todo' = todo \ {p}
    BY <1>14 DEF CleanupFails
  <2>2. Temp(p)' \in {Temp(p), Absent}
    BY <1>14, <1>a, TempSet DEF CleanupFails, MoveBackDisplaced, PutBack, disk, Temp
  <2>3. Backup(p)' \in {Backup(p), Absent} /\ faults' # 0
    BY <1>14, <1>a, BackupSet DEF CleanupFails, MoveBackDisplaced, PutBack, disk, Backup, Fault
  <2> QED
    BY <1>c, <2>1, <2>2, <2>3
       DEF ReviewedAt, CleanAt, Undisplaced, Swapping, Sweeping, Cleared, Restoring
<1> QED
  BY <1>1, <1>2, <1>3, <1>4, <1>4a, <1>5, <1>6, <1>7, <1>8, <1>9, <1>10, <1>11, <1>12, <1>13,
     <1>14 DEF ApplyStep

(* What a step of a restore leaves beside the file it is about, and the others. *)
LEMMA RestoreStepFiles ==
    ASSUME Inv, Reviewed, Clean, NEW p \in Paths, RestoreStep(p)
    PROVE  Reviewed' /\ Clean'
<1>0. Local(p)
  BY RestoreStepLocal
<1>a. /\ txn.tid \in Ids /\ txn' = txn /\ Files' = Files /\ Files \subseteq Paths
      /\ p \in Files /\ p \in todo /\ todo \subseteq Files /\ DiskTypeOK
      /\ faults \in Nat /\ (faults' = 0 => faults = 0)
      /\ \A q \in Files : ReviewedAt(q) /\ (faults = 0 => CleanAt(q))
  BY <1>0, Running DEF Local, Files, Reviewed, Clean
<1>b. \A q \in Files : /\ Original(q)' = Original(q) /\ Applied(q)' = Applied(q)
                       /\ q # p => Temp(q)' = Temp(q) /\ Backup(q)' = Backup(q)
  BY <1>0, <1>a DEF Local, Original, Applied, Temp, Backup
<1> SUFFICES ASSUME NEW q \in Files PROVE ReviewedAt(q)' /\ (faults' = 0 => CleanAt(q)')
  BY <1>0, <1>a, LocalOwned DEF Reviewed, Clean
<1>c. /\ ReviewedAt(q) /\ ReviewedAt(p) /\ q \in Paths
      /\ Original(q)' = Original(q) /\ Applied(q)' = Applied(q)
      /\ q # p => Temp(q)' = Temp(q) /\ Backup(q)' = Backup(q)
      /\ p \in Files /\ p \in todo /\ todo \subseteq Files
      /\ faults' = 0 => CleanAt(q) /\ CleanAt(p)
  BY <1>a, <1>b
<1> USE DEF Goto, Step, Loop, Visited, Revisit
<1>1. CASE RestorePrepareOpen(p)
  <2>1. pc = "rPrepare" /\ pc' = "rPrepareText" /\ todo' = todo
    BY <1>1 DEF RestorePrepareOpen
  <2>2. Temp(p)' = Torn /\ Original(p) # Absent
    BY <1>1, <1>a, TempSet DEF RestorePrepareOpen, disk, Temp
  <2>3. Backup(p)' = Backup(p)
    BY <1>1, <1>a DEF RestorePrepareOpen, disk, Backup
  <2>4. First(p)'
    BY <1>1 DEF RestorePrepareOpen, First
  <2>5. First(q) => q = p
    BY <1>1, <1>c, OneFirst DEF RestorePrepareOpen
  <2> QED
    BY <1>c, <2>1, <2>2, <2>3, <2>4, <2>5
       DEF ReviewedAt, CleanAt, Undisplaced, Swapping, Sweeping, Cleared, Restoring
<1>2. CASE RestorePrepareText(p)
  <2>1. pc = "rPrepareText" /\ pc' = "rPrepare" /\ todo' = todo \ {p}
    BY <1>2 DEF RestorePrepareText
  <2>2. Temp(p)' \in {Temp(p), Original(p)}
    BY <1>2, <1>a, TextWritten DEF RestorePrepareText, disk, Temp
  <2>3. Backup(p)' = Backup(p)
    BY <1>2, <1>a DEF RestorePrepareText, disk, Backup
  <2>4. First(q) => q = p
    BY <1>2, <1>c, OneFirst DEF RestorePrepareText
  <2> QED
    BY <1>c, <2>1, <2>2, <2>3, <2>4
       DEF ReviewedAt, CleanAt, Undisplaced, Swapping, Sweeping, Cleared, Restoring
<1>3. CASE RestorePrepareCreation(p)
  <2>1. pc = "rPrepare" /\ pc' = "rPrepare" /\ todo' = todo \ {p}
    BY <1>3 DEF RestorePrepareCreation
  <2>2. Temp(p)' = Temp(p)
    BY <1>3, <1>a DEF RestorePrepareCreation, disk, Temp
  <2>3. Backup(p)' = Backup(p)
    BY <1>3, <1>a DEF RestorePrepareCreation, disk, Backup
  <2> QED
    BY <1>c, <2>1, <2>2, <2>3
       DEF ReviewedAt, CleanAt, Undisplaced, Swapping, Sweeping, Cleared, Restoring
<1>4. CASE RestorePrepareFails(p)
  <2>1. pc \in {"rPrepare", "rPrepareText"} /\ pc' = "rCleanup" /\ todo' = Files \ todo
    BY <1>4 DEF RestorePrepareFails
  <2>2. Temp(p)' = Absent
    BY <1>4, <1>a, TempSet DEF RestorePrepareFails, disk, Temp
  <2>3. Backup(p)' = Backup(p)
    BY <1>4, <1>a DEF RestorePrepareFails, disk, Backup
  <2>4. First(q) => q = p
    BY <1>4, <1>c, OneFirst DEF RestorePrepareFails
  <2> QED
    BY <1>c, <2>1, <2>2, <2>3, <2>4
       DEF ReviewedAt, CleanAt, Undisplaced, Swapping, Sweeping, Cleared, Restoring
<1>5. CASE RestoreVerify(p)
  <2>1. pc = "rReplace" /\ pc' = "rAside" /\ todo' = todo
    BY <1>5 DEF RestoreVerify
  <2>2. Temp(p)' = Temp(p)
    BY <1>5, <1>a DEF RestoreVerify, disk, Temp
  <2>3. Backup(p)' = Backup(p)
    BY <1>5, <1>a DEF RestoreVerify, disk, Backup
  <2> QED
    BY <1>c, <2>1, <2>2, <2>3
       DEF ReviewedAt, CleanAt, Undisplaced, Swapping, Sweeping, Cleared, Restoring
<1>6. CASE RestoreAside(p)
  <2>1. pc = "rAside" /\ pc' = "rPut" /\ todo' = todo
    BY <1>6 DEF RestoreAside
  <2>2. Temp(p)' = Temp(p)
    BY <1>6, <1>a DEF RestoreAside, MoveAside, disk, Temp
  <2>3. First(p)'
    BY <1>6, <1>a, BackupSet DEF RestoreAside, MoveAside, disk, First
  <2>4. First(q) => q = p
    BY <1>6, <1>c, OneFirst DEF RestoreAside
  <2> QED
    BY <1>c, <2>1, <2>2, <2>3, <2>4
       DEF ReviewedAt, CleanAt, Undisplaced, Swapping, Sweeping, Cleared, Restoring
<1>7. CASE RestoreFails(p)
  <2>1. pc \in {"rReplace", "rAside"} /\ pc' = "undo" /\ todo' = Files \ todo
    BY <1>7 DEF RestoreFails
  <2>2. Temp(p)' = Temp(p)
    BY <1>7, <1>a DEF RestoreFails, disk, Temp
  <2>3. Backup(p)' = Backup(p)
    BY <1>7, <1>a DEF RestoreFails, disk, Backup
  <2> QED
    BY <1>c, <2>1, <2>2, <2>3
       DEF ReviewedAt, CleanAt, Undisplaced, Swapping, Sweeping, Cleared, Restoring
<1>8. CASE RestorePut(p)
  <2>1. pc = "rPut" /\ pc' = "rReplace" /\ todo' = todo \ {p}
    BY <1>8 DEF RestorePut
  <2>2. Temp(p)' = Absent \/ (Original(p) = Absent /\ Temp(p)' = Temp(p))
    BY <1>8, <1>a, TempSet DEF RestorePut, PutTemp, disk, Temp
  <2>3. Backup(p)' = Backup(p)
    BY <1>8, <1>a DEF RestorePut, PutTemp, disk, Backup
  <2>4. First(q) => q = p
    BY <1>8, <1>c, OneFirst DEF RestorePut
  <2> QED
    BY <1>c, <2>1, <2>2, <2>3, <2>4
       DEF ReviewedAt, CleanAt, Undisplaced, Swapping, Sweeping, Cleared, Restoring
<1>9. CASE RestorePutFails(p)
  <2>1. pc = "rPut" /\ pc' = "undoPut" /\ todo' = (Files \ todo) \cup {p}
    BY <1>9 DEF RestorePutFails
  <2>2. Temp(p)' = Temp(p)
    BY <1>9, <1>a DEF RestorePutFails, disk, Temp
  <2>3. Backup(p)' = Backup(p)
    BY <1>9, <1>a DEF RestorePutFails, disk, Backup
  <2>4. First(q) => q = p
    BY <1>9, <1>c, OneFirst DEF RestorePutFails
  <2> QED
    BY <1>c, <2>1, <2>2, <2>3, <2>4
       DEF ReviewedAt, CleanAt, Undisplaced, Swapping, Sweeping, Cleared, Restoring
<1>10. CASE RestoreCleanup(p)
  <2>1. pc = "rCleanup" /\ pc' = "rCleanup" /\ todo' = todo \ {p}
    BY <1>10 DEF RestoreCleanup
  <2>2. Temp(p)' = Absent \/ (Temp(p)' = Temp(p) /\ faults' # 0)
    BY <1>10, <1>a, TempSet DEF RestoreCleanup, disk, Temp, Fault
  <2>3. Backup(p)' = Backup(p)
    BY <1>10, <1>a DEF RestoreCleanup, disk, Backup
  <2> QED
    BY <1>c, <2>1, <2>2, <2>3
       DEF ReviewedAt, CleanAt, Undisplaced, Swapping, Sweeping, Cleared, Restoring
<1>11. CASE RestoreSweep(p)
  <2>1. pc = "rSweep" /\ pc' = "rSweep" /\ todo' = todo \ {p}
    BY <1>11 DEF RestoreSweep
  <2>2. Temp(p)' = Temp(p)
    BY <1>11, <1>a DEF RestoreSweep, disk, Temp
  <2>3. Backup(p)' = Absent \/ (Backup(p)' = Backup(p) /\ faults' # 0)
    BY <1>11, <1>a, BackupSet DEF RestoreSweep, disk, Backup, Fault
  <2> QED
    BY <1>c, <2>1, <2>2, <2>3
       DEF ReviewedAt, CleanAt, Undisplaced, Swapping, Sweeping, Cleared, Restoring
<1> QED
  BY <1>1, <1>2, <1>3, <1>4, <1>5, <1>6, <1>7, <1>8, <1>9, <1>10, <1>11 DEF RestoreStep

(* What a step of a recovery leaves beside the file it is about, and the others. *)
LEMMA RecoveryStepFiles ==
    ASSUME Inv, Reviewed, Clean, NEW p \in Paths, RecoveryStep(p)
    PROVE  Reviewed' /\ Clean'
<1>0. Local(p)
  BY RecoveryStepLocal
<1>a. /\ txn.tid \in Ids /\ txn' = txn /\ Files' = Files /\ Files \subseteq Paths
      /\ p \in Files /\ p \in todo /\ todo \subseteq Files /\ DiskTypeOK
      /\ faults \in Nat /\ (faults' = 0 => faults = 0)
      /\ \A q \in Files : ReviewedAt(q) /\ (faults = 0 => CleanAt(q))
  BY <1>0, Running DEF Local, Files, Reviewed, Clean
<1>b. \A q \in Files : /\ Original(q)' = Original(q) /\ Applied(q)' = Applied(q)
                       /\ q # p => Temp(q)' = Temp(q) /\ Backup(q)' = Backup(q)
  BY <1>0, <1>a DEF Local, Original, Applied, Temp, Backup
<1> SUFFICES ASSUME NEW q \in Files PROVE ReviewedAt(q)' /\ (faults' = 0 => CleanAt(q)')
  BY <1>0, <1>a, LocalOwned DEF Reviewed, Clean
<1>c. /\ ReviewedAt(q) /\ ReviewedAt(p) /\ q \in Paths
      /\ Original(q)' = Original(q) /\ Applied(q)' = Applied(q)
      /\ q # p => Temp(q)' = Temp(q) /\ Backup(q)' = Backup(q)
      /\ p \in Files /\ p \in todo /\ todo \subseteq Files
      /\ faults' = 0 => CleanAt(q) /\ CleanAt(p)
  BY <1>a, <1>b
<1> USE DEF Goto, Step, Loop, Visited, Revisit
<1>1. CASE Sweep(p)
  <2>1. pc = "sweep" /\ pc' = "sweep" /\ todo' = todo \ {p}
    BY <1>1 DEF Sweep
  <2>2. Temp(p)' = Absent
    BY <1>1, <1>a, TempSet DEF Sweep, disk, Temp
  <2>3. Backup(p)' = Absent
    BY <1>1, <1>a, BackupSet DEF Sweep, disk, Backup
  <2> QED
    BY <1>c, <2>1, <2>2, <2>3
       DEF ReviewedAt, CleanAt, Undisplaced, Swapping, Sweeping, Cleared, Restoring
<1>2. CASE RewriteOpen(p)
  <2>1. pc = "rewrite" /\ pc' = "rewriteText" /\ todo' = todo
    BY <1>2 DEF RewriteOpen
  <2>2. Temp(p)' = Torn
    BY <1>2, <1>a, TempSet DEF RewriteOpen, disk, Temp
  <2>3. Backup(p)' = Backup(p)
    BY <1>2, <1>a DEF RewriteOpen, disk, Backup
  <2> QED
    BY <1>c, <2>1, <2>2, <2>3
       DEF ReviewedAt, CleanAt, Undisplaced, Swapping, Sweeping, Cleared, Restoring
<1>3. CASE RewriteText(p)
  <2>1. pc = "rewriteText" /\ pc' = "rewriteClear" /\ todo' = todo
    BY <1>3 DEF RewriteText
  <2>2. Temp(p)' \in {Temp(p), Original(p)}
    BY <1>3, <1>a, TextWritten DEF RewriteText, disk, Temp
  <2>3. Backup(p)' = Backup(p)
    BY <1>3, <1>a DEF RewriteText, disk, Backup
  <2> QED
    BY <1>c, <2>1, <2>2, <2>3
       DEF ReviewedAt, CleanAt, Undisplaced, Swapping, Sweeping, Cleared, Restoring
<1>4. CASE RewriteClear(p)
  <2>1. pc = "rewriteClear" /\ pc' = "rewritePut" /\ todo' = todo
    BY <1>4 DEF RewriteClear
  <2>2. Temp(p)' = Temp(p)
    BY <1>4, <1>a DEF RewriteClear, disk, Temp
  <2>3. Backup(p)' = Backup(p)
    BY <1>4, <1>a DEF RewriteClear, disk, Backup
  <2> QED
    BY <1>c, <2>1, <2>2, <2>3
       DEF ReviewedAt, CleanAt, Undisplaced, Swapping, Sweeping, Cleared, Restoring
<1>5. CASE RewritePut(p)
  <2>1. pc = "rewritePut" /\ pc' = "rewriteSweep" /\ todo' = todo
    BY <1>5 DEF RewritePut
  <2>2. Temp(p)' = Absent
    BY <1>5, <1>a, TempSet DEF RewritePut, PutTemp, disk, Temp
  <2>3. Backup(p)' = Backup(p)
    BY <1>5, <1>a DEF RewritePut, PutTemp, disk, Backup
  <2> QED
    BY <1>c, <2>1, <2>2, <2>3
       DEF ReviewedAt, CleanAt, Undisplaced, Swapping, Sweeping, Cleared, Restoring
<1>6. CASE RewriteKeep(p)
  <2>1. pc = "rewrite" /\ pc' = "rewriteSweep" /\ todo' = todo
    BY <1>6 DEF RewriteKeep
  <2>2. Temp(p)' = Temp(p)
    BY <1>6, <1>a DEF RewriteKeep, disk, Temp
  <2>3. Backup(p)' = Backup(p)
    BY <1>6, <1>a DEF RewriteKeep, disk, Backup
  <2> QED
    BY <1>c, <2>1, <2>2, <2>3
       DEF ReviewedAt, CleanAt, Undisplaced, Swapping, Sweeping, Cleared, Restoring
<1>7. CASE RewriteCreation(p)
  <2>1. pc = "rewrite" /\ pc' = "rewriteSweep" /\ todo' = todo
    BY <1>7 DEF RewriteCreation
  <2>2. Temp(p)' = Temp(p)
    BY <1>7, <1>a DEF RewriteCreation, disk, Temp
  <2>3. Backup(p)' = Backup(p)
    BY <1>7, <1>a DEF RewriteCreation, disk, Backup
  <2> QED
    BY <1>c, <2>1, <2>2, <2>3
       DEF ReviewedAt, CleanAt, Undisplaced, Swapping, Sweeping, Cleared, Restoring
<1>8. CASE RewriteSweep(p)
  <2>1. pc = "rewriteSweep" /\ pc' = "rewrite" /\ todo' = todo \ {p}
    BY <1>8 DEF RewriteSweep
  <2>2. Temp(p)' = Absent
    BY <1>8, <1>a, TempSet DEF RewriteSweep, disk, Temp
  <2>3. Backup(p)' = Absent
    BY <1>8, <1>a, BackupSet DEF RewriteSweep, disk, Backup
  <2> QED
    BY <1>c, <2>1, <2>2, <2>3
       DEF ReviewedAt, CleanAt, Undisplaced, Swapping, Sweeping, Cleared, Restoring
<1> QED
  BY <1>1, <1>2, <1>3, <1>4, <1>5, <1>6, <1>7, <1>8 DEF RecoveryStep

(* A step between two loops leaves the files where they are.               *)
Between ==
    \/ MakeDirectory \/ MakeDirectoryFails \/ PrepareDone \/ ReplaceDone \/ UndoDone \/ CleanupDone
    \/ CommitDropPrevious \/ CommitSave \/ CommitFails
    \/ RestorePrepareDone \/ RestoreReplaced \/ RestoreCleanupDone \/ RestoreSwept \/ RestoreConsume
    \/ RollbackStart \/ SavedCheck \/ SweepDone \/ RewriteDone \/ VerifyDone \/ Reinstate \/ Consume

LEMMA BetweenFiles ==
    ASSUME Inv, Reviewed, Clean, Between
    PROVE  Reviewed' /\ Clean'
<1> USE DEF Goto, Step, Loop, store, disk, bounds, Fault
<1>1. /\ ~Unplanned /\ ~Unplanned'
      /\ UNCHANGED <<txn, temp, backup, applyRec, restoreRec>>
  BY DEF Between, MakeDirectory, MakeDirectoryFails, PrepareDone, ReplaceDone, UndoDone, CleanupDone,
         CommitDropPrevious, CommitSave, CommitFails, RestorePrepareDone, RestoreReplaced,
         RestoreCleanupDone, RestoreSwept, RestoreConsume, RollbackStart, SavedCheck, SweepDone,
         RewriteDone, VerifyDone, Reinstate, Consume, Unplanned
<1>2. Files' = Files /\ faults \in Nat /\ \A q \in Files : ReviewedAt(q) /\ (faults = 0 => CleanAt(q))
  BY <1>1, Running DEF Files, Reviewed, Clean
<1>3. faults' = 0 => faults = 0
  BY <1>2 DEF Between, MakeDirectory, MakeDirectoryFails, PrepareDone, ReplaceDone, UndoDone,
         CleanupDone, CommitDropPrevious, CommitSave, CommitFails, RestorePrepareDone,
         RestoreReplaced, RestoreCleanupDone, RestoreSwept, RestoreConsume, RollbackStart,
         SavedCheck, SweepDone, RewriteDone, VerifyDone, Reinstate, Consume
<1>4. faults' = 0 => AllOwned'
  BY <1>1, <1>3 DEF Clean, AllOwned, Owned
<1> SUFFICES ASSUME NEW q \in Files PROVE ReviewedAt(q)' /\ (faults' = 0 => CleanAt(q)')
  BY <1>1, <1>2, <1>4 DEF Reviewed, Clean
<1>5. /\ Temp(q)' = Temp(q) /\ Backup(q)' = Backup(q)
      /\ Original(q)' = Original(q) /\ Applied(q)' = Applied(q)
      /\ ReviewedAt(q) /\ (faults' = 0 => CleanAt(q))
  BY <1>1, <1>2, <1>3 DEF Temp, Backup, Original, Applied
<1> USE DEF ReviewedAt, CleanAt, Undisplaced, Swapping, Sweeping, Cleared, Restoring
<1>6. CASE MakeDirectory
  <2>1. pc = "mkdir" /\ pc' = "prepare"
    BY <1>6 DEF MakeDirectory
  <2> QED
    BY <1>5, <2>1
<1>7. CASE MakeDirectoryFails
  <2>1. pc = "mkdir" /\ pc' = "abandon"
    BY <1>7 DEF MakeDirectoryFails
  <2> QED
    BY <1>5, <2>1
<1>8. CASE PrepareDone
  <2>1. pc = "prepare" /\ pc' = "replace" /\ todo = {} /\ todo' = Files
    BY <1>8 DEF PrepareDone
  <2> QED
    BY <1>5, <2>1
<1>9. CASE ReplaceDone
  <2>1. pc = "replace" /\ pc' = "commit"
    BY <1>9 DEF ReplaceDone
  <2> QED
    BY <1>5, <2>1
<1>10. CASE UndoDone
  <2>1. pc = "undo" /\ pc' \in {"cleanup", "rCleanup"} /\ todo = {} /\ todo' = Files
    BY <1>10 DEF UndoDone
  <2> QED
    BY <1>5, <2>1
<1>11. CASE CleanupDone
  <2>1. pc = "cleanup" /\ pc' = "abandon" /\ todo = {}
    BY <1>11 DEF CleanupDone
  <2> QED
    BY <1>5, <2>1
<1>12. CASE CommitDropPrevious
  <2>1. pc' = "save"
    BY <1>12 DEF CommitDropPrevious
  <2> QED
    BY <1>5, <2>1
<1>13. CASE CommitSave
  <2>1. pc' = "saved"
    BY <1>13 DEF CommitSave
  <2> QED
    BY <1>5, <2>1
<1>14. CASE CommitFails
  <2>1. pc' = "rollback"
    BY <1>14 DEF CommitFails
  <2> QED
    BY <1>5, <2>1
<1>15. CASE RestorePrepareDone
  <2>1. pc = "rPrepare" /\ pc' = "rReplace" /\ todo' = Files
    BY <1>15 DEF RestorePrepareDone
  <2> QED
    BY <1>5, <2>1
<1>16. CASE RestoreReplaced
  <2>1. pc = "rReplace" /\ pc' = "rSweep" /\ todo = {} /\ todo' = Files
    BY <1>16 DEF RestoreReplaced
  <2> QED
    BY <1>5, <2>1
<1>17. CASE RestoreCleanupDone
  <2>1. pc = "rCleanup" /\ pc' = "rAbandon" /\ todo = {}
    BY <1>17 DEF RestoreCleanupDone
  <2> QED
    BY <1>5, <2>1
<1>18. CASE RestoreSwept
  <2>1. pc = "rSweep" /\ pc' = "rConsume" /\ todo = {}
    BY <1>18 DEF RestoreSwept
  <2> QED
    BY <1>5, <2>1
<1>19. CASE RestoreConsume
  <2>1. pc = "rConsume" /\ pc' = "rUnrecord"
    BY <1>19 DEF RestoreConsume
  <2> QED
    BY <1>5, <2>1
<1>20. CASE RollbackStart
  <2>1. pc' = "rewrite" /\ todo' = Files /\ Backup(q) \in {Absent, Original(q)}
    BY <1>20 DEF RollbackStart, IntactUncommitted, Files, Backup, Original
  <2> QED
    BY <1>5, <2>1
<1>21. CASE SavedCheck
  <2>1. pc' = "sweep" /\ todo' = Files /\ Backup(q) \in {Absent, Original(q)}
    BY <1>21 DEF SavedCheck, IntactCommitted, Files, Backup, Original
  <2> QED
    BY <1>5, <2>1
<1>22. CASE SweepDone
  <2>1. pc = "sweep" /\ pc' = "unrecord" /\ todo = {}
    BY <1>22 DEF SweepDone
  <2> QED
    BY <1>5, <2>1
<1>23. CASE RewriteDone
  <2>1. pc = "rewrite" /\ pc' = "verify" /\ todo = {}
    BY <1>23 DEF RewriteDone
  <2> QED
    BY <1>5, <2>1
<1>24. CASE VerifyDone
  <2>1. pc = "verify" /\ pc' \in {"consume", "reinstate"}
    BY <1>24 DEF VerifyDone
  <2> QED
    BY <1>5, <2>1
<1>25. CASE Reinstate
  <2>1. pc = "reinstate" /\ pc' = "unrecord"
    BY <1>25 DEF Reinstate
  <2> QED
    BY <1>5, <2>1
<1>26. CASE Consume
  <2>1. pc = "consume" /\ pc' = "unrecord"
    BY <1>26 DEF Consume
  <2> QED
    BY <1>5, <2>1
<1> QED
  BY <1>6, <1>7, <1>8, <1>9, <1>10, <1>11, <1>12, <1>13, <1>14, <1>15, <1>16, <1>17, <1>18,
     <1>19, <1>20, <1>21, <1>22, <1>23, <1>24, <1>25, <1>26 DEF Between

(* A step that ends the work on a transaction whose record stays.          *)
Leaving ==
    \/ ApplyRefused \/ PersistApplyFails \/ AbandonFails \/ CommitNothing
    \/ RestoreRefused \/ PersistRestoreFails \/ RestoreFinishFails
    \/ RecoverNothing \/ RecoverBlocked \/ RegisterDone
    \/ RollbackBlocked \/ SavedChanged \/ VerifyFails \/ RecoveryIoError

LEMMA LeavingFiles ==
    ASSUME Inv, Reviewed, Clean, Leaving
    PROVE  Reviewed' /\ Clean'
<1> USE DEF Step, Goto, Return, store, disk, bounds, Fault
<1>0. faults \in Nat
  BY DEF Inv, IInv, TypeOK, BoundsTypeOK
<1>1. Unplanned' /\ UNCHANGED <<applyRec, restoreRec>> /\ (faults' = 0 => faults = 0)
  BY <1>0 DEF Leaving, ApplyRefused, PersistApplyFails, AbandonFails, CommitNothing, RestoreRefused,
         PersistRestoreFails, RestoreFinishFails, RecoverNothing, RecoverBlocked, RegisterDone,
         RollbackBlocked, SavedChanged, VerifyFails, RecoveryIoError, RecoveryFails, Unplanned
<1>2. /\ temp' = temp
      /\ \A i \in Ids, q \in Paths : backup'[i][q] = backup[i][q] \/ backup'[i][q] = Absent
  <2>1. CASE RollbackBlocked \/ SavedChanged \/ VerifyFails \/ RecoveryIoError
    <3>1. RecoveryFails /\ (job = "rollback" => ~Unplanned)
      BY <2>1 DEF RollbackBlocked, SavedChanged, VerifyFails, RecoveryIoError, Unplanned, Inv, IInv,
                  ControlInv, JobRecovers, RecoveryPcs
    <3> QED
      BY <3>1, RecoveryFailsFiles
  <2>2. CASE ~(RollbackBlocked \/ SavedChanged \/ VerifyFails \/ RecoveryIoError)
    BY <2>2 DEF Leaving, ApplyRefused, PersistApplyFails, AbandonFails, CommitNothing,
         RestoreRefused, PersistRestoreFails, RestoreFinishFails, RecoverNothing, RecoverBlocked,
         RegisterDone
  <2> QED
    BY <2>1, <2>2
<1>3. faults' = 0 => AllOwned'
  BY <1>1, <1>2 DEF Clean, AllOwned, Owned
<1> QED
  BY <1>1, <1>3 DEF Reviewed, Clean

(* A record goes when nothing is left beside the files of its transaction. *)
Settling ==
    \/ Abandon \/ ApplyFinish \/ RolledBack \/ RecoveredApply
    \/ RestoreAbandon \/ RestoreFinish \/ RecoveredRestore \/ RecoverQuarantine

LEMMA SettlingFiles ==
    ASSUME Inv, Reviewed, Clean, Settling
    PROVE  Reviewed' /\ Clean'
<1> USE DEF Return, store, disk, bounds, Fault
<1>0. faults \in Nat /\ Tracked
  BY DEF Inv, IInv, TypeOK, BoundsTypeOK
<1>1. Unplanned' /\ UNCHANGED <<temp, backup>> /\ (faults' = 0 => faults = 0)
  BY <1>0 DEF Settling, Abandon, ApplyFinish, RolledBack, RecoveredApply, RestoreAbandon,
         RestoreFinish, RecoveredRestore, RecoverQuarantine, Unplanned
<1>2. CASE RecoverQuarantine
  <2>1. applyRec.ckpt.files = {} /\ restoreRec' = restoreRec
    BY <1>2 DEF RecoverQuarantine, InvalidRecord
  <2> QED
    BY <1>1, <2>1 DEF Reviewed, Clean, AllOwned, Owned
<1>3. CASE Abandon \/ ApplyFinish \/ RolledBack \/ RecoveredApply
  <2>1. pc \in {"abandon", "unrecord"} /\ restoreRec' = restoreRec /\ Record = applyRec
    BY <1>0, <1>3 DEF Abandon, ApplyFinish, RolledBack, RecoveredApply, Record, Tracked, ApplyPcs,
           RecoveryPcs
  <2>2. txn = applyRec /\ Unlooped # {} /\ ~Unplanned
    BY <1>0, <2>1 DEF Tracked, Unplanned, Unrecorded, Unlooped
  <2>3. faults = 0 => \A q \in Files : Temp(q) = Absent /\ Backup(q) = Absent
    BY <2>1, <2>2 DEF Clean, CleanAt, Cleared
  <2> QED
    BY <1>1, <2>1, <2>2, <2>3 DEF Reviewed, Clean, AllOwned, Owned, Files, Temp, Backup
<1>4. CASE RestoreAbandon \/ RestoreFinish \/ RecoveredRestore
  <2>1. pc \in {"rAbandon", "rUnrecord", "unrecord"} /\ applyRec' = applyRec /\ Record = restoreRec
    BY <1>0, <1>4 DEF RestoreAbandon, RestoreFinish, RecoveredRestore, Record, Tracked, RestorePcs,
           RecoveryPcs
  <2>2. txn = restoreRec /\ ~Unplanned
    BY <1>0, <2>1 DEF Tracked, Unplanned, Unrecorded
  <2>3. faults = 0 => \A q \in Files : Temp(q) = Absent /\ Backup(q) = Absent
    BY <2>1, <2>2 DEF Clean, CleanAt, Cleared
  <2>4. restoreRec' = None \/ restoreRec' = restoreRec
    BY <1>4 DEF RestoreAbandon, RestoreFinish, RecoveredRestore
  <2> QED
    BY <1>1, <2>1, <2>2, <2>3, <2>4 DEF Reviewed, Clean, AllOwned, Owned, Files, Temp, Backup
<1> QED
  BY <1>2, <1>3, <1>4 DEF Settling

(* A transaction that is planned or recorded has nothing beside its files, *)
(* and one that is taken over has what recovery has looked at.             *)
LEMMA TakingFiles ==
    ASSUME Inv, Reviewed, Clean,
           \/ ApplyPlan \/ RestorePlan \/ PersistApply \/ PersistRestore
           \/ RecoverCommitted \/ RecoverUncommitted \/ RecoverRestore
    PROVE  Reviewed' /\ Clean'
<1> USE DEF store, disk, bounds, Step, Loop, Goto
<1>0. IInv /\ Fresh /\ nextId \in Nat /\ MaxIds \in Nat
  BY BoundAssumption DEF Inv, IInv, TypeOK, BoundsTypeOK
<1>1. ~Unplanned' /\ UNCHANGED <<temp, backup, faults>>
  BY DEF ApplyPlan, RestorePlan, PersistApply, PersistRestore, RecoverCommitted,
         RecoverUncommitted, RecoverRestore, Recovering, Unplanned
<1>2. CASE ApplyPlan \/ RestorePlan
  <2>1. nextId \in Ids
    BY <1>0, <1>2 DEF ApplyPlan, RestorePlan, IInv, TypeOK, BoundsTypeOK, ControlInv, IdLeft, Ids
  <2>2. txn'.tid = nextId /\ pc' \in {"planned", "rPlanned"} /\ UNCHANGED <<applyRec, restoreRec>>
    BY <1>2 DEF ApplyPlan, RestorePlan
  <2>3. \A q \in Paths : temp[nextId][q] = Absent /\ backup[nextId][q] = Absent
    BY <1>0, <2>1 DEF Fresh
  <2>4. Files' \subseteq Paths
    BY <1>2, TransactionParts, PlannedType, <2>1
       DEF ApplyPlan, RestorePlan, StillApplied, Files, PlannedCheckpoint, PlannedFiles, Inv, IInv,
           TypeOK, StoreTypeOK, Checkpoint
  <2>5. \A q \in Files' : Temp(q)' = Absent /\ Backup(q)' = Absent
    BY <1>1, <2>2, <2>3, <2>4 DEF Temp, Backup
  <2>6. AllOwned => AllOwned'
    BY <1>1, <2>2 DEF AllOwned, Owned
  <2> QED
    BY <1>1, <2>2, <2>5, <2>6 DEF Reviewed, Clean, ReviewedAt, CleanAt, Undisplaced, Swapping,
       Sweeping, Cleared, Restoring
<1>3. CASE PersistApply \/ PersistRestore
  <2>1. /\ pc \in {"planned", "rPlanned"} /\ pc' \in {"mkdir", "rPrepare"} /\ txn' = txn
        /\ applyRec = None \/ applyRec' = applyRec
        /\ restoreRec = None \/ restoreRec' = restoreRec
        /\ pc' = "rPrepare" => todo' = Files
    BY <1>3 DEF PersistApply, PersistRestore
  <2>2. AllOwned => AllOwned'
    BY <1>1, <2>1 DEF AllOwned, Owned
  <2>3. \A q \in Files : Temp(q)' = Temp(q) /\ Backup(q)' = Backup(q)
    BY <1>1, <2>1 DEF Temp, Backup
  <2>4. /\ Files' = Files
        /\ \A q \in Files : /\ Original(q)' = Original(q) /\ Applied(q)' = Applied(q)
                            /\ ReviewedAt(q) /\ (faults = 0 => CleanAt(q))
    BY <2>1 DEF Files, Original, Applied, Reviewed, Clean, Unplanned
  <2> QED
    BY <1>1, <2>1, <2>2, <2>3, <2>4 DEF Reviewed, Clean, ReviewedAt, CleanAt, Undisplaced, Swapping,
       Sweeping, Cleared, Restoring
<1>4. CASE RecoverCommitted \/ RecoverUncommitted \/ RecoverRestore
  <2>1. /\ pc' \in {"sweep", "rewrite"} /\ todo' = Files'
        /\ UNCHANGED <<applyRec, restoreRec>>
    BY <1>4 DEF RecoverCommitted, RecoverUncommitted, RecoverRestore, Recovering, Files
  <2>2. \A q \in Files' : /\ temp[txn'.tid][q] \in {Absent, Original(q)', Applied(q)'}
                          /\ backup[txn'.tid][q] \in {Absent, Original(q)', Applied(q)'}
    BY <1>4 DEF RecoverCommitted, RecoverUncommitted, RecoverRestore, Recovering, Files,
       CommittedRecoverable, UncommittedRecoverable, RestoreRecoverable,
       IntactCommitted, IntactUncommitted, IntactRestore, Original, Applied
  <2>3. \A q \in Files' : /\ Temp(q)' \in {Absent, Original(q)', Applied(q)'}
                          /\ Backup(q)' \in {Absent, Original(q)', Applied(q)'}
    BY <1>1, <2>2 DEF Temp, Backup
  <2>4. AllOwned => AllOwned'
    BY <1>1, <2>1 DEF AllOwned, Owned
  <2> QED
    BY <1>1, <2>1, <2>3, <2>4 DEF Reviewed, Clean, ReviewedAt, CleanAt, Undisplaced, Swapping,
       Sweeping, Cleared, Restoring
<1> QED
  BY <1>2, <1>3, <1>4

(* Every step of an operation leaves the files clean.                      *)
LEMMA FilesStep ==
    ASSUME Inv, Reviewed, Clean, OperationNext
    PROVE  Reviewed' /\ Clean'
<1>1. CASE ApplyNext
  BY <1>1, ApplyStepFiles, BetweenFiles, LeavingFiles, SettlingFiles, TakingFiles
     DEF ApplyNext, Between, Leaving, Settling
<1>2. CASE RestoreNext
  BY <1>2, RestoreStepFiles, BetweenFiles, LeavingFiles, SettlingFiles, TakingFiles
     DEF RestoreNext, Between, Leaving, Settling
<1>3. CASE RecoveryNext
  BY <1>3, RecoveryStepFiles, BetweenFiles, LeavingFiles, SettlingFiles, TakingFiles
     DEF RecoveryNext, Between, Leaving, Settling
<1> QED
  BY <1>1, <1>2, <1>3 DEF OperationNext

FilesInv == Inv /\ Reviewed /\ Clean

LEMMA FilesInit == Init => FilesInv
<1> SUFFICES ASSUME Init PROVE FilesInv
  OBVIOUS
<1>1. IInv /\ RecordsInv
  BY InitInv DEF Init, RecordsInv, RecordsExclusive, NoRecord
<1>2. Unplanned /\ Tracked
  BY DEF Init, Unplanned, Tracked, ApplyPcs, RestorePcs, RecoveryPcs
<1>3. Fresh /\ AllOwned
  BY DEF Init, Fresh, AllOwned, Blank
<1> QED
  BY <1>1, <1>2, <1>3 DEF FilesInv, Inv, Reviewed, Clean

LEMMA FilesNext == FilesInv /\ [Next]_vars => FilesInv'
<1> SUFFICES ASSUME FilesInv, [Next]_vars PROVE FilesInv'
  OBVIOUS
<1>1. Inv /\ IInv /\ RecordsInv /\ Tracked /\ Fresh /\ Reviewed /\ Clean /\ IInv'
  BY NextInv DEF FilesInv, Inv
<1>2. CASE OperationNext
  BY <1>1, <1>2, RecordsStep, TrackedStep, FreshStep, FilesStep DEF FilesInv, Inv
<1>3. CASE (\E handler \in Ops \ {"none"} : Begin(handler)) \/ Review \/ Discard \/ Edit \/ Crash
  <2> USE DEF Begin, Review, Discard, Edit, Crash, Return, disk, store, control, bounds, vars
  <2>1. /\ UNCHANGED <<temp, backup, applyRec, restoreRec, nextId, faults>>
        /\ \/ Unplanned' /\ job' \in {job, "none"} /\ pc' \in {"idle", "recover"} 
           \/ UNCHANGED <<op, pc, job, txn, todo>>
    BY <1>3 DEF Unplanned
  <2>2. RecordsInv'
    BY <1>1, <1>3 DEF RecordsInv, RecordsExclusive, NoRecord
  <2>3. Tracked'
    BY <1>1, <1>3, <2>1 DEF Tracked, Unplanned, Unlooped, Unrecorded, Record, Files, ApplyPcs, RestorePcs,
           RecoveryPcs
  <2>4. Fresh' /\ (AllOwned => AllOwned')
    BY <1>1, <2>1 DEF Fresh, AllOwned, Owned
  <2>5. Reviewed' /\ Clean'
    <3>1. CASE Unplanned'
      BY <1>1, <2>1, <2>4, <3>1 DEF Reviewed, Clean
    <3>2. CASE UNCHANGED <<op, pc, job, txn, todo>>
      BY <1>1, <2>1, <2>4, <3>2 DEF Reviewed, Clean, ReviewedAt, CleanAt, Files, Temp, Backup, Original,
         Applied, Unplanned, First
    <3> QED
      BY <2>1, <3>1, <3>2
  <2> QED
    BY <1>1, <2>2, <2>3, <2>4, <2>5 DEF FilesInv, Inv
<1>4. CASE UNCHANGED vars
  <2>1. UNCHANGED <<temp, backup, applyRec, restoreRec, nextId, faults, op, pc, job, txn, todo, target,
                    ckpt, session, staged, memory, dir>>
    BY <1>4 DEF vars, disk, store, stage, control, bounds
  <2>2. RecordsInv' /\ Tracked' /\ Fresh'
    BY <1>1, <2>1 DEF RecordsInv, RecordsExclusive, NoRecord, Tracked, Unplanned, Record, Files, Fresh
  <2>3. Reviewed' /\ Clean'
    BY <1>1, <2>1 DEF Reviewed, Clean, AllOwned, Owned, ReviewedAt, CleanAt, Files, Temp, Backup, Original,
       Applied, Unplanned, First
  <2> QED
    BY <1>1, <2>2, <2>3 DEF FilesInv, Inv
<1> QED
  BY <1>2, <1>3, <1>4 DEF Next

LEMMA FilesAlways == Spec => []FilesInv
BY FilesInit, FilesNext, PTL DEF Spec

(* If no call fails, a settled bundle has no file of a transaction beside  *)
(* its own: crashes, recoveries of recoveries and edits at any moment      *)
(* leave none behind.                                                      *)
THEOREM NoFilesLeft == Spec => []NoArtifactsLeft
<1>1. ASSUME FilesInv PROVE NoArtifactsLeft
  <2> SUFFICES ASSUME Settled, faults = 0, NEW i \in Ids
               PROVE  temp[i] = Blank /\ backup[i] = Blank
    BY DEF NoArtifactsLeft
  <2>1. \A q \in Paths : temp[i][q] = Absent /\ backup[i][q] = Absent
    BY <1>1 DEF FilesInv, Clean, AllOwned, Owned, Settled, NoRecord
  <2>2. temp[i] \in [Paths -> File] /\ backup[i] \in [Paths -> File]
    BY <1>1 DEF FilesInv, Inv, IInv, TypeOK, DiskTypeOK
  <2> QED
    BY <2>1, <2>2 DEF Blank
<1> QED
  BY <1>1, FilesAlways, PTL

-----------------------------------------------------------------------------
(* Some file, of the bundle or of a transaction, keeps the text.           *)
TextKept(p, text) == FileHolds(p, text) => FileHolds(p, text)'

(* The text beside and at a file of the transaction, in one set.           *)
Around(p) == {target[p], Temp(p), Backup(p)}

(* A step on one file keeps a text if it stays around that file.           *)
LEMMA LocalKeeps ==
    ASSUME Inv, NEW p \in Paths, Local(p), NEW q \in Paths, NEW text,
           q = p /\ text \in Around(p) => text \in Around(p)'
    PROVE  TextKept(q, text)
<1> SUFFICES ASSUME FileHolds(q, text) PROVE FileHolds(q, text)'
  BY DEF TextKept
<1>1. txn' = txn /\ txn.tid \in Ids
  BY Running DEF Local
<1>2. CASE q # p
  BY <1>2 DEF Local, FileHolds
<1>3. CASE q = p /\ text \in Around(p)
  BY <1>1, <1>3 DEF Around, FileHolds, Temp, Backup
<1>4. CASE q = p /\ text \notin Around(p)
  <2>1. PICK i \in Ids : temp[i][p] = text \/ backup[i][p] = text
    BY <1>4 DEF FileHolds, Around
  <2>2. i # txn.tid
    BY <1>4, <2>1 DEF Around, Temp, Backup
  <2> QED
    BY <1>4, <2>1, <2>2 DEF Local, FileHolds
<1> QED
  BY <1>2, <1>3, <1>4

(* What lies around a file is kept by each step outside the windows.       *)
LEMMA AroundKept ==
    ASSUME Inv, Reviewed, ~Window, NEW p \in Paths, ApplyStep(p) \/ RestoreStep(p) \/ RecoveryStep(p),
           NEW text, text \notin {Absent, Torn, Original(p), Applied(p)}, text \in Around(p)
    PROVE  text \in Around(p)'
<1>a. Local(p)
  BY ApplyStepLocal, RestoreStepLocal, RecoveryStepLocal
<1>b. /\ txn.tid \in Ids /\ txn' = txn /\ p \in todo /\ DiskTypeOK
      /\ ReviewedAt(p)
  BY <1>a, Running DEF Local, Reviewed
<1>c. Temp(p) # text
  BY <1>b DEF ReviewedAt
<1>d. text = target[p] \/ text = Backup(p)
  BY <1>c DEF Around
<1> USE DEF disk
<1>1. CASE PrepareOpen(p)
  BY <1>1, <1>b, <1>c, <1>d DEF PrepareOpen, Around, Temp, Backup
<1>2. CASE PrepareText(p)
  BY <1>2, <1>b, <1>c, <1>d, TextWritten DEF PrepareText, Around, Temp, Backup
<1>3. CASE PrepareDeletion(p)
  BY <1>3, <1>b, <1>c, <1>d DEF PrepareDeletion, Around, Temp, Backup
<1>4. CASE PrepareFails(p)
  BY <1>4, <1>b, <1>c, <1>d DEF PrepareFails, Around, Temp, Backup
<1>4a. CASE PrepareRefused(p)
  BY <1>4a, <1>b, <1>c, <1>d DEF PrepareRefused, Around, Temp, Backup
<1>5. CASE ReplaceVerify(p)
  BY <1>5, <1>b, <1>c, <1>d DEF ReplaceVerify, Around, Temp, Backup
<1>6. CASE ReplaceAside(p)
  BY <1>6, <1>b, <1>c, <1>d, BackupSet DEF MoveAside, ReviewedAt, Swapping, ReplaceAside, Around, Temp, Backup
<1>7. CASE ReplaceFails(p)
  BY <1>7, <1>b, <1>c, <1>d DEF ReplaceFails, Around, Temp, Backup
<1>8. CASE Cleanup(p)
  BY <1>8, <1>b, <1>c, <1>d, TargetSet DEF MoveBackDisplaced, StillDisplaced, PutBack, Cleanup, Around, Temp, Backup
<1>9. CASE CleanupFails(p)
  BY <1>9, <1>b, <1>c, <1>d, TargetSet DEF MoveBackDisplaced, StillDisplaced, PutBack, CleanupFails, Around, Temp, Backup
<1>10. CASE ReplacePut(p) \/ ReplacePutFails(p) \/ UndoRemove(p) \/ UndoPut(p) \/ UndoFails(p)
  BY <1>10 DEF Window, ReplacePut, ReplacePutFails, UndoRemove, UndoPut, UndoFails
<1>11. CASE RestorePrepareOpen(p)
  BY <1>11, <1>b, <1>c, <1>d DEF RestorePrepareOpen, Around, Temp, Backup
<1>12. CASE RestorePrepareText(p)
  BY <1>12, <1>b, <1>c, <1>d, TextWritten DEF RestorePrepareText, Around, Temp, Backup
<1>13. CASE RestorePrepareCreation(p)
  BY <1>13, <1>b, <1>c, <1>d DEF RestorePrepareCreation, Around, Temp, Backup
<1>14. CASE RestorePrepareFails(p)
  BY <1>14, <1>b, <1>c, <1>d DEF RestorePrepareFails, Around, Temp, Backup
<1>15. CASE RestoreVerify(p)
  BY <1>15, <1>b, <1>c, <1>d DEF RestoreVerify, Around, Temp, Backup
<1>16. CASE RestoreAside(p)
  BY <1>16, <1>b, <1>c, <1>d, BackupSet DEF MoveAside, ReviewedAt, Swapping, RestoreAside, Around, Temp, Backup
<1>17. CASE RestoreFails(p)
  BY <1>17, <1>b, <1>c, <1>d DEF RestoreFails, Around, Temp, Backup
<1>18. CASE RestoreCleanup(p)
  BY <1>18, <1>b, <1>c, <1>d DEF RestoreCleanup, Around, Temp, Backup
<1>19. CASE RestorePut(p) \/ RestorePutFails(p) \/ RestoreSweep(p)
  BY <1>19 DEF Window, RestorePut, RestorePutFails, RestoreSweep
<1>20. CASE Sweep(p)
  BY <1>20, <1>b, <1>c, <1>d DEF ReviewedAt, Sweeping, Sweep, Around, Temp, Backup
<1>21. CASE RewriteText(p)
  BY <1>21, <1>b, <1>c, <1>d, TextWritten DEF RewriteText, Around, Temp, Backup
<1>22. CASE RewriteSweep(p)
  BY <1>22, <1>b, <1>c, <1>d DEF ReviewedAt, Sweeping, RewriteSweep, Around, Temp, Backup
<1>23. CASE RewriteOpen(p) \/ RewriteClear(p) \/ RewritePut(p) \/ RewriteKeep(p) \/ RewriteCreation(p)
  BY <1>23 DEF Window, RewriteOpen, RewriteClear, RewritePut, RewriteKeep, RewriteCreation
<1> QED
  BY <1>1, <1>2, <1>3, <1>4, <1>4a, <1>5, <1>6, <1>7, <1>8, <1>9, <1>10, <1>11, <1>12, <1>13, <1>14,
     <1>15, <1>16, <1>17, <1>18, <1>19, <1>20, <1>21, <1>22, <1>23 DEF ApplyStep, RestoreStep, RecoveryStep

(* The other steps of an operation change no file, unless a rollback fails. *)
LEMMA OtherStepsKeep ==
    ASSUME Inv, OperationNext, ~Window,
           ~ \E p \in Paths : ApplyStep(p) \/ RestoreStep(p) \/ RecoveryStep(p)
    PROVE  UNCHANGED <<target, temp, backup>>
<1> USE DEF disk
<1>1. CASE ApplyNext
  BY <1>1 DEF ApplyNext, ApplyPlan, ApplyRefused, PersistApply, PersistApplyFails, MakeDirectory,
     MakeDirectoryFails, PrepareDone, ReplaceDone, UndoDone, CleanupDone, Abandon, AbandonFails,
     CommitNothing, CommitDropPrevious, CommitSave, CommitFails, ApplyFinish
<1>2. CASE RestoreNext
  BY <1>2 DEF RestoreNext, RestorePlan, RestoreRefused, PersistRestore, PersistRestoreFails,
     RestorePrepareDone, RestoreReplaced, RestoreCleanupDone, RestoreAbandon, RestoreSwept,
     RestoreConsume, RestoreFinish, RestoreFinishFails
<1>3. CASE RollbackBlocked \/ SavedChanged \/ VerifyFails \/ RecoveryIoError
  <2>1. pc \in RecoveryPcs \/ job # "rollback"
    BY <1>3 DEF RollbackBlocked, SavedChanged, VerifyFails, RecoveryIoError, Inv, IInv, ControlInv,
       JobRecovers, RecoveryPcs
  <2>2. job # "rollback" /\ RecoveryFails
    BY <1>3, <2>1 DEF RollbackBlocked, SavedChanged, VerifyFails, RecoveryIoError, Window
  <2> QED
    BY <2>2 DEF RecoveryFails
<1>4. CASE RecoveryNext /\ ~(RollbackBlocked \/ SavedChanged \/ VerifyFails \/ RecoveryIoError)
  BY <1>4 DEF RecoveryNext, RecoverNothing, RecoverBlocked, RecoverQuarantine, RecoverCommitted,
     RecoverUncommitted, RecoverRestore, Recovering, RollbackStart, SavedCheck, SweepDone,
     RewriteDone, VerifyDone, Reinstate, Consume, RecoveredApply, RecoveredRestore, RolledBack,
     RegisterDone
<1> QED
  BY <1>1, <1>2, <1>3, <1>4 DEF OperationNext

(* What nobody reviewed stays somewhere in the bundle, or among the files  *)
(* displaced beside it, at every step of Studio outside the windows.       *)
LEMMA EditsKept ==
    ASSUME FilesInv, [Next]_vars
    PROVE  \A p \in Paths, text \in UserText :
              EditLost(p, text) /\ edits' = edits => Window
<1> SUFFICES ASSUME NEW q \in Paths, NEW text \in UserText,
                    Unreviewed(q, text), edits' = edits, ~Window
             PROVE  TextKept(q, text)
  BY DEF EditLost, TextKept
<1>0. Inv /\ Reviewed /\ edits \in Nat
  BY BoundAssumption DEF FilesInv, Inv, IInv, TypeOK, BoundsTypeOK
<1>1. CASE \E p \in Paths : ApplyStep(p) \/ RestoreStep(p) \/ RecoveryStep(p)
  <2>1. PICK p \in Paths : ApplyStep(p) \/ RestoreStep(p) \/ RecoveryStep(p)
    BY <1>1
  <2>2. Local(p)
    BY <1>0, <2>1, ApplyStepLocal, RestoreStepLocal, RecoveryStepLocal
  <2>3. txn # None
    BY <1>0, <2>2, Running, NoneAssumption DEF Local
  <2>4. text \notin {Absent, Torn, Original(q), Applied(q)}
    BY <2>3, UserTextAssumption, TextAssumption DEF Unreviewed
  <2>5. q = p /\ text \in Around(p) => text \in Around(p)'
    BY <1>0, <2>1, <2>4, AroundKept
  <2> QED
    BY <1>0, <2>2, <2>5, LocalKeeps
<1>2. CASE UNCHANGED <<target, temp, backup>>
  BY <1>2 DEF TextKept, FileHolds
<1>3. CASE OperationNext
  BY <1>0, <1>1, <1>2, <1>3, OtherStepsKeep
<1>4. CASE (\E handler \in Ops \ {"none"} : Begin(handler)) \/ Review \/ Discard \/ Crash
  BY <1>2, <1>4 DEF Begin, Review, Discard, Crash, disk
<1>5. ~Edit
  BY <1>0 DEF Edit
<1>6. CASE UNCHANGED vars
  BY <1>2, <1>6 DEF vars, disk
<1> QED
  BY <1>3, <1>4, <1>5, <1>6 DEF Next

(* An edit made at any moment, also while an operation runs, that nobody   *)
(* reviewed is lost by no step of Studio but those of Window: of the many  *)
(* renames and removals, only they do not look at what they replace.       *)
THEOREM EditsSurvive == Spec => EditsLostOnlyInWindows
<1>1. FilesInv /\ [Next]_vars =>
        [\A p \in Paths, text \in UserText : EditLost(p, text) /\ edits' = edits => Window]_vars
  BY EditsKept
<1> QED
  BY <1>1, FilesAlways, PTL DEF Spec, EditsLostOnlyInWindows

-----------------------------------------------------------------------------
(* A step on one file runs on in its handler, and only the sweep of a      *)
(* committed apply, which changes no file of the bundle, can end one.      *)
LEMMA StepRunsOn ==
    ASSUME NEW p \in Paths, ApplyStep(p) \/ RestoreStep(p) \/ RecoveryStep(p)
    PROVE  /\ UNCHANGED <<op, job>>
           /\ pc' \in {"sweep", "unrecord"} => pc = "sweep" /\ UNCHANGED target
<1> USE DEF Goto, Step, Loop, Visited, Revisit, RecoveryPcs
<1>1. CASE ApplyStep(p)
  BY <1>1 DEF ApplyStep, PrepareOpen, PrepareText, PrepareDeletion, PrepareRefused, PrepareFails,
     ReplaceVerify, ReplaceAside, ReplaceFails, ReplacePut, ReplacePutFails, UndoRemove, UndoPut, UndoFails,
     Cleanup, CleanupFails
<1>2. CASE RestoreStep(p)
  BY <1>2 DEF RestoreStep, RestorePrepareOpen, RestorePrepareText, RestorePrepareCreation,
     RestorePrepareFails, RestoreVerify, RestoreAside, RestoreFails, RestorePut, RestorePutFails,
     RestoreCleanup, RestoreSweep
<1>3. CASE RecoveryStep(p)
  BY <1>3 DEF RecoveryStep, Sweep, RewriteOpen, RewriteText, RewriteClear, RewritePut, RewriteKeep,
     RewriteCreation, RewriteSweep
<1> QED
  BY <1>1, <1>2, <1>3

(* What was planned and what is staged stay in step at a step on one file. *)
LEMMA LocalPlanned ==
    ASSUME Inv, Planned, NEW p \in Paths, ApplyStep(p) \/ RestoreStep(p) \/ RecoveryStep(p)
    PROVE  Planned'
<1>1. Local(p)
  BY ApplyStepLocal, RestoreStepLocal, RecoveryStepLocal
<1>2. /\ txn' = txn /\ staged' = staged /\ p \in Files /\ ~Unplanned /\ Files' = Files
      /\ \A q \in Paths : q # p => target'[q] = target[q]
      /\ \A q \in Files : Applied(q)' = Applied(q)
  BY <1>1 DEF Local, stage, Files, Applied
<1>3. Works' => Works
  BY <1>2, StepRunsOn DEF Works
<1>4. Works' => \A q \in Paths : staged'[q] # None =>
                  IF q \in Files' THEN staged'[q].content = Applied(q)'
                                  ELSE staged'[q].content = Absent /\ target'[q] = Absent
  BY <1>2, <1>3 DEF Planned
<1>5. pc' \in {"sweep", "unrecord"} /\ job' = "none" => \A q \in Files' : target'[q] = Applied(q)'
  BY <1>2, StepRunsOn DEF Planned
<1> QED
  BY <1>4, <1>5 DEF Planned

(* Steps between two loops, which change neither what is planned, nor what *)
(* is staged, nor the files of the bundle.                                 *)
RunsOn ==
    \/ PersistApply \/ MakeDirectory \/ MakeDirectoryFails \/ PrepareDone \/ ReplaceDone
    \/ UndoDone \/ CleanupDone \/ CommitDropPrevious \/ CommitSave \/ CommitFails
    \/ PersistRestore \/ RestorePrepareDone \/ RestoreReplaced \/ RestoreCleanupDone
    \/ RestoreSwept \/ RestoreConsume \/ RollbackStart \/ SavedCheck \/ SweepDone
    \/ RewriteDone \/ VerifyDone \/ Reinstate \/ Consume

LEMMA RunsOnPlanned ==
    ASSUME Inv, Planned, RunsOn
    PROVE  Planned'
<1> USE DEF Goto, Step, Loop, disk, stage
<1>1. /\ UNCHANGED <<txn, staged, target, op>> /\ ~Unplanned /\ ~Unplanned'
      /\ job' = job \/ job = "none"
  BY DEF RunsOn, Unplanned, PersistApply, MakeDirectory, MakeDirectoryFails, PrepareDone,
     ReplaceDone, UndoDone, CleanupDone, CommitDropPrevious, CommitSave, CommitFails, PersistRestore,
     RestorePrepareDone, RestoreReplaced, RestoreCleanupDone, RestoreSwept, RestoreConsume,
     RollbackStart, SavedCheck, SweepDone, RewriteDone, VerifyDone, Reinstate, Consume,
     Inv, IInv, Tracked, ControlInv, JobRecovers, RecoveryPcs
<1>2. Files' = Files /\ \A q \in Files : Applied(q)' = Applied(q)
  BY <1>1 DEF Files, Applied
<1>3. Works' => Works
  BY <1>1 DEF Works
<1>4. Works' => \A q \in Paths : staged'[q] # None =>
                  IF q \in Files' THEN staged'[q].content = Applied(q)'
                                  ELSE staged'[q].content = Absent /\ target'[q] = Absent
  BY <1>1, <1>2, <1>3 DEF Planned
<1>5. CASE SavedCheck
  <2>1. \A q \in Files : target[q] = Applied(q)
    BY <1>5 DEF SavedCheck, IntactCommitted, Files, Applied
  <2>2. pc' = "sweep"
    BY <1>5 DEF SavedCheck
  <2> QED
    BY <1>1, <1>2, <1>4, <2>1, <2>2 DEF Planned
<1>6. CASE SweepDone
  <2>1. pc = "sweep" /\ pc' = "unrecord" /\ job' = job
    BY <1>6 DEF SweepDone
  <2> QED
    BY <1>1, <1>2, <1>4, <2>1 DEF Planned
<1>7. CASE CommitFails
  BY <1>4, <1>7 DEF CommitFails, Planned
<1>8. CASE RollbackStart \/ RewriteDone \/ VerifyDone \/ Reinstate \/ Consume
  <2>1. job # "none" /\ job' = job
    BY <1>8 DEF RollbackStart, RewriteDone, VerifyDone, Reinstate, Consume, Inv, Tracked, RecoveryPcs
  <2> QED
    BY <1>4, <2>1 DEF Planned
<1>9. CASE ~(SavedCheck \/ SweepDone \/ CommitFails \/ RollbackStart \/ RewriteDone \/ VerifyDone
             \/ Reinstate \/ Consume)
  <2>1. pc' \notin RecoveryPcs \cup {"idle"}
    BY <1>9 DEF RunsOn, PersistApply, MakeDirectory, MakeDirectoryFails, PrepareDone,
       ReplaceDone, UndoDone, CleanupDone, CommitDropPrevious, CommitSave, PersistRestore,
       RestorePrepareDone, RestoreReplaced, RestoreCleanupDone, RestoreSwept, RestoreConsume,
       RecoveryPcs
  <2> QED
    BY <1>4, <2>1 DEF Planned, RecoveryPcs
<1> QED
  BY <1>5, <1>6, <1>7, <1>8, <1>9

(* What Apply plans is what is staged: the stage was made for the files    *)
(* that are on disk now.                                                   *)
LEMMA ApplyPlanPlanned ==
    ASSUME Inv, ApplyPlan
    PROVE  Planned'
<1>1. /\ staged' = staged /\ target' = target /\ pc' = "planned" /\ txn'.ckpt = PlannedCheckpoint
  BY DEF ApplyPlan, disk
<1>2. Files' = PlannedFiles /\ \A q \in PlannedFiles : Applied(q)' = staged[q].content
  BY <1>1 DEF Files, Applied, PlannedCheckpoint, PlannedFiles
<1>3. ASSUME NEW q \in Paths, staged[q] # None, q \notin PlannedFiles
      PROVE  staged[q].content = Absent /\ target[q] = Absent
  BY <1>3 DEF ApplyPlan, RevisionMatches, PlannedFiles
<1> QED
  BY <1>1, <1>2, <1>3 DEF Planned, RecoveryPcs

(* The steps that end a handler, or hand a transaction over to a recovery. *)
LEMMA EndingPlanned ==
    ASSUME Inv, Planned,
           \/ RestorePlan \/ Leaving \/ Settling
           \/ RecoverCommitted \/ RecoverUncommitted \/ RecoverRestore
    PROVE  Planned'
<1>1. CASE Leaving \/ Settling
  <2>1. Unplanned'
    BY <1>1 DEF Leaving, ApplyRefused, PersistApplyFails, AbandonFails, CommitNothing, RestoreRefused,
         PersistRestoreFails, RestoreFinishFails, RecoverNothing, RecoverBlocked, RegisterDone,
         RollbackBlocked, SavedChanged, VerifyFails, RecoveryIoError, RecoveryFails, Unplanned,
         Settling, Abandon, ApplyFinish, RolledBack, RecoveredApply, RestoreAbandon, RestoreFinish,
         RecoveredRestore, RecoverQuarantine, Return, Step, Goto
  <2> QED
    BY <2>1 DEF Planned, Works, Unplanned, RecoveryPcs
<1>2. CASE RestorePlan
  BY <1>2 DEF RestorePlan, Planned, Works, RecoveryPcs
<1>3. CASE RecoverCommitted \/ RecoverUncommitted \/ RecoverRestore
  BY <1>3 DEF RecoverCommitted, RecoverUncommitted, RecoverRestore, Recovering, Planned, Works
<1> QED
  BY <1>1, <1>2, <1>3

LEMMA PlannedStep ==
    ASSUME Inv, Planned, OperationNext
    PROVE  Planned'
<1>1. CASE ApplyNext
  BY <1>1, LocalPlanned, RunsOnPlanned, ApplyPlanPlanned, EndingPlanned
     DEF ApplyNext, RunsOn, Leaving, Settling
<1>2. CASE RestoreNext
  BY <1>2, LocalPlanned, RunsOnPlanned, EndingPlanned DEF RestoreNext, RunsOn, Leaving, Settling
<1>3. CASE RecoveryNext
  BY <1>3, LocalPlanned, RunsOnPlanned, EndingPlanned DEF RecoveryNext, RunsOn, Leaving, Settling
<1> QED
  BY <1>1, <1>2, <1>3 DEF OperationNext

(* An editor that writes between two operations does not come between what *)
(* is planned and what is staged.                                          *)
LEMMA PlannedNext ==
    ASSUME RacingEdits = FALSE, FilesInv, Planned, [Next]_vars
    PROVE  Planned'
<1>0. Inv
  BY DEF FilesInv
<1>1. CASE OperationNext
  BY <1>0, <1>1, PlannedStep
<1>2. CASE (\E handler \in Ops \ {"none"} : Begin(handler)) \/ Review \/ Discard \/ Edit \/ Crash
  <2>1. Unplanned'
    BY <1>2 DEF Begin, Review, Discard, Edit, Crash, Return, control, Unplanned
  <2> QED
    BY <2>1 DEF Planned, Works, Unplanned, RecoveryPcs
<1>3. CASE UNCHANGED vars
  BY <1>3 DEF vars, disk, stage, control, Planned, Works, Unplanned, Files, Applied
<1> QED
  BY <1>1, <1>2, <1>3 DEF Next

(* Only two steps of an apply clear the stage, and both find the reviewed  *)
(* texts in the bundle.                                                    *)
LEMMA ClearedWhenApplied ==
    ASSUME FilesInv, Planned, [Next]_vars,
           op = "apply", staged # NothingStaged, staged' = NothingStaged, crashes' = crashes
    PROVE  \A p \in Paths : staged[p] # None => target[p] = staged[p].content
<1>0. Inv /\ Tracked /\ crashes \in Nat /\ pc # "idle"
  BY BoundAssumption DEF FilesInv, Inv, IInv, TypeOK, BoundsTypeOK, Tracked
<1>1. CASE CommitNothing
  <2>1. Files = {} /\ Works
    BY <1>0, <1>1 DEF CommitNothing, Works, Unplanned, Tracked, RecoveryPcs
  <2> QED
    BY <2>1 DEF Planned
<1>2. CASE ApplyFinish
  <2>1. Works /\ pc = "unrecord" /\ job = "none"
    BY <1>2 DEF ApplyFinish, Works, Unplanned
  <2> QED
    BY <2>1 DEF Planned
<1>3. staged' # staged
  OBVIOUS
<1>4. ~(\E p \in Paths : ApplyStep(p) \/ RestoreStep(p) \/ RecoveryStep(p))
  BY <1>0, <1>3, ApplyStepLocal, RestoreStepLocal, RecoveryStepLocal DEF Local, stage
<1>5. ~RunsOn
  BY <1>3 DEF stage, RunsOn, PersistApply, MakeDirectory, MakeDirectoryFails, PrepareDone,
     ReplaceDone, UndoDone, CleanupDone, CommitDropPrevious, CommitSave, CommitFails, PersistRestore,
     RestorePrepareDone, RestoreReplaced, RestoreCleanupDone, RestoreSwept, RestoreConsume,
     RollbackStart, SavedCheck, SweepDone, RewriteDone, VerifyDone, Reinstate, Consume
<1>6. ~(\/ ApplyPlan \/ RestorePlan \/ RecoverCommitted \/ RecoverUncommitted \/ RecoverRestore)
  BY <1>3 DEF stage, ApplyPlan, RestorePlan, RecoverCommitted, RecoverUncommitted, RecoverRestore,
     Recovering
<1>7. Leaving => CommitNothing
  BY <1>3 DEF stage, Leaving, ApplyRefused, PersistApplyFails, AbandonFails, RestoreRefused,
     PersistRestoreFails, RestoreFinishFails, RecoverNothing, RecoverBlocked, RegisterDone,
     RollbackBlocked, SavedChanged, VerifyFails, RecoveryIoError, RecoveryFails
<1>8. Settling => ApplyFinish
  BY <1>3 DEF stage, Settling, Abandon, RolledBack, RecoveredApply, RestoreAbandon, RestoreFinish,
     RecoveredRestore, RecoverQuarantine
<1>9. OperationNext => CommitNothing \/ ApplyFinish
  <2>1. ApplyNext => CommitNothing \/ ApplyFinish
    BY <1>4, <1>5, <1>6, <1>7, <1>8 DEF ApplyNext, RunsOn, Leaving, Settling
  <2>2. RestoreNext => CommitNothing \/ ApplyFinish
    BY <1>4, <1>5, <1>6, <1>7, <1>8 DEF RestoreNext, RunsOn, Leaving, Settling
  <2>3. RecoveryNext => CommitNothing \/ ApplyFinish
    BY <1>4, <1>5, <1>6, <1>7, <1>8 DEF RecoveryNext, RunsOn, Leaving, Settling
  <2> QED
    BY <2>1, <2>2, <2>3 DEF OperationNext
<1>10. ~((\E handler \in Ops \ {"none"} : Begin(handler)) \/ Review \/ Discard \/ Edit \/ Crash)
  BY <1>0, <1>3 DEF Begin, Review, Discard, Edit, Crash, stage
<1>11. ~ UNCHANGED vars
  BY <1>3 DEF vars, stage
<1> QED
  BY <1>1, <1>2, <1>9, <1>10, <1>11 DEF Next

(* With an editor that writes between the operations only, Apply clears    *)
(* the stage when every reviewed change is on disk, whatever crashes and   *)
(* calls that fail came before: an apply that stops short keeps it.        *)
THEOREM ClearedStageIsApplied ==
    ASSUME RacingEdits = FALSE
    PROVE  Spec => StageClearedWhenApplied
<1>1. Init => Planned
  BY DEF Init, Planned, Works, Unplanned, RecoveryPcs
<1>2. FilesInv /\ Planned /\ [Next]_vars => Planned'
  BY PlannedNext
<1>3. FilesInv /\ Planned /\ [Next]_vars =>
        [op = "apply" /\ staged # NothingStaged /\ staged' = NothingStaged /\ crashes' = crashes
           => \A p \in Paths : staged[p] # None => target[p] = staged[p].content]_vars
  BY ClearedWhenApplied
<1> QED
  BY <1>1, <1>2, <1>3, FilesAlways, PTL DEF Spec, StageClearedWhenApplied

=============================================================================
