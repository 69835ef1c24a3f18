----------------------- MODULE TransactionContents_proofs -----------------------
(***************************************************************************)
(* What the files hold while an apply or a restore runs, fails, is rolled  *)
(* back or is recovered, for every number of files, texts, transactions    *)
(* and crashes, as long as no more than one call fails and the editor      *)
(* writes between the operations only: both are atomic for their user, and *)
(* until the first edit the saved checkpoint describes the files and a     *)
(* failed apply leaves all or nothing.  What an apply and a restore make   *)
(* of the directory they add is proved last.                               *)
(***************************************************************************)
EXTENDS CheckpointedStage_proofs

(* A second call that fails may fail the undo of the first: the code       *)
(* ignores it, and the bundle is left as it is.  What follows is about the *)
(* steps up to a second failure.                                           *)
OneFault == faults' \in {0, 1}

(* The text of a file before and after what a handler does to it.          *)
Old(q) == IF op = "restore" THEN Applied(q) ELSE Original(q)
New(q) == IF op = "restore" THEN Original(q) ELSE Applied(q)

Opening == {"planned", "mkdir", "rPlanned"}
Preparing == {"prepare", "prepareText", "rPrepare", "rPrepareText"}
Putting == {"put", "rPut"}
Swaps == Swapping \cup Putting
Undoing == {"undo", "undoPut"}
Undone == {"cleanup", "abandon", "rCleanup", "rAbandon"}
Swapped == {"commit", "save", "saved", "rollback"}
Restored == {"rSweep", "rConsume", "rUnrecord", "verify", "reinstate", "consume"}
Rewriting == {"rewrite", "rewriteText", "rewriteClear", "rewritePut", "rewriteSweep"}

(* Before the swaps and once they are undone, the old text is in place and *)
(* the new one beside it as far as the loop has come.                      *)
PreparedAt(q) ==
    /\ pc \in Opening \cup Preparing \cup Undone => target[q] = Old(q) /\ Backup(q) = Absent
    /\ pc \in Opening => Temp(q) = Absent
    /\ pc \in Preparing =>
          Temp(q) = IF q \notin todo THEN New(q)
                    ELSE IF pc \in {"prepareText", "rPrepareText"} /\ First(q) THEN Torn
                    ELSE Absent

(* A swap displaces the old text and then puts the new one.                *)
SwappedAt(q) ==
    /\ pc \in Swaps /\ q \notin todo =>
          target[q] = New(q) /\ Backup(q) = Old(q) /\ Temp(q) = Absent
    /\ pc \in Swaps /\ q \in todo /\ ~(pc \in Putting /\ First(q)) =>
          target[q] = Old(q) /\ Backup(q) = Absent /\ Temp(q) = New(q)
    /\ pc \in Putting /\ First(q) =>
          target[q] = Absent /\ Backup(q) = Old(q) /\ Temp(q) = New(q)
    /\ pc \in Swapped =>
          target[q] = Applied(q) /\ Backup(q) = Original(q) /\ Temp(q) = Absent

(* An undo puts the displaced text back, which nothing has taken.          *)
UndoneAt(q) ==
    /\ pc \in Undoing /\ q \notin todo => target[q] = Old(q) /\ Backup(q) = Absent
    /\ pc \in Undoing /\ q \in todo => Backup(q) = Old(q)
    /\ pc = "undoPut" /\ Last(q) => target[q] = Absent

(* A recovery that rewrites, and a restore, end with the original text.    *)
RewrittenAt(q) ==
    /\ pc \in Rewriting /\ q \notin todo => target[q] = Original(q)
    /\ pc = "rewriteText" /\ First(q) => Temp(q) = Torn
    /\ pc \in {"rewriteClear", "rewritePut"} /\ First(q) => Temp(q) = Original(q)
    /\ pc = "rewriteSweep" /\ First(q) => target[q] = Original(q)
    /\ pc \in Restored => target[q] = Original(q)
    /\ pc = "unrecord" /\ (job = "restore" \/ ~Committed(txn)) => target[q] = Original(q)

ContentAt(q) == PreparedAt(q) /\ SwappedAt(q) /\ UndoneAt(q) /\ RewrittenAt(q)
Contents == ~Unplanned => \A q \in Files : ContentAt(q)

(* The files swapped come before those that are not.                       *)
Ordered == pc \in Swaps => \A q \in Files \ todo, r \in todo : q < r

(* The checkpoint that is saved at each place.                             *)
Uncommitted ==
    {"planned", "mkdir", "prepare", "prepareText", "replace", "aside", "put", "commit",
     "cleanup", "abandon"}
SavedAt ==
    /\ pc \in Uncommitted \/ (pc \in Undoing /\ op = "apply") => ckpt = txn.prev /\ memory = txn.prev
    /\ pc = "save" => ckpt = None /\ Files # {}
    /\ pc \in {"saved", "sweep"} \/ (pc = "unrecord" /\ job = "none") => ckpt = txn.ckpt
    /\ pc \in Rewriting \cup {"rollback", "verify", "reinstate"} /\ job \in {"apply", "rollback"}
          => ~Committed(txn)
    /\ pc = "unrecord" /\ job = "rollback" => ~Committed(txn)
    /\ pc = "unrecord" /\ job \in {"apply", "rollback"} /\ ~Committed(txn) => ckpt = txn.prev
    /\ pc \in RestorePcs \ {"rUnrecord"} \/ (pc \in Undoing /\ op = "restore") => ckpt = txn.ckpt
    /\ pc = "rUnrecord" \/ (pc = "unrecord" /\ job = "restore") => ckpt = None

(* Only a call that failed makes a handler undo, or roll back.             *)
Spent == pc \in Undoing \cup {"rCleanup", "rAbandon"} \/ job = "rollback" => faults # 0

(* What the files hold is known while nobody has edited them, and to a     *)
(* handler that runs, which has compared them.                             *)
Known == edits = 0 \/ ~Unplanned

(* The files hold what the checkpoint says was applied.                    *)
Described ==
    edits = 0 /\ ckpt # None => \A q \in ckpt.files : target[q] = ckpt.applied[q]

(* A file of a transaction is as it was, as it should be, or displaced.    *)
Placed(t) ==
    \A q \in t.ckpt.files : target[q] \in {t.ckpt.original[q], t.ckpt.applied[q], Absent}

(* An apply replaces the checkpoint that described the files it found.     *)
SoundApply(t) ==
    /\ t.ckpt.id = t.tid
    /\ t.prev # None => t.prev.id < t.tid
    /\ ckpt \in {None, t.prev, t.ckpt}
    /\ t.ckpt.files = {} => ckpt = t.prev
    /\ Known => Placed(t)
    /\ Known /\ ckpt = t.ckpt => \A q \in t.ckpt.files : target[q] = t.ckpt.applied[q]
    /\ edits = 0 /\ t.prev # None => \A q \in t.prev.files :
          t.prev.applied[q] = IF q \in t.ckpt.files THEN t.ckpt.original[q] ELSE target[q]
SoundRestore(t) == ckpt \in {None, t.ckpt} /\ (Known => Placed(t))

SoundRecords ==
    /\ ckpt # None => ckpt.id < nextId
    /\ applyRec # None => SoundApply(applyRec)
    /\ restoreRec # None => SoundRestore(restoreRec)
    /\ pc = "planned" => SoundApply(txn)
    /\ pc = "rPlanned" => SoundRestore(txn)
    /\ NoRecord => Described

(* What is staged, against what runs and what is on disk.                  *)
AllBase == edits = 0 => \A q \in Paths : staged[q] # None => target[q] = staged[q].base
AllContent == edits = 0 => \A q \in Paths : staged[q] # None => target[q] = staged[q].content
Resting == Unplanned \/ job \in {"apply", "restore"}
Quiet ==
    /\ edits = 0 /\ applyRec # None /\ ~Committed(applyRec) =>
          \A q \in applyRec.ckpt.files : target[q] = applyRec.ckpt.original[q]
    /\ edits = 0 /\ restoreRec # None =>
          \A q \in restoreRec.ckpt.files : target[q] = restoreRec.ckpt.original[q]
Stable ==
    /\ ~session => staged = NothingStaged
    /\ pc \in RestorePcs \/ (pc \in Undoing /\ op = "restore") => staged = NothingStaged
    /\ Works => \A q \in Paths : staged[q] # None =>
          IF q \in Files THEN staged[q].base = Original(q) /\ staged[q].content = Applied(q)
          ELSE staged[q].base = Absent /\ staged[q].content = Absent /\ target[q] = Absent
    /\ Resting => AllBase \/ AllContent
    /\ session /\ Resting => Quiet
    /\ edits = 0 /\ session /\ job \in {"apply", "restore"} =>
          pc \notin {"rewriteText", "rewriteClear", "rewritePut"}

(* No file is half written, and a checkpoint is about its files only.      *)
Texts == Text \cup {Absent}
WholeCheckpoint(c) ==
    c # None => \A q \in Paths :
        /\ c.original[q] \in Texts /\ c.applied[q] \in Texts
        /\ q \notin c.files => c.original[q] = Absent /\ c.applied[q] = Absent
WholeTransaction(t) == t # None => WholeCheckpoint(t.ckpt) /\ WholeCheckpoint(t.prev)
Whole ==
    /\ \A q \in Paths :
          /\ target[q] \in Texts
          /\ staged[q] # None => staged[q].base \in Texts /\ staged[q].content \in Texts
    /\ WholeCheckpoint(ckpt)
    /\ WholeTransaction(applyRec) /\ WholeTransaction(restoreRec) /\ WholeTransaction(txn)

Content == Contents /\ Ordered /\ SavedAt /\ Spent /\ SoundRecords /\ Stable /\ Whole
ContentInv == (edits = 0 \/ ~RacingEdits) /\ faults \in {0, 1} => Content

-----------------------------------------------------------------------------
(* The record of what runs is the transaction, and there is no other.      *)
LEMMA RecordKnown ==
    ASSUME Inv, ~Unplanned, pc \notin Unrecorded
    PROVE  /\ txn \in Transaction /\ txn # None /\ Record = txn
           /\ \/ Record = applyRec /\ applyRec = txn /\ restoreRec = None
                 /\ ~(job = "restore" \/ (job = "none" /\ op = "restore"))
              \/ Record = restoreRec /\ restoreRec = txn /\ applyRec = None
                 /\ (job = "restore" \/ (job = "none" /\ op = "restore"))
<1>1. txn \in Transaction /\ txn # None /\ Record = txn
  BY Running, NoneAssumption DEF Inv, Tracked
<1> QED
  BY <1>1 DEF Record, Inv, RecordsInv, RecordsExclusive

(* A transaction is committed when its checkpoint is the one saved.        *)
LEMMA CommittedIs ==
    ASSUME IInv, NEW t \in Transaction, SoundApply(t)
    PROVE  Committed(t) <=> ckpt = t.ckpt
<1>1. /\ t.ckpt \in Checkpoint /\ t.tid \in Nat /\ t.ckpt.id = t.tid /\ t.ckpt # None
      /\ t.prev # None => t.prev.id \in Nat /\ t.prev.id < t.tid
  BY TransactionParts, CheckpointParts, NoneAssumption DEF SoundApply, Ids
<1>2. ckpt \in {None, t.prev, t.ckpt}
  BY DEF SoundApply
<1>3. CASE ckpt = t.ckpt
  BY <1>1, <1>3 DEF Committed
<1>4. CASE ckpt = None
  BY <1>1, <1>4 DEF Committed
<1>5. CASE ckpt = t.prev /\ ckpt # None
  BY <1>1, <1>5 DEF Committed
<1> QED
  BY <1>2, <1>3, <1>4, <1>5

(* What holds of the transaction that runs.                                *)
LEMMA RunningSound ==
    ASSUME Inv, SoundRecords, ~Unplanned
    PROVE  /\ Placed(txn)
           /\ ~(job = "restore" \/ (job = "none" /\ op = "restore")) =>
                 SoundApply(txn) /\ (Committed(txn) <=> ckpt = txn.ckpt)
<1>1. txn \in Transaction /\ IInv
  BY Running DEF Inv
<1>2. CASE pc \in Unrecorded
  <2>1. (pc = "planned" => op = "apply") /\ (pc = "rPlanned" => op = "restore") /\ job = "none"
    BY <1>2 DEF Inv, Tracked, Unrecorded, ApplyPcs, RestorePcs, RecoveryPcs
  <2> QED
    BY <1>1, <1>2, <2>1, CommittedIs DEF SoundRecords, Unrecorded, SoundApply, SoundRestore, Known
<1>3. CASE pc \notin Unrecorded
  <2>1. applyRec # None => SoundApply(applyRec)
    BY DEF SoundRecords
  <2>2. restoreRec # None => SoundRestore(restoreRec)
    BY DEF SoundRecords
  <2>3. CASE Record = applyRec /\ applyRec = txn /\ restoreRec = None
    BY <1>1, <1>3, <2>1, <2>3, RecordKnown, CommittedIs DEF SoundApply, Known
  <2>4. CASE Record = restoreRec /\ restoreRec = txn /\ applyRec = None
                 /\ (job = "restore" \/ (job = "none" /\ op = "restore"))
    BY <1>1, <1>3, <2>2, <2>4, RecordKnown DEF SoundRestore, Known
  <2> QED
    BY <1>3, <2>3, <2>4, RecordKnown
<1> QED
  BY <1>2, <1>3

(* A recovery inside a session has no file to write anew.                  *)
LEMMA QuietTarget ==
    ASSUME Inv, Content, ~Unplanned, edits = 0, session, job \in {"apply", "restore"}, pc \in Rewriting,
           NEW p \in Files
    PROVE  target[p] = Original(p)
<1>1. Quiet
  BY DEF Content, Stable, Resting
<1>2. pc \notin Unrecorded
  BY DEF Rewriting, Unrecorded
<1>3. CASE job = "apply"
  <2>1. applyRec = txn /\ txn # None
    BY <1>2, <1>3, RecordKnown
  <2>2. ~Committed(txn)
    BY <1>3 DEF Content, SavedAt
  <2> QED
    BY <1>1, <2>1, <2>2 DEF Quiet, Files, Original
<1>4. CASE job = "restore"
  <2>1. restoreRec = txn /\ txn # None
    BY <1>2, <1>4, RecordKnown
  <2> QED
    BY <1>1, <2>1 DEF Quiet, Files, Original
<1> QED
  BY <1>3, <1>4

(* The texts of the transaction that runs are whole.                       *)
LEMMA WholeTexts ==
    ASSUME Inv, Content, ~Unplanned, NEW q \in Paths
    PROVE  /\ Original(q) \in Texts /\ Applied(q) \in Texts /\ target[q] \in Texts
           /\ Original(q) # Torn /\ Applied(q) # Torn /\ target[q] # Torn
<1>1. txn # None /\ txn.ckpt # None
  BY Running, TransactionParts, NoneAssumption
<1>2. Original(q) \in Texts /\ Applied(q) \in Texts /\ target[q] \in Texts
  BY <1>1 DEF Content, Whole, WholeTransaction, WholeCheckpoint, Original, Applied
<1> QED
  BY <1>2, TextAssumption DEF Texts

(* No second call fails.                                                   *)
LEMMA NoSecondFault ==
    ASSUME OneFault, Inv, faults # 0
    PROVE  ~Fault
BY BoundAssumption DEF OneFault, Inv, IInv, TypeOK, BoundsTypeOK, Fault

(* No step of a handler is an edit.                                        *)
LEMMA OperationEdits ==
    ASSUME OperationNext
    PROVE  edits' = edits /\ faults' \in {faults, faults + 1}
<1> USE DEF bounds, Fault
<1>1. CASE ApplyNext
  BY <1>1 DEF ApplyNext, ApplyStep, PrepareOpen, PrepareText, PrepareDeletion, PrepareRefused, PrepareFails,
     ReplaceVerify, ReplaceAside, ReplaceFails, ReplacePut, ReplacePutFails, UndoRemove, UndoPut,
     UndoFails, Cleanup, CleanupFails, ApplyPlan, ApplyRefused, PersistApply, PersistApplyFails,
     MakeDirectory, MakeDirectoryFails, PrepareDone, ReplaceDone, UndoDone, CleanupDone, Abandon,
     AbandonFails, CommitNothing, CommitDropPrevious, CommitSave, CommitFails, ApplyFinish
<1>2. CASE RestoreNext
  BY <1>2 DEF RestoreNext, RestoreStep, RestorePrepareOpen, RestorePrepareText, RestorePrepareCreation,
     RestorePrepareFails, RestoreVerify, RestoreAside, RestoreFails, RestorePut, RestorePutFails,
     RestoreCleanup, RestoreSweep, RestorePlan, RestoreRefused, PersistRestore, PersistRestoreFails,
     RestorePrepareDone, RestoreReplaced, RestoreCleanupDone, RestoreAbandon, RestoreSwept,
     RestoreConsume, RestoreFinish, RestoreFinishFails
<1>3. CASE RecoveryNext
  BY <1>3 DEF RecoveryNext, RecoveryStep, Sweep, RewriteOpen, RewriteText, RewriteClear, RewritePut,
     RewriteKeep, RewriteCreation, RewriteSweep, RecoverNothing, RecoverBlocked, RecoverQuarantine,
     RecoverCommitted, RecoverUncommitted, RecoverRestore, Recovering, RollbackStart, RollbackBlocked,
     SavedCheck, SavedChanged, SweepDone, RewriteDone, VerifyDone, VerifyFails, Reinstate, Consume,
     RecoveredApply, RecoveredRestore, RolledBack, RecoveryIoError, RegisterDone
<1> QED
  BY <1>1, <1>2, <1>3 DEF OperationNext

LEMMA StepEdits ==
    ASSUME NEW p \in Paths, ApplyStep(p) \/ RestoreStep(p) \/ RecoveryStep(p)
    PROVE  edits' = edits
<1>1. OperationNext
  BY DEF OperationNext, ApplyNext, RestoreNext, RecoveryNext
<1> QED
  BY <1>1, OperationEdits

(* A step moves the text of a file only while it swaps, undoes or rewrites *)
(* it, and a recovery inside a session moves none.                         *)
Moved(p) ==
    /\ target'[p] \in {Original(p), Applied(p), Absent}
    /\ \/ target'[p] = target[p]
       \/ /\ pc \in Swaps \cup Undoing \cup Rewriting
          /\ edits = 0 /\ session => job \notin {"apply", "restore"}

(* Facts about a step on file p and any file q of the transaction.         *)
LEMMA StepFacts ==
    ASSUME Inv, Content, NEW p \in Paths, ApplyStep(p) \/ RestoreStep(p) \/ RecoveryStep(p)
    PROVE  /\ Local(p) /\ txn.tid \in Ids /\ txn' = txn /\ Files' = Files /\ Files \subseteq Paths
           /\ p \in Files /\ p \in todo /\ todo \subseteq Files /\ DiskTypeOK
           /\ op' = op /\ job' = job /\ Committed(txn)' = Committed(txn)
           /\ target[p] \in {Original(p), Applied(p), Absent}
           /\ \A q \in Files : ContentAt(q)
           /\ \A q \in Files : /\ Original(q)' = Original(q) /\ Applied(q)' = Applied(q)
                               /\ Old(q)' = Old(q) /\ New(q)' = New(q)
                               /\ q # p => /\ Temp(q)' = Temp(q) /\ Backup(q)' = Backup(q)
                                           /\ target'[q] = target[q]
           /\ \A q \in Files : Original(q) # Torn /\ Applied(q) # Torn /\ target[q] # Torn
<1>1. Local(p) /\ op' = op /\ job' = job
  BY ApplyStepLocal, RestoreStepLocal, RecoveryStepLocal, StepRunsOn
<1>2. /\ txn.tid \in Ids /\ txn' = txn /\ Files' = Files /\ Files \subseteq Paths
      /\ p \in Files /\ p \in todo /\ todo \subseteq Files /\ DiskTypeOK
  BY <1>1, Running DEF Local, Files
<1>3. Committed(txn)' = Committed(txn)
  BY <1>1, <1>2 DEF Local, store, Committed
<1>4. target[p] \in {Original(p), Applied(p), Absent}
  BY <1>1, <1>2, RunningSound DEF Content, Local, Placed, Files, Original, Applied
<1>5. \A q \in Files : ContentAt(q)
  BY <1>1 DEF Content, Contents, Local
<1>6. ASSUME NEW q \in Files
      PROVE  /\ Original(q)' = Original(q) /\ Applied(q)' = Applied(q)
             /\ Old(q)' = Old(q) /\ New(q)' = New(q)
             /\ q # p => /\ Temp(q)' = Temp(q) /\ Backup(q)' = Backup(q)
                         /\ target'[q] = target[q]
  BY <1>1, <1>2 DEF Local, Original, Applied, Temp, Backup, Old, New
<1>7. \A q \in Files : Original(q) # Torn /\ Applied(q) # Torn /\ target[q] # Torn
  BY <1>1, <1>2, WholeTexts DEF Local
<1> QED
  BY <1>1, <1>2, <1>3, <1>4, <1>5, <1>6, <1>7

(* What each step of an apply on one file leaves in its files. *)
LEMMA ApplyStepContents ==
    ASSUME OneFault, Inv, Content, NEW p \in Paths, ApplyStep(p)
    PROVE  Contents' /\ Moved(p)
<1>a. /\ Local(p) /\ txn.tid \in Ids /\ txn' = txn /\ Files' = Files /\ Files \subseteq Paths
      /\ p \in Files /\ p \in todo /\ todo \subseteq Files /\ DiskTypeOK
      /\ op' = op /\ job' = job /\ Committed(txn)' = Committed(txn)
      /\ target[p] \in {Original(p), Applied(p), Absent} /\ ContentAt(p)
      /\ Original(p) # Torn /\ Applied(p) # Torn /\ target[p] # Torn
  BY StepFacts
<1>o. (pc \notin Undoing => op = "apply") /\ op \in {"apply", "restore"} /\ job = "none"
  BY DEF Inv, Tracked, ApplyPcs, RestorePcs, RecoveryPcs, Undoing, ApplyStep, PrepareOpen, PrepareText, PrepareDeletion, PrepareRefused, PrepareFails, ReplaceVerify,
     ReplaceAside, ReplaceFails, ReplacePut, ReplacePutFails, UndoRemove, UndoPut, UndoFails,
     Cleanup, CleanupFails
<1> DEFINE Kept(q) ==
       /\ q \in Paths /\ ContentAt(q) /\ Old(q)' = Old(q) /\ New(q)' = New(q)
       /\ Original(q)' = Original(q) /\ Applied(q)' = Applied(q)
       /\ q # p => Temp(q)' = Temp(q) /\ Backup(q)' = Backup(q) /\ target'[q] = target[q]
<1>b. \A q \in Files : Kept(q)
  BY StepFacts
<1> USE DEF Goto, Step, Loop, Visited, Revisit
<1>1. CASE PrepareOpen(p)
  <2>1. pc = "prepare" /\ pc' = "prepareText" /\ todo' = todo
    BY <1>1 DEF PrepareOpen
  <2>2. target'[p] = target[p]
    BY <1>1, <1>a, <2>1, <1>o, TempSet DEF PrepareOpen, disk, Temp, Backup, Old, New,
       ContentAt, PreparedAt, SwappedAt, UndoneAt, RewrittenAt, Opening, Preparing, Putting, Swaps, Swapping,
           Undoing, Undone, Swapped, Restored, Rewriting
  <2>3. Temp(p)' = Torn
    BY <1>1, <1>a, <2>1, <1>o, TempSet DEF PrepareOpen, disk, Temp, Backup, Old, New,
       ContentAt, PreparedAt, SwappedAt, UndoneAt, RewrittenAt, Opening, Preparing, Putting, Swaps, Swapping,
           Undoing, Undone, Swapped, Restored, Rewriting
  <2>4. Backup(p)' = Backup(p)
    BY <1>1, <1>a, <2>1, <1>o, TempSet DEF PrepareOpen, disk, Temp, Backup, Old, New,
       ContentAt, PreparedAt, SwappedAt, UndoneAt, RewrittenAt, Opening, Preparing, Putting, Swaps, Swapping,
           Undoing, Undone, Swapped, Restored, Rewriting
  <2>5. First(p)
    BY <1>1 DEF PrepareOpen
  <2>6. ASSUME NEW q \in Files PROVE ContentAt(q)'
    <3>1. Kept(q) /\ Kept(p)
      BY <1>a, <1>b
    <3>2. /\ First(q) /\ First(p) => q = p
          /\ Last(q) /\ Last(p) => q = p
          /\ todo' = todo => (First(q)' <=> First(q)) /\ (Last(q)' <=> Last(q))
      BY <3>1 DEF First, Last, Paths
    <3> QED
      BY <1>a, <2>1, <2>2, <2>3, <2>4, <2>5, <3>1, <3>2, <1>o
         DEF Old, New,
           ContentAt, PreparedAt, SwappedAt, UndoneAt, RewrittenAt, Opening, Preparing, Putting, Swaps, Swapping,
           Undoing, Undone, Swapped, Restored, Rewriting
  <2> QED
    BY <1>a, <2>1, <2>2, <2>6, <1>o DEF Contents, Moved, Swaps, Swapping, Putting, Undoing, Rewriting, Old
<1>2. CASE PrepareText(p)
  <2>1. pc = "prepareText" /\ pc' = "prepare" /\ todo' = todo \ {p}
    BY <1>2 DEF PrepareText
  <2>2. target'[p] = target[p]
    BY <1>2, <1>a, <2>1, <1>o, TextWritten DEF PrepareText, disk, Temp, Backup, Old, New,
       ContentAt, PreparedAt, SwappedAt, UndoneAt, RewrittenAt, Opening, Preparing, Putting, Swaps, Swapping,
           Undoing, Undone, Swapped, Restored, Rewriting
  <2>3. Temp(p)' = Applied(p)
    BY <1>2, <1>a, <2>1, <1>o, TextWritten DEF PrepareText, disk, Temp, Backup, Old, New,
       ContentAt, PreparedAt, SwappedAt, UndoneAt, RewrittenAt, Opening, Preparing, Putting, Swaps, Swapping,
           Undoing, Undone, Swapped, Restored, Rewriting
  <2>4. Backup(p)' = Backup(p)
    BY <1>2, <1>a, <2>1, <1>o, TextWritten DEF PrepareText, disk, Temp, Backup, Old, New,
       ContentAt, PreparedAt, SwappedAt, UndoneAt, RewrittenAt, Opening, Preparing, Putting, Swaps, Swapping,
           Undoing, Undone, Swapped, Restored, Rewriting
  <2>5. First(p)
    BY <1>2 DEF PrepareText
  <2>6. ASSUME NEW q \in Files PROVE ContentAt(q)'
    <3>1. Kept(q) /\ Kept(p)
      BY <1>a, <1>b
    <3>2. /\ First(q) /\ First(p) => q = p
          /\ Last(q) /\ Last(p) => q = p
          /\ todo' = todo => (First(q)' <=> First(q)) /\ (Last(q)' <=> Last(q))
      BY <3>1 DEF First, Last, Paths
    <3> QED
      BY <1>a, <2>1, <2>2, <2>3, <2>4, <2>5, <3>1, <3>2, <1>o
         DEF Old, New,
           ContentAt, PreparedAt, SwappedAt, UndoneAt, RewrittenAt, Opening, Preparing, Putting, Swaps, Swapping,
           Undoing, Undone, Swapped, Restored, Rewriting
  <2> QED
    BY <1>a, <2>1, <2>2, <2>6, <1>o DEF Contents, Moved, Swaps, Swapping, Putting, Undoing, Rewriting, Old
<1>3. CASE PrepareDeletion(p)
  <2>1. pc = "prepare" /\ pc' = "prepare" /\ todo' = todo \ {p}
    BY <1>3 DEF PrepareDeletion
  <2>2. target'[p] = target[p]
    BY <1>3, <1>a, <2>1, <1>o DEF PrepareDeletion, disk, Temp, Backup, Old, New,
       ContentAt, PreparedAt, SwappedAt, UndoneAt, RewrittenAt, Opening, Preparing, Putting, Swaps, Swapping,
           Undoing, Undone, Swapped, Restored, Rewriting
  <2>3. Temp(p)' = Temp(p) /\ Applied(p) = Absent
    BY <1>3, <1>a, <2>1, <1>o DEF PrepareDeletion, disk, Temp, Backup, Old, New,
       ContentAt, PreparedAt, SwappedAt, UndoneAt, RewrittenAt, Opening, Preparing, Putting, Swaps, Swapping,
           Undoing, Undone, Swapped, Restored, Rewriting
  <2>4. Backup(p)' = Backup(p)
    BY <1>3, <1>a, <2>1, <1>o DEF PrepareDeletion, disk, Temp, Backup, Old, New,
       ContentAt, PreparedAt, SwappedAt, UndoneAt, RewrittenAt, Opening, Preparing, Putting, Swaps, Swapping,
           Undoing, Undone, Swapped, Restored, Rewriting
  <2>5. First(p)
    BY <1>3 DEF PrepareDeletion
  <2>6. ASSUME NEW q \in Files PROVE ContentAt(q)'
    <3>1. Kept(q) /\ Kept(p)
      BY <1>a, <1>b
    <3>2. /\ First(q) /\ First(p) => q = p
          /\ Last(q) /\ Last(p) => q = p
          /\ todo' = todo => (First(q)' <=> First(q)) /\ (Last(q)' <=> Last(q))
      BY <3>1 DEF First, Last, Paths
    <3> QED
      BY <1>a, <2>1, <2>2, <2>3, <2>4, <2>5, <3>1, <3>2, <1>o
         DEF Old, New,
           ContentAt, PreparedAt, SwappedAt, UndoneAt, RewrittenAt, Opening, Preparing, Putting, Swaps, Swapping,
           Undoing, Undone, Swapped, Restored, Rewriting
  <2> QED
    BY <1>a, <2>1, <2>2, <2>6, <1>o DEF Contents, Moved, Swaps, Swapping, Putting, Undoing, Rewriting, Old
<1>4. CASE PrepareFails(p)
  <2>1. pc \in {"prepare", "prepareText"} /\ pc' = "cleanup" /\ todo' = Files \ todo
    BY <1>4 DEF PrepareFails
  <2>2. target'[p] = target[p]
    BY <1>4, <1>a, <2>1, <1>o, TempSet DEF PrepareFails, disk, Temp, Backup, Old, New,
       ContentAt, PreparedAt, SwappedAt, UndoneAt, RewrittenAt, Opening, Preparing, Putting, Swaps, Swapping,
           Undoing, Undone, Swapped, Restored, Rewriting
  <2>3. Temp(p)' = Absent
    BY <1>4, <1>a, <2>1, <1>o, TempSet DEF PrepareFails, disk, Temp, Backup, Old, New,
       ContentAt, PreparedAt, SwappedAt, UndoneAt, RewrittenAt, Opening, Preparing, Putting, Swaps, Swapping,
           Undoing, Undone, Swapped, Restored, Rewriting
  <2>4. Backup(p)' = Backup(p)
    BY <1>4, <1>a, <2>1, <1>o, TempSet DEF PrepareFails, disk, Temp, Backup, Old, New,
       ContentAt, PreparedAt, SwappedAt, UndoneAt, RewrittenAt, Opening, Preparing, Putting, Swaps, Swapping,
           Undoing, Undone, Swapped, Restored, Rewriting
  <2>5. First(p)
    BY <1>4 DEF PrepareFails
  <2>6. ASSUME NEW q \in Files PROVE ContentAt(q)'
    <3>1. Kept(q) /\ Kept(p)
      BY <1>a, <1>b
    <3>2. /\ First(q) /\ First(p) => q = p
          /\ Last(q) /\ Last(p) => q = p
          /\ todo' = todo => (First(q)' <=> First(q)) /\ (Last(q)' <=> Last(q))
      BY <3>1 DEF First, Last, Paths
    <3> QED
      BY <1>a, <2>1, <2>2, <2>3, <2>4, <2>5, <3>1, <3>2, <1>o
         DEF Old, New,
           ContentAt, PreparedAt, SwappedAt, UndoneAt, RewrittenAt, Opening, Preparing, Putting, Swaps, Swapping,
           Undoing, Undone, Swapped, Restored, Rewriting
  <2> QED
    BY <1>a, <2>1, <2>2, <2>6, <1>o DEF Contents, Moved, Swaps, Swapping, Putting, Undoing, Rewriting, Old
<1>4a. CASE PrepareRefused(p)
  <2>1. pc = "prepare" /\ pc' = "cleanup" /\ todo' = Files \ todo
    BY <1>4a DEF PrepareRefused
  <2>2. target'[p] = target[p]
    BY <1>4a, <1>a, <2>1, <1>o DEF PrepareRefused, disk, Temp, Backup, Old, New,
       ContentAt, PreparedAt, SwappedAt, UndoneAt, RewrittenAt, Opening, Preparing, Putting, Swaps, Swapping,
           Undoing, Undone, Swapped, Restored, Rewriting
  <2>3. Temp(p)' = Temp(p)
    BY <1>4a, <1>a, <2>1, <1>o DEF PrepareRefused, disk, Temp, Backup, Old, New,
       ContentAt, PreparedAt, SwappedAt, UndoneAt, RewrittenAt, Opening, Preparing, Putting, Swaps, Swapping,
           Undoing, Undone, Swapped, Restored, Rewriting
  <2>4. Backup(p)' = Backup(p)
    BY <1>4a, <1>a, <2>1, <1>o DEF PrepareRefused, disk, Temp, Backup, Old, New,
       ContentAt, PreparedAt, SwappedAt, UndoneAt, RewrittenAt, Opening, Preparing, Putting, Swaps, Swapping,
           Undoing, Undone, Swapped, Restored, Rewriting
  <2>5. First(p)
    BY <1>4a DEF PrepareRefused
  <2>6. ASSUME NEW q \in Files PROVE ContentAt(q)'
    <3>1. Kept(q) /\ Kept(p)
      BY <1>a, <1>b
    <3>2. /\ First(q) /\ First(p) => q = p
          /\ Last(q) /\ Last(p) => q = p
          /\ todo' = todo => (First(q)' <=> First(q)) /\ (Last(q)' <=> Last(q))
      BY <3>1 DEF First, Last, Paths
    <3> QED
      BY <1>a, <2>1, <2>2, <2>3, <2>4, <2>5, <3>1, <3>2, <1>o
         DEF Old, New,
           ContentAt, PreparedAt, SwappedAt, UndoneAt, RewrittenAt, Opening, Preparing, Putting, Swaps, Swapping,
           Undoing, Undone, Swapped, Restored, Rewriting
  <2> QED
    BY <1>a, <2>1, <2>2, <2>6, <1>o DEF Contents, Moved, Swaps, Swapping, Putting, Undoing, Rewriting, Old
<1>5. CASE ReplaceVerify(p)
  <2>1. pc = "replace" /\ pc' = "aside" /\ todo' = todo
    BY <1>5 DEF ReplaceVerify
  <2>2. target'[p] = target[p]
    BY <1>5, <1>a, <2>1, <1>o DEF ReplaceVerify, disk, Temp, Backup, Old, New,
       ContentAt, PreparedAt, SwappedAt, UndoneAt, RewrittenAt, Opening, Preparing, Putting, Swaps, Swapping,
           Undoing, Undone, Swapped, Restored, Rewriting
  <2>3. Temp(p)' = Temp(p)
    BY <1>5, <1>a, <2>1, <1>o DEF ReplaceVerify, disk, Temp, Backup, Old, New,
       ContentAt, PreparedAt, SwappedAt, UndoneAt, RewrittenAt, Opening, Preparing, Putting, Swaps, Swapping,
           Undoing, Undone, Swapped, Restored, Rewriting
  <2>4. Backup(p)' = Backup(p)
    BY <1>5, <1>a, <2>1, <1>o DEF ReplaceVerify, disk, Temp, Backup, Old, New,
       ContentAt, PreparedAt, SwappedAt, UndoneAt, RewrittenAt, Opening, Preparing, Putting, Swaps, Swapping,
           Undoing, Undone, Swapped, Restored, Rewriting
  <2>5. First(p)
    BY <1>5 DEF ReplaceVerify
  <2>6. ASSUME NEW q \in Files PROVE ContentAt(q)'
    <3>1. Kept(q) /\ Kept(p)
      BY <1>a, <1>b
    <3>2. /\ First(q) /\ First(p) => q = p
          /\ Last(q) /\ Last(p) => q = p
          /\ todo' = todo => (First(q)' <=> First(q)) /\ (Last(q)' <=> Last(q))
      BY <3>1 DEF First, Last, Paths
    <3> QED
      BY <1>a, <2>1, <2>2, <2>3, <2>4, <2>5, <3>1, <3>2, <1>o
         DEF Old, New,
           ContentAt, PreparedAt, SwappedAt, UndoneAt, RewrittenAt, Opening, Preparing, Putting, Swaps, Swapping,
           Undoing, Undone, Swapped, Restored, Rewriting
  <2> QED
    BY <1>a, <2>1, <2>2, <2>6, <1>o DEF Contents, Moved, Swaps, Swapping, Putting, Undoing, Rewriting, Old
<1>6. CASE ReplaceAside(p)
  <2>1. pc = "aside" /\ pc' = "put" /\ todo' = todo
    BY <1>6 DEF ReplaceAside
  <2>2. target'[p] = Absent
    BY <1>6, <1>a, <2>1, <1>o, BackupSet, TargetSet DEF MoveAside, ReplaceAside, disk, Temp, Backup, Old, New,
       ContentAt, PreparedAt, SwappedAt, UndoneAt, RewrittenAt, Opening, Preparing, Putting, Swaps, Swapping,
           Undoing, Undone, Swapped, Restored, Rewriting
  <2>3. Temp(p)' = Temp(p)
    BY <1>6, <1>a, <2>1, <1>o, BackupSet, TargetSet DEF MoveAside, ReplaceAside, disk, Temp, Backup, Old, New,
       ContentAt, PreparedAt, SwappedAt, UndoneAt, RewrittenAt, Opening, Preparing, Putting, Swaps, Swapping,
           Undoing, Undone, Swapped, Restored, Rewriting
  <2>4. Backup(p)' = Original(p)
    BY <1>6, <1>a, <2>1, <1>o, BackupSet, TargetSet DEF MoveAside, ReplaceAside, disk, Temp, Backup, Old, New,
       ContentAt, PreparedAt, SwappedAt, UndoneAt, RewrittenAt, Opening, Preparing, Putting, Swaps, Swapping,
           Undoing, Undone, Swapped, Restored, Rewriting
  <2>5. First(p)
    BY <1>6 DEF ReplaceAside
  <2>6. ASSUME NEW q \in Files PROVE ContentAt(q)'
    <3>1. Kept(q) /\ Kept(p)
      BY <1>a, <1>b
    <3>2. /\ First(q) /\ First(p) => q = p
          /\ Last(q) /\ Last(p) => q = p
          /\ todo' = todo => (First(q)' <=> First(q)) /\ (Last(q)' <=> Last(q))
      BY <3>1 DEF First, Last, Paths
    <3> QED
      BY <1>a, <2>1, <2>2, <2>3, <2>4, <2>5, <3>1, <3>2, <1>o
         DEF Old, New,
           ContentAt, PreparedAt, SwappedAt, UndoneAt, RewrittenAt, Opening, Preparing, Putting, Swaps, Swapping,
           Undoing, Undone, Swapped, Restored, Rewriting
  <2> QED
    BY <1>a, <2>1, <2>2, <2>6, <1>o DEF Contents, Moved, Swaps, Swapping, Putting, Undoing, Rewriting, Old
<1>7. CASE ReplaceFails(p)
  <2>1. pc \in {"replace", "aside"} /\ pc' = "undo" /\ todo' = Files \ todo
    BY <1>7 DEF ReplaceFails
  <2>2. target'[p] = target[p]
    BY <1>7, <1>a, <2>1, <1>o DEF ReplaceFails, disk, Temp, Backup, Old, New,
       ContentAt, PreparedAt, SwappedAt, UndoneAt, RewrittenAt, Opening, Preparing, Putting, Swaps, Swapping,
           Undoing, Undone, Swapped, Restored, Rewriting
  <2>3. Temp(p)' = Temp(p)
    BY <1>7, <1>a, <2>1, <1>o DEF ReplaceFails, disk, Temp, Backup, Old, New,
       ContentAt, PreparedAt, SwappedAt, UndoneAt, RewrittenAt, Opening, Preparing, Putting, Swaps, Swapping,
           Undoing, Undone, Swapped, Restored, Rewriting
  <2>4. Backup(p)' = Backup(p)
    BY <1>7, <1>a, <2>1, <1>o DEF ReplaceFails, disk, Temp, Backup, Old, New,
       ContentAt, PreparedAt, SwappedAt, UndoneAt, RewrittenAt, Opening, Preparing, Putting, Swaps, Swapping,
           Undoing, Undone, Swapped, Restored, Rewriting
  <2>5. First(p)
    BY <1>7 DEF ReplaceFails
  <2>6. ASSUME NEW q \in Files PROVE ContentAt(q)'
    <3>1. Kept(q) /\ Kept(p)
      BY <1>a, <1>b
    <3>2. /\ First(q) /\ First(p) => q = p
          /\ Last(q) /\ Last(p) => q = p
          /\ todo' = todo => (First(q)' <=> First(q)) /\ (Last(q)' <=> Last(q))
      BY <3>1 DEF First, Last, Paths
    <3> QED
      BY <1>a, <2>1, <2>2, <2>3, <2>4, <2>5, <3>1, <3>2, <1>o
         DEF Old, New,
           ContentAt, PreparedAt, SwappedAt, UndoneAt, RewrittenAt, Opening, Preparing, Putting, Swaps, Swapping,
           Undoing, Undone, Swapped, Restored, Rewriting
  <2> QED
    BY <1>a, <2>1, <2>2, <2>6, <1>o DEF Contents, Moved, Swaps, Swapping, Putting, Undoing, Rewriting, Old
<1>8. CASE ReplacePut(p)
  <2>1. pc = "put" /\ pc' = "replace" /\ todo' = todo \ {p}
    BY <1>8 DEF ReplacePut
  <2>2. target'[p] = Applied(p)
    BY <1>8, <1>a, <2>1, <1>o, TempSet, TargetSet DEF PutTemp, ReplacePut, disk, Temp, Backup, Old, New,
       ContentAt, PreparedAt, SwappedAt, UndoneAt, RewrittenAt, Opening, Preparing, Putting, Swaps, Swapping,
           Undoing, Undone, Swapped, Restored, Rewriting
  <2>3. Temp(p)' = Absent
    BY <1>8, <1>a, <2>1, <1>o, TempSet, TargetSet DEF PutTemp, ReplacePut, disk, Temp, Backup, Old, New,
       ContentAt, PreparedAt, SwappedAt, UndoneAt, RewrittenAt, Opening, Preparing, Putting, Swaps, Swapping,
           Undoing, Undone, Swapped, Restored, Rewriting
  <2>4. Backup(p)' = Backup(p)
    BY <1>8, <1>a, <2>1, <1>o, TempSet, TargetSet DEF PutTemp, ReplacePut, disk, Temp, Backup, Old, New,
       ContentAt, PreparedAt, SwappedAt, UndoneAt, RewrittenAt, Opening, Preparing, Putting, Swaps, Swapping,
           Undoing, Undone, Swapped, Restored, Rewriting
  <2>5. First(p)
    BY <1>8 DEF ReplacePut
  <2>6. ASSUME NEW q \in Files PROVE ContentAt(q)'
    <3>1. Kept(q) /\ Kept(p)
      BY <1>a, <1>b
    <3>2. /\ First(q) /\ First(p) => q = p
          /\ Last(q) /\ Last(p) => q = p
          /\ todo' = todo => (First(q)' <=> First(q)) /\ (Last(q)' <=> Last(q))
      BY <3>1 DEF First, Last, Paths
    <3> QED
      BY <1>a, <2>1, <2>2, <2>3, <2>4, <2>5, <3>1, <3>2, <1>o
         DEF Old, New,
           ContentAt, PreparedAt, SwappedAt, UndoneAt, RewrittenAt, Opening, Preparing, Putting, Swaps, Swapping,
           Undoing, Undone, Swapped, Restored, Rewriting
  <2> QED
    BY <1>a, <2>1, <2>2, <2>6, <1>o DEF Contents, Moved, Swaps, Swapping, Putting, Undoing, Rewriting, Old
<1>9. CASE ReplacePutFails(p)
  <2>1. pc = "put" /\ pc' = "undoPut" /\ todo' = (Files \ todo) \cup {p}
    BY <1>9 DEF ReplacePutFails
  <2>2. target'[p] = target[p]
    BY <1>9, <1>a, <2>1, <1>o DEF ReplacePutFails, disk, Temp, Backup, Old, New,
       ContentAt, PreparedAt, SwappedAt, UndoneAt, RewrittenAt, Opening, Preparing, Putting, Swaps, Swapping,
           Undoing, Undone, Swapped, Restored, Rewriting
  <2>3. Temp(p)' = Temp(p)
    BY <1>9, <1>a, <2>1, <1>o DEF ReplacePutFails, disk, Temp, Backup, Old, New,
       ContentAt, PreparedAt, SwappedAt, UndoneAt, RewrittenAt, Opening, Preparing, Putting, Swaps, Swapping,
           Undoing, Undone, Swapped, Restored, Rewriting
  <2>4. Backup(p)' = Backup(p)
    BY <1>9, <1>a, <2>1, <1>o DEF ReplacePutFails, disk, Temp, Backup, Old, New,
       ContentAt, PreparedAt, SwappedAt, UndoneAt, RewrittenAt, Opening, Preparing, Putting, Swaps, Swapping,
           Undoing, Undone, Swapped, Restored, Rewriting
  <2>5. First(p)
    BY <1>9 DEF ReplacePutFails
  <2>6. ASSUME NEW q \in Files PROVE ContentAt(q)'
    <3>1. Kept(q) /\ Kept(p)
      BY <1>a, <1>b
    <3>2. /\ First(q) /\ First(p) => q = p
          /\ Last(q) /\ Last(p) => q = p
          /\ todo' = todo => (First(q)' <=> First(q)) /\ (Last(q)' <=> Last(q))
      BY <3>1 DEF First, Last, Paths
    <3>3. Last(q)' => q = p
      BY <1>a, <2>1, <3>1 DEF Last, Content, Ordered, Swaps, Swapping, Putting, Paths
    <3> QED
      BY <1>a, <2>1, <2>2, <2>3, <2>4, <2>5, <3>1, <3>2, <3>3, <1>o
         DEF Old, New,
           ContentAt, PreparedAt, SwappedAt, UndoneAt, RewrittenAt, Opening, Preparing, Putting, Swaps, Swapping,
           Undoing, Undone, Swapped, Restored, Rewriting
  <2> QED
    BY <1>a, <2>1, <2>2, <2>6, <1>o DEF Contents, Moved, Swaps, Swapping, Putting, Undoing, Rewriting, Old
<1>10. CASE UndoRemove(p)
  <2>1. pc = "undo" /\ pc' = "undoPut" /\ todo' = todo
    BY <1>10 DEF UndoRemove
  <2>2. target'[p] = Absent
    BY <1>10, <1>a, <2>1, <1>o, TargetSet DEF UndoRemove, disk, Temp, Backup, Old, New,
       ContentAt, PreparedAt, SwappedAt, UndoneAt, RewrittenAt, Opening, Preparing, Putting, Swaps, Swapping,
           Undoing, Undone, Swapped, Restored, Rewriting
  <2>3. Temp(p)' = Temp(p)
    BY <1>10, <1>a, <2>1, <1>o, TargetSet DEF UndoRemove, disk, Temp, Backup, Old, New,
       ContentAt, PreparedAt, SwappedAt, UndoneAt, RewrittenAt, Opening, Preparing, Putting, Swaps, Swapping,
           Undoing, Undone, Swapped, Restored, Rewriting
  <2>4. Backup(p)' = Backup(p)
    BY <1>10, <1>a, <2>1, <1>o, TargetSet DEF UndoRemove, disk, Temp, Backup, Old, New,
       ContentAt, PreparedAt, SwappedAt, UndoneAt, RewrittenAt, Opening, Preparing, Putting, Swaps, Swapping,
           Undoing, Undone, Swapped, Restored, Rewriting
  <2>5. Last(p)
    BY <1>10 DEF UndoRemove
  <2>6. ASSUME NEW q \in Files PROVE ContentAt(q)'
    <3>1. Kept(q) /\ Kept(p)
      BY <1>a, <1>b
    <3>2. /\ First(q) /\ First(p) => q = p
          /\ Last(q) /\ Last(p) => q = p
          /\ todo' = todo => (First(q)' <=> First(q)) /\ (Last(q)' <=> Last(q))
      BY <3>1 DEF First, Last, Paths
    <3> QED
      BY <1>a, <2>1, <2>2, <2>3, <2>4, <2>5, <3>1, <3>2, <1>o
         DEF Old, New,
           ContentAt, PreparedAt, SwappedAt, UndoneAt, RewrittenAt, Opening, Preparing, Putting, Swaps, Swapping,
           Undoing, Undone, Swapped, Restored, Rewriting
  <2> QED
    BY <1>a, <2>1, <2>2, <2>6, <1>o DEF Contents, Moved, Swaps, Swapping, Putting, Undoing, Rewriting, Old
<1>11. CASE UndoPut(p)
  <2>1. pc = "undoPut" /\ pc' = "undo" /\ todo' = todo \ {p}
    BY <1>11 DEF UndoPut
  <2>2. target'[p] = Old(p)
    BY <1>11, <1>a, <2>1, <1>o, BackupSet, TargetSet DEF PutBack, UndoPut, disk, Temp, Backup, Old, New,
       ContentAt, PreparedAt, SwappedAt, UndoneAt, RewrittenAt, Opening, Preparing, Putting, Swaps, Swapping,
           Undoing, Undone, Swapped, Restored, Rewriting
  <2>3. Temp(p)' = Temp(p)
    BY <1>11, <1>a, <2>1, <1>o, BackupSet, TargetSet DEF PutBack, UndoPut, disk, Temp, Backup, Old, New,
       ContentAt, PreparedAt, SwappedAt, UndoneAt, RewrittenAt, Opening, Preparing, Putting, Swaps, Swapping,
           Undoing, Undone, Swapped, Restored, Rewriting
  <2>4. Backup(p)' = Absent
    BY <1>11, <1>a, <2>1, <1>o, BackupSet, TargetSet DEF PutBack, UndoPut, disk, Temp, Backup, Old, New,
       ContentAt, PreparedAt, SwappedAt, UndoneAt, RewrittenAt, Opening, Preparing, Putting, Swaps, Swapping,
           Undoing, Undone, Swapped, Restored, Rewriting
  <2>5. Last(p)
    BY <1>11 DEF UndoPut
  <2>6. ASSUME NEW q \in Files PROVE ContentAt(q)'
    <3>1. Kept(q) /\ Kept(p)
      BY <1>a, <1>b
    <3>2. /\ First(q) /\ First(p) => q = p
          /\ Last(q) /\ Last(p) => q = p
          /\ todo' = todo => (First(q)' <=> First(q)) /\ (Last(q)' <=> Last(q))
      BY <3>1 DEF First, Last, Paths
    <3> QED
      BY <1>a, <2>1, <2>2, <2>3, <2>4, <2>5, <3>1, <3>2, <1>o
         DEF Old, New,
           ContentAt, PreparedAt, SwappedAt, UndoneAt, RewrittenAt, Opening, Preparing, Putting, Swaps, Swapping,
           Undoing, Undone, Swapped, Restored, Rewriting
  <2> QED
    BY <1>a, <2>1, <2>2, <2>6, <1>o DEF Contents, Moved, Swaps, Swapping, Putting, Undoing, Rewriting, Old
<1>12. CASE UndoFails(p)
  BY <1>12, NoSecondFault DEF UndoFails, Content, Spent, Undoing
<1>13. CASE Cleanup(p)
  <2>1. pc = "cleanup" /\ pc' = "cleanup" /\ todo' = todo \ {p}
    BY <1>13 DEF Cleanup
  <2>2. target'[p] = target[p]
    BY <1>13, <1>a, <2>1, <1>o, TempSet DEF MoveBackDisplaced, StillDisplaced, Cleanup, disk, Temp, Backup, Old, New,
       ContentAt, PreparedAt, SwappedAt, UndoneAt, RewrittenAt, Opening, Preparing, Putting, Swaps, Swapping,
           Undoing, Undone, Swapped, Restored, Rewriting
  <2>3. Temp(p)' = Absent
    BY <1>13, <1>a, <2>1, <1>o, TempSet DEF MoveBackDisplaced, StillDisplaced, Cleanup, disk, Temp, Backup, Old, New,
       ContentAt, PreparedAt, SwappedAt, UndoneAt, RewrittenAt, Opening, Preparing, Putting, Swaps, Swapping,
           Undoing, Undone, Swapped, Restored, Rewriting
  <2>4. Backup(p)' = Backup(p)
    BY <1>13, <1>a, <2>1, <1>o, TempSet DEF MoveBackDisplaced, StillDisplaced, Cleanup, disk, Temp, Backup, Old, New,
       ContentAt, PreparedAt, SwappedAt, UndoneAt, RewrittenAt, Opening, Preparing, Putting, Swaps, Swapping,
           Undoing, Undone, Swapped, Restored, Rewriting
  <2>5. First(p)
    BY <1>13 DEF Cleanup
  <2>6. ASSUME NEW q \in Files PROVE ContentAt(q)'
    <3>1. Kept(q) /\ Kept(p)
      BY <1>a, <1>b
    <3>2. /\ First(q) /\ First(p) => q = p
          /\ Last(q) /\ Last(p) => q = p
          /\ todo' = todo => (First(q)' <=> First(q)) /\ (Last(q)' <=> Last(q))
      BY <3>1 DEF First, Last, Paths
    <3> QED
      BY <1>a, <2>1, <2>2, <2>3, <2>4, <2>5, <3>1, <3>2, <1>o
         DEF Old, New,
           ContentAt, PreparedAt, SwappedAt, UndoneAt, RewrittenAt, Opening, Preparing, Putting, Swaps, Swapping,
           Undoing, Undone, Swapped, Restored, Rewriting
  <2> QED
    BY <1>a, <2>1, <2>2, <2>6, <1>o DEF Contents, Moved, Swaps, Swapping, Putting, Undoing, Rewriting, Old
<1>14. CASE CleanupFails(p)
  <2>1. pc = "cleanup" /\ pc' = "cleanup" /\ todo' = todo \ {p}
    BY <1>14 DEF CleanupFails
  <2>2. target'[p] = target[p]
    BY <1>14, <1>a, <2>1, <1>o, TempSet DEF MoveBackDisplaced, StillDisplaced, CleanupFails, disk, Temp, Backup, Old, New,
       ContentAt, PreparedAt, SwappedAt, UndoneAt, RewrittenAt, Opening, Preparing, Putting, Swaps, Swapping,
           Undoing, Undone, Swapped, Restored, Rewriting
  <2>3. Temp(p)' \in {Temp(p), Absent}
    BY <1>14, <1>a, <2>1, <1>o, TempSet DEF MoveBackDisplaced, StillDisplaced, CleanupFails, disk, Temp, Backup, Old, New,
       ContentAt, PreparedAt, SwappedAt, UndoneAt, RewrittenAt, Opening, Preparing, Putting, Swaps, Swapping,
           Undoing, Undone, Swapped, Restored, Rewriting
  <2>4. Backup(p)' = Backup(p)
    BY <1>14, <1>a, <2>1, <1>o, TempSet DEF MoveBackDisplaced, StillDisplaced, CleanupFails, disk, Temp, Backup, Old, New,
       ContentAt, PreparedAt, SwappedAt, UndoneAt, RewrittenAt, Opening, Preparing, Putting, Swaps, Swapping,
           Undoing, Undone, Swapped, Restored, Rewriting
  <2>5. First(p)
    BY <1>14 DEF CleanupFails
  <2>6. ASSUME NEW q \in Files PROVE ContentAt(q)'
    <3>1. Kept(q) /\ Kept(p)
      BY <1>a, <1>b
    <3>2. /\ First(q) /\ First(p) => q = p
          /\ Last(q) /\ Last(p) => q = p
          /\ todo' = todo => (First(q)' <=> First(q)) /\ (Last(q)' <=> Last(q))
      BY <3>1 DEF First, Last, Paths
    <3> QED
      BY <1>a, <2>1, <2>2, <2>3, <2>4, <2>5, <3>1, <3>2, <1>o
         DEF Old, New,
           ContentAt, PreparedAt, SwappedAt, UndoneAt, RewrittenAt, Opening, Preparing, Putting, Swaps, Swapping,
           Undoing, Undone, Swapped, Restored, Rewriting
  <2> QED
    BY <1>a, <2>1, <2>2, <2>6, <1>o DEF Contents, Moved, Swaps, Swapping, Putting, Undoing, Rewriting, Old
<1> QED
  BY <1>1, <1>2, <1>3, <1>4, <1>4a, <1>5, <1>6, <1>7, <1>8, <1>9, <1>10, <1>11, <1>12, <1>13, <1>14 DEF ApplyStep

(* What each step of a restore on one file leaves in its files. *)
LEMMA RestoreStepContents ==
    ASSUME OneFault, Inv, Content, NEW p \in Paths, RestoreStep(p)
    PROVE  Contents' /\ Moved(p)
<1>a. /\ Local(p) /\ txn.tid \in Ids /\ txn' = txn /\ Files' = Files /\ Files \subseteq Paths
      /\ p \in Files /\ p \in todo /\ todo \subseteq Files /\ DiskTypeOK
      /\ op' = op /\ job' = job /\ Committed(txn)' = Committed(txn)
      /\ target[p] \in {Original(p), Applied(p), Absent} /\ ContentAt(p)
      /\ Original(p) # Torn /\ Applied(p) # Torn /\ target[p] # Torn
  BY StepFacts
<1>o. op = "restore" /\ job = "none"
  BY DEF Inv, Tracked, ApplyPcs, RestorePcs, RecoveryPcs, Undoing, RestoreStep, RestorePrepareOpen, RestorePrepareText, RestorePrepareCreation,
     RestorePrepareFails, RestoreVerify, RestoreAside, RestoreFails, RestorePut, RestorePutFails,
     RestoreCleanup, RestoreSweep
<1> DEFINE Kept(q) ==
       /\ q \in Paths /\ ContentAt(q) /\ Old(q)' = Old(q) /\ New(q)' = New(q)
       /\ Original(q)' = Original(q) /\ Applied(q)' = Applied(q)
       /\ q # p => Temp(q)' = Temp(q) /\ Backup(q)' = Backup(q) /\ target'[q] = target[q]
<1>b. \A q \in Files : Kept(q)
  BY StepFacts
<1> USE DEF Goto, Step, Loop, Visited, Revisit
<1>1. CASE RestorePrepareOpen(p)
  <2>1. pc = "rPrepare" /\ pc' = "rPrepareText" /\ todo' = todo
    BY <1>1 DEF RestorePrepareOpen
  <2>2. target'[p] = target[p]
    BY <1>1, <1>a, <2>1, <1>o, TempSet DEF RestorePrepareOpen, disk, Temp, Backup, Old, New,
       ContentAt, PreparedAt, SwappedAt, UndoneAt, RewrittenAt, Opening, Preparing, Putting, Swaps, Swapping,
           Undoing, Undone, Swapped, Restored, Rewriting
  <2>3. Temp(p)' = Torn
    BY <1>1, <1>a, <2>1, <1>o, TempSet DEF RestorePrepareOpen, disk, Temp, Backup, Old, New,
       ContentAt, PreparedAt, SwappedAt, UndoneAt, RewrittenAt, Opening, Preparing, Putting, Swaps, Swapping,
           Undoing, Undone, Swapped, Restored, Rewriting
  <2>4. Backup(p)' = Backup(p)
    BY <1>1, <1>a, <2>1, <1>o, TempSet DEF RestorePrepareOpen, disk, Temp, Backup, Old, New,
       ContentAt, PreparedAt, SwappedAt, UndoneAt, RewrittenAt, Opening, Preparing, Putting, Swaps, Swapping,
           Undoing, Undone, Swapped, Restored, Rewriting
  <2>5. First(p)
    BY <1>1 DEF RestorePrepareOpen
  <2>6. ASSUME NEW q \in Files PROVE ContentAt(q)'
    <3>1. Kept(q) /\ Kept(p)
      BY <1>a, <1>b
    <3>2. /\ First(q) /\ First(p) => q = p
          /\ Last(q) /\ Last(p) => q = p
          /\ todo' = todo => (First(q)' <=> First(q)) /\ (Last(q)' <=> Last(q))
      BY <3>1 DEF First, Last, Paths
    <3> QED
      BY <1>a, <2>1, <2>2, <2>3, <2>4, <2>5, <3>1, <3>2, <1>o
         DEF Old, New,
           ContentAt, PreparedAt, SwappedAt, UndoneAt, RewrittenAt, Opening, Preparing, Putting, Swaps, Swapping,
           Undoing, Undone, Swapped, Restored, Rewriting
  <2> QED
    BY <1>a, <2>1, <2>2, <2>6, <1>o DEF Contents, Moved, Swaps, Swapping, Putting, Undoing, Rewriting, Old
<1>2. CASE RestorePrepareText(p)
  <2>1. pc = "rPrepareText" /\ pc' = "rPrepare" /\ todo' = todo \ {p}
    BY <1>2 DEF RestorePrepareText
  <2>2. target'[p] = target[p]
    BY <1>2, <1>a, <2>1, <1>o, TextWritten DEF RestorePrepareText, disk, Temp, Backup, Old, New,
       ContentAt, PreparedAt, SwappedAt, UndoneAt, RewrittenAt, Opening, Preparing, Putting, Swaps, Swapping,
           Undoing, Undone, Swapped, Restored, Rewriting
  <2>3. Temp(p)' = Original(p)
    BY <1>2, <1>a, <2>1, <1>o, TextWritten DEF RestorePrepareText, disk, Temp, Backup, Old, New,
       ContentAt, PreparedAt, SwappedAt, UndoneAt, RewrittenAt, Opening, Preparing, Putting, Swaps, Swapping,
           Undoing, Undone, Swapped, Restored, Rewriting
  <2>4. Backup(p)' = Backup(p)
    BY <1>2, <1>a, <2>1, <1>o, TextWritten DEF RestorePrepareText, disk, Temp, Backup, Old, New,
       ContentAt, PreparedAt, SwappedAt, UndoneAt, RewrittenAt, Opening, Preparing, Putting, Swaps, Swapping,
           Undoing, Undone, Swapped, Restored, Rewriting
  <2>5. First(p)
    BY <1>2 DEF RestorePrepareText
  <2>6. ASSUME NEW q \in Files PROVE ContentAt(q)'
    <3>1. Kept(q) /\ Kept(p)
      BY <1>a, <1>b
    <3>2. /\ First(q) /\ First(p) => q = p
          /\ Last(q) /\ Last(p) => q = p
          /\ todo' = todo => (First(q)' <=> First(q)) /\ (Last(q)' <=> Last(q))
      BY <3>1 DEF First, Last, Paths
    <3> QED
      BY <1>a, <2>1, <2>2, <2>3, <2>4, <2>5, <3>1, <3>2, <1>o
         DEF Old, New,
           ContentAt, PreparedAt, SwappedAt, UndoneAt, RewrittenAt, Opening, Preparing, Putting, Swaps, Swapping,
           Undoing, Undone, Swapped, Restored, Rewriting
  <2> QED
    BY <1>a, <2>1, <2>2, <2>6, <1>o DEF Contents, Moved, Swaps, Swapping, Putting, Undoing, Rewriting, Old
<1>3. CASE RestorePrepareCreation(p)
  <2>1. pc = "rPrepare" /\ pc' = "rPrepare" /\ todo' = todo \ {p}
    BY <1>3 DEF RestorePrepareCreation
  <2>2. target'[p] = target[p]
    BY <1>3, <1>a, <2>1, <1>o DEF RestorePrepareCreation, disk, Temp, Backup, Old, New,
       ContentAt, PreparedAt, SwappedAt, UndoneAt, RewrittenAt, Opening, Preparing, Putting, Swaps, Swapping,
           Undoing, Undone, Swapped, Restored, Rewriting
  <2>3. Temp(p)' = Temp(p) /\ Original(p) = Absent
    BY <1>3, <1>a, <2>1, <1>o DEF RestorePrepareCreation, disk, Temp, Backup, Old, New,
       ContentAt, PreparedAt, SwappedAt, UndoneAt, RewrittenAt, Opening, Preparing, Putting, Swaps, Swapping,
           Undoing, Undone, Swapped, Restored, Rewriting
  <2>4. Backup(p)' = Backup(p)
    BY <1>3, <1>a, <2>1, <1>o DEF RestorePrepareCreation, disk, Temp, Backup, Old, New,
       ContentAt, PreparedAt, SwappedAt, UndoneAt, RewrittenAt, Opening, Preparing, Putting, Swaps, Swapping,
           Undoing, Undone, Swapped, Restored, Rewriting
  <2>5. First(p)
    BY <1>3 DEF RestorePrepareCreation
  <2>6. ASSUME NEW q \in Files PROVE ContentAt(q)'
    <3>1. Kept(q) /\ Kept(p)
      BY <1>a, <1>b
    <3>2. /\ First(q) /\ First(p) => q = p
          /\ Last(q) /\ Last(p) => q = p
          /\ todo' = todo => (First(q)' <=> First(q)) /\ (Last(q)' <=> Last(q))
      BY <3>1 DEF First, Last, Paths
    <3> QED
      BY <1>a, <2>1, <2>2, <2>3, <2>4, <2>5, <3>1, <3>2, <1>o
         DEF Old, New,
           ContentAt, PreparedAt, SwappedAt, UndoneAt, RewrittenAt, Opening, Preparing, Putting, Swaps, Swapping,
           Undoing, Undone, Swapped, Restored, Rewriting
  <2> QED
    BY <1>a, <2>1, <2>2, <2>6, <1>o DEF Contents, Moved, Swaps, Swapping, Putting, Undoing, Rewriting, Old
<1>4. CASE RestorePrepareFails(p)
  <2>1. pc \in {"rPrepare", "rPrepareText"} /\ pc' = "rCleanup" /\ todo' = Files \ todo
    BY <1>4 DEF RestorePrepareFails
  <2>2. target'[p] = target[p]
    BY <1>4, <1>a, <2>1, <1>o, TempSet DEF RestorePrepareFails, disk, Temp, Backup, Old, New,
       ContentAt, PreparedAt, SwappedAt, UndoneAt, RewrittenAt, Opening, Preparing, Putting, Swaps, Swapping,
           Undoing, Undone, Swapped, Restored, Rewriting
  <2>3. Temp(p)' = Absent
    BY <1>4, <1>a, <2>1, <1>o, TempSet DEF RestorePrepareFails, disk, Temp, Backup, Old, New,
       ContentAt, PreparedAt, SwappedAt, UndoneAt, RewrittenAt, Opening, Preparing, Putting, Swaps, Swapping,
           Undoing, Undone, Swapped, Restored, Rewriting
  <2>4. Backup(p)' = Backup(p)
    BY <1>4, <1>a, <2>1, <1>o, TempSet DEF RestorePrepareFails, disk, Temp, Backup, Old, New,
       ContentAt, PreparedAt, SwappedAt, UndoneAt, RewrittenAt, Opening, Preparing, Putting, Swaps, Swapping,
           Undoing, Undone, Swapped, Restored, Rewriting
  <2>5. First(p)
    BY <1>4 DEF RestorePrepareFails
  <2>6. ASSUME NEW q \in Files PROVE ContentAt(q)'
    <3>1. Kept(q) /\ Kept(p)
      BY <1>a, <1>b
    <3>2. /\ First(q) /\ First(p) => q = p
          /\ Last(q) /\ Last(p) => q = p
          /\ todo' = todo => (First(q)' <=> First(q)) /\ (Last(q)' <=> Last(q))
      BY <3>1 DEF First, Last, Paths
    <3> QED
      BY <1>a, <2>1, <2>2, <2>3, <2>4, <2>5, <3>1, <3>2, <1>o
         DEF Old, New,
           ContentAt, PreparedAt, SwappedAt, UndoneAt, RewrittenAt, Opening, Preparing, Putting, Swaps, Swapping,
           Undoing, Undone, Swapped, Restored, Rewriting
  <2> QED
    BY <1>a, <2>1, <2>2, <2>6, <1>o DEF Contents, Moved, Swaps, Swapping, Putting, Undoing, Rewriting, Old
<1>5. CASE RestoreVerify(p)
  <2>1. pc = "rReplace" /\ pc' = "rAside" /\ todo' = todo
    BY <1>5 DEF RestoreVerify
  <2>2. target'[p] = target[p]
    BY <1>5, <1>a, <2>1, <1>o DEF RestoreVerify, disk, Temp, Backup, Old, New,
       ContentAt, PreparedAt, SwappedAt, UndoneAt, RewrittenAt, Opening, Preparing, Putting, Swaps, Swapping,
           Undoing, Undone, Swapped, Restored, Rewriting
  <2>3. Temp(p)' = Temp(p)
    BY <1>5, <1>a, <2>1, <1>o DEF RestoreVerify, disk, Temp, Backup, Old, New,
       ContentAt, PreparedAt, SwappedAt, UndoneAt, RewrittenAt, Opening, Preparing, Putting, Swaps, Swapping,
           Undoing, Undone, Swapped, Restored, Rewriting
  <2>4. Backup(p)' = Backup(p)
    BY <1>5, <1>a, <2>1, <1>o DEF RestoreVerify, disk, Temp, Backup, Old, New,
       ContentAt, PreparedAt, SwappedAt, UndoneAt, RewrittenAt, Opening, Preparing, Putting, Swaps, Swapping,
           Undoing, Undone, Swapped, Restored, Rewriting
  <2>5. First(p)
    BY <1>5 DEF RestoreVerify
  <2>6. ASSUME NEW q \in Files PROVE ContentAt(q)'
    <3>1. Kept(q) /\ Kept(p)
      BY <1>a, <1>b
    <3>2. /\ First(q) /\ First(p) => q = p
          /\ Last(q) /\ Last(p) => q = p
          /\ todo' = todo => (First(q)' <=> First(q)) /\ (Last(q)' <=> Last(q))
      BY <3>1 DEF First, Last, Paths
    <3> QED
      BY <1>a, <2>1, <2>2, <2>3, <2>4, <2>5, <3>1, <3>2, <1>o
         DEF Old, New,
           ContentAt, PreparedAt, SwappedAt, UndoneAt, RewrittenAt, Opening, Preparing, Putting, Swaps, Swapping,
           Undoing, Undone, Swapped, Restored, Rewriting
  <2> QED
    BY <1>a, <2>1, <2>2, <2>6, <1>o DEF Contents, Moved, Swaps, Swapping, Putting, Undoing, Rewriting, Old
<1>6. CASE RestoreAside(p)
  <2>1. pc = "rAside" /\ pc' = "rPut" /\ todo' = todo
    BY <1>6 DEF RestoreAside
  <2>2. target'[p] = Absent
    BY <1>6, <1>a, <2>1, <1>o, BackupSet, TargetSet DEF MoveAside, RestoreAside, disk, Temp, Backup, Old, New,
       ContentAt, PreparedAt, SwappedAt, UndoneAt, RewrittenAt, Opening, Preparing, Putting, Swaps, Swapping,
           Undoing, Undone, Swapped, Restored, Rewriting
  <2>3. Temp(p)' = Temp(p)
    BY <1>6, <1>a, <2>1, <1>o, BackupSet, TargetSet DEF MoveAside, RestoreAside, disk, Temp, Backup, Old, New,
       ContentAt, PreparedAt, SwappedAt, UndoneAt, RewrittenAt, Opening, Preparing, Putting, Swaps, Swapping,
           Undoing, Undone, Swapped, Restored, Rewriting
  <2>4. Backup(p)' = Applied(p)
    BY <1>6, <1>a, <2>1, <1>o, BackupSet, TargetSet DEF MoveAside, RestoreAside, disk, Temp, Backup, Old, New,
       ContentAt, PreparedAt, SwappedAt, UndoneAt, RewrittenAt, Opening, Preparing, Putting, Swaps, Swapping,
           Undoing, Undone, Swapped, Restored, Rewriting
  <2>5. First(p)
    BY <1>6 DEF RestoreAside
  <2>6. ASSUME NEW q \in Files PROVE ContentAt(q)'
    <3>1. Kept(q) /\ Kept(p)
      BY <1>a, <1>b
    <3>2. /\ First(q) /\ First(p) => q = p
          /\ Last(q) /\ Last(p) => q = p
          /\ todo' = todo => (First(q)' <=> First(q)) /\ (Last(q)' <=> Last(q))
      BY <3>1 DEF First, Last, Paths
    <3> QED
      BY <1>a, <2>1, <2>2, <2>3, <2>4, <2>5, <3>1, <3>2, <1>o
         DEF Old, New,
           ContentAt, PreparedAt, SwappedAt, UndoneAt, RewrittenAt, Opening, Preparing, Putting, Swaps, Swapping,
           Undoing, Undone, Swapped, Restored, Rewriting
  <2> QED
    BY <1>a, <2>1, <2>2, <2>6, <1>o DEF Contents, Moved, Swaps, Swapping, Putting, Undoing, Rewriting, Old
<1>7. CASE RestoreFails(p)
  <2>1. pc \in {"rReplace", "rAside"} /\ pc' = "undo" /\ todo' = Files \ todo
    BY <1>7 DEF RestoreFails
  <2>2. target'[p] = target[p]
    BY <1>7, <1>a, <2>1, <1>o DEF RestoreFails, disk, Temp, Backup, Old, New,
       ContentAt, PreparedAt, SwappedAt, UndoneAt, RewrittenAt, Opening, Preparing, Putting, Swaps, Swapping,
           Undoing, Undone, Swapped, Restored, Rewriting
  <2>3. Temp(p)' = Temp(p)
    BY <1>7, <1>a, <2>1, <1>o DEF RestoreFails, disk, Temp, Backup, Old, New,
       ContentAt, PreparedAt, SwappedAt, UndoneAt, RewrittenAt, Opening, Preparing, Putting, Swaps, Swapping,
           Undoing, Undone, Swapped, Restored, Rewriting
  <2>4. Backup(p)' = Backup(p)
    BY <1>7, <1>a, <2>1, <1>o DEF RestoreFails, disk, Temp, Backup, Old, New,
       ContentAt, PreparedAt, SwappedAt, UndoneAt, RewrittenAt, Opening, Preparing, Putting, Swaps, Swapping,
           Undoing, Undone, Swapped, Restored, Rewriting
  <2>5. First(p)
    BY <1>7 DEF RestoreFails
  <2>6. ASSUME NEW q \in Files PROVE ContentAt(q)'
    <3>1. Kept(q) /\ Kept(p)
      BY <1>a, <1>b
    <3>2. /\ First(q) /\ First(p) => q = p
          /\ Last(q) /\ Last(p) => q = p
          /\ todo' = todo => (First(q)' <=> First(q)) /\ (Last(q)' <=> Last(q))
      BY <3>1 DEF First, Last, Paths
    <3> QED
      BY <1>a, <2>1, <2>2, <2>3, <2>4, <2>5, <3>1, <3>2, <1>o
         DEF Old, New,
           ContentAt, PreparedAt, SwappedAt, UndoneAt, RewrittenAt, Opening, Preparing, Putting, Swaps, Swapping,
           Undoing, Undone, Swapped, Restored, Rewriting
  <2> QED
    BY <1>a, <2>1, <2>2, <2>6, <1>o DEF Contents, Moved, Swaps, Swapping, Putting, Undoing, Rewriting, Old
<1>8. CASE RestorePut(p)
  <2>1. pc = "rPut" /\ pc' = "rReplace" /\ todo' = todo \ {p}
    BY <1>8 DEF RestorePut
  <2>2. target'[p] = Original(p)
    BY <1>8, <1>a, <2>1, <1>o, TempSet, TargetSet DEF PutTemp, RestorePut, disk, Temp, Backup, Old, New,
       ContentAt, PreparedAt, SwappedAt, UndoneAt, RewrittenAt, Opening, Preparing, Putting, Swaps, Swapping,
           Undoing, Undone, Swapped, Restored, Rewriting
  <2>3. Temp(p)' = Absent
    BY <1>8, <1>a, <2>1, <1>o, TempSet, TargetSet DEF PutTemp, RestorePut, disk, Temp, Backup, Old, New,
       ContentAt, PreparedAt, SwappedAt, UndoneAt, RewrittenAt, Opening, Preparing, Putting, Swaps, Swapping,
           Undoing, Undone, Swapped, Restored, Rewriting
  <2>4. Backup(p)' = Backup(p)
    BY <1>8, <1>a, <2>1, <1>o, TempSet, TargetSet DEF PutTemp, RestorePut, disk, Temp, Backup, Old, New,
       ContentAt, PreparedAt, SwappedAt, UndoneAt, RewrittenAt, Opening, Preparing, Putting, Swaps, Swapping,
           Undoing, Undone, Swapped, Restored, Rewriting
  <2>5. First(p)
    BY <1>8 DEF RestorePut
  <2>6. ASSUME NEW q \in Files PROVE ContentAt(q)'
    <3>1. Kept(q) /\ Kept(p)
      BY <1>a, <1>b
    <3>2. /\ First(q) /\ First(p) => q = p
          /\ Last(q) /\ Last(p) => q = p
          /\ todo' = todo => (First(q)' <=> First(q)) /\ (Last(q)' <=> Last(q))
      BY <3>1 DEF First, Last, Paths
    <3> QED
      BY <1>a, <2>1, <2>2, <2>3, <2>4, <2>5, <3>1, <3>2, <1>o
         DEF Old, New,
           ContentAt, PreparedAt, SwappedAt, UndoneAt, RewrittenAt, Opening, Preparing, Putting, Swaps, Swapping,
           Undoing, Undone, Swapped, Restored, Rewriting
  <2> QED
    BY <1>a, <2>1, <2>2, <2>6, <1>o DEF Contents, Moved, Swaps, Swapping, Putting, Undoing, Rewriting, Old
<1>9. CASE RestorePutFails(p)
  <2>1. pc = "rPut" /\ pc' = "undoPut" /\ todo' = (Files \ todo) \cup {p}
    BY <1>9 DEF RestorePutFails
  <2>2. target'[p] = target[p]
    BY <1>9, <1>a, <2>1, <1>o DEF RestorePutFails, disk, Temp, Backup, Old, New,
       ContentAt, PreparedAt, SwappedAt, UndoneAt, RewrittenAt, Opening, Preparing, Putting, Swaps, Swapping,
           Undoing, Undone, Swapped, Restored, Rewriting
  <2>3. Temp(p)' = Temp(p)
    BY <1>9, <1>a, <2>1, <1>o DEF RestorePutFails, disk, Temp, Backup, Old, New,
       ContentAt, PreparedAt, SwappedAt, UndoneAt, RewrittenAt, Opening, Preparing, Putting, Swaps, Swapping,
           Undoing, Undone, Swapped, Restored, Rewriting
  <2>4. Backup(p)' = Backup(p)
    BY <1>9, <1>a, <2>1, <1>o DEF RestorePutFails, disk, Temp, Backup, Old, New,
       ContentAt, PreparedAt, SwappedAt, UndoneAt, RewrittenAt, Opening, Preparing, Putting, Swaps, Swapping,
           Undoing, Undone, Swapped, Restored, Rewriting
  <2>5. First(p)
    BY <1>9 DEF RestorePutFails
  <2>6. ASSUME NEW q \in Files PROVE ContentAt(q)'
    <3>1. Kept(q) /\ Kept(p)
      BY <1>a, <1>b
    <3>2. /\ First(q) /\ First(p) => q = p
          /\ Last(q) /\ Last(p) => q = p
          /\ todo' = todo => (First(q)' <=> First(q)) /\ (Last(q)' <=> Last(q))
      BY <3>1 DEF First, Last, Paths
    <3>3. Last(q)' => q = p
      BY <1>a, <2>1, <3>1 DEF Last, Content, Ordered, Swaps, Swapping, Putting, Paths
    <3> QED
      BY <1>a, <2>1, <2>2, <2>3, <2>4, <2>5, <3>1, <3>2, <3>3, <1>o
         DEF Old, New,
           ContentAt, PreparedAt, SwappedAt, UndoneAt, RewrittenAt, Opening, Preparing, Putting, Swaps, Swapping,
           Undoing, Undone, Swapped, Restored, Rewriting
  <2> QED
    BY <1>a, <2>1, <2>2, <2>6, <1>o DEF Contents, Moved, Swaps, Swapping, Putting, Undoing, Rewriting, Old
<1>10. CASE RestoreCleanup(p)
  <2>1. pc = "rCleanup" /\ pc' = "rCleanup" /\ todo' = todo \ {p}
    BY <1>10 DEF RestoreCleanup
  <2>2. target'[p] = target[p]
    BY <1>10, <1>a, <2>1, <1>o, TempSet DEF RestoreCleanup, disk, Temp, Backup, Old, New,
       ContentAt, PreparedAt, SwappedAt, UndoneAt, RewrittenAt, Opening, Preparing, Putting, Swaps, Swapping,
           Undoing, Undone, Swapped, Restored, Rewriting
  <2>3. Temp(p)' \in {Temp(p), Absent}
    BY <1>10, <1>a, <2>1, <1>o, TempSet DEF RestoreCleanup, disk, Temp, Backup, Old, New,
       ContentAt, PreparedAt, SwappedAt, UndoneAt, RewrittenAt, Opening, Preparing, Putting, Swaps, Swapping,
           Undoing, Undone, Swapped, Restored, Rewriting
  <2>4. Backup(p)' = Backup(p)
    BY <1>10, <1>a, <2>1, <1>o, TempSet DEF RestoreCleanup, disk, Temp, Backup, Old, New,
       ContentAt, PreparedAt, SwappedAt, UndoneAt, RewrittenAt, Opening, Preparing, Putting, Swaps, Swapping,
           Undoing, Undone, Swapped, Restored, Rewriting
  <2>5. First(p)
    BY <1>10 DEF RestoreCleanup
  <2>6. ASSUME NEW q \in Files PROVE ContentAt(q)'
    <3>1. Kept(q) /\ Kept(p)
      BY <1>a, <1>b
    <3>2. /\ First(q) /\ First(p) => q = p
          /\ Last(q) /\ Last(p) => q = p
          /\ todo' = todo => (First(q)' <=> First(q)) /\ (Last(q)' <=> Last(q))
      BY <3>1 DEF First, Last, Paths
    <3> QED
      BY <1>a, <2>1, <2>2, <2>3, <2>4, <2>5, <3>1, <3>2, <1>o
         DEF Old, New,
           ContentAt, PreparedAt, SwappedAt, UndoneAt, RewrittenAt, Opening, Preparing, Putting, Swaps, Swapping,
           Undoing, Undone, Swapped, Restored, Rewriting
  <2> QED
    BY <1>a, <2>1, <2>2, <2>6, <1>o DEF Contents, Moved, Swaps, Swapping, Putting, Undoing, Rewriting, Old
<1>11. CASE RestoreSweep(p)
  <2>1. pc = "rSweep" /\ pc' = "rSweep" /\ todo' = todo \ {p}
    BY <1>11 DEF RestoreSweep
  <2>2. target'[p] = target[p]
    BY <1>11, <1>a, <2>1, <1>o, BackupSet DEF RestoreSweep, disk, Temp, Backup, Old, New,
       ContentAt, PreparedAt, SwappedAt, UndoneAt, RewrittenAt, Opening, Preparing, Putting, Swaps, Swapping,
           Undoing, Undone, Swapped, Restored, Rewriting
  <2>3. Temp(p)' = Temp(p)
    BY <1>11, <1>a, <2>1, <1>o, BackupSet DEF RestoreSweep, disk, Temp, Backup, Old, New,
       ContentAt, PreparedAt, SwappedAt, UndoneAt, RewrittenAt, Opening, Preparing, Putting, Swaps, Swapping,
           Undoing, Undone, Swapped, Restored, Rewriting
  <2>4. Backup(p)' \in {Backup(p), Absent}
    BY <1>11, <1>a, <2>1, <1>o, BackupSet DEF RestoreSweep, disk, Temp, Backup, Old, New,
       ContentAt, PreparedAt, SwappedAt, UndoneAt, RewrittenAt, Opening, Preparing, Putting, Swaps, Swapping,
           Undoing, Undone, Swapped, Restored, Rewriting
  <2>5. First(p)
    BY <1>11 DEF RestoreSweep
  <2>6. ASSUME NEW q \in Files PROVE ContentAt(q)'
    <3>1. Kept(q) /\ Kept(p)
      BY <1>a, <1>b
    <3>2. /\ First(q) /\ First(p) => q = p
          /\ Last(q) /\ Last(p) => q = p
          /\ todo' = todo => (First(q)' <=> First(q)) /\ (Last(q)' <=> Last(q))
      BY <3>1 DEF First, Last, Paths
    <3> QED
      BY <1>a, <2>1, <2>2, <2>3, <2>4, <2>5, <3>1, <3>2, <1>o
         DEF Old, New,
           ContentAt, PreparedAt, SwappedAt, UndoneAt, RewrittenAt, Opening, Preparing, Putting, Swaps, Swapping,
           Undoing, Undone, Swapped, Restored, Rewriting
  <2> QED
    BY <1>a, <2>1, <2>2, <2>6, <1>o DEF Contents, Moved, Swaps, Swapping, Putting, Undoing, Rewriting, Old
<1> QED
  BY <1>1, <1>2, <1>3, <1>4, <1>5, <1>6, <1>7, <1>8, <1>9, <1>10, <1>11 DEF RestoreStep

(* What each step of a recovery on one file leaves in its files. *)
LEMMA RecoveryStepContents ==
    ASSUME OneFault, Inv, Content, NEW p \in Paths, RecoveryStep(p)
    PROVE  Contents' /\ Moved(p)
<1>a. /\ Local(p) /\ txn.tid \in Ids /\ txn' = txn /\ Files' = Files /\ Files \subseteq Paths
      /\ p \in Files /\ p \in todo /\ todo \subseteq Files /\ DiskTypeOK
      /\ op' = op /\ job' = job /\ Committed(txn)' = Committed(txn)
      /\ target[p] \in {Original(p), Applied(p), Absent} /\ ContentAt(p)
      /\ Original(p) # Torn /\ Applied(p) # Torn /\ target[p] # Torn
  BY StepFacts
<1> DEFINE Kept(q) ==
       /\ q \in Paths /\ ContentAt(q) /\ Old(q)' = Old(q) /\ New(q)' = New(q)
       /\ Original(q)' = Original(q) /\ Applied(q)' = Applied(q)
       /\ q # p => Temp(q)' = Temp(q) /\ Backup(q)' = Backup(q) /\ target'[q] = target[q]
<1>b. \A q \in Files : Kept(q)
  BY StepFacts
<1> USE DEF Goto, Step, Loop, Visited, Revisit
<1>1. CASE Sweep(p)
  <2>1. pc = "sweep" /\ pc' = "sweep" /\ todo' = todo \ {p}
    BY <1>1 DEF Sweep
  <2>2. target'[p] = target[p]
    BY <1>1, <1>a, <2>1, TempSet, BackupSet DEF Sweep, disk, Temp, Backup, Old, New,
       ContentAt, PreparedAt, SwappedAt, UndoneAt, RewrittenAt, Opening, Preparing, Putting, Swaps, Swapping,
           Undoing, Undone, Swapped, Restored, Rewriting
  <2>3. Temp(p)' = Absent
    BY <1>1, <1>a, <2>1, TempSet, BackupSet DEF Sweep, disk, Temp, Backup, Old, New,
       ContentAt, PreparedAt, SwappedAt, UndoneAt, RewrittenAt, Opening, Preparing, Putting, Swaps, Swapping,
           Undoing, Undone, Swapped, Restored, Rewriting
  <2>4. Backup(p)' = Absent
    BY <1>1, <1>a, <2>1, TempSet, BackupSet DEF Sweep, disk, Temp, Backup, Old, New,
       ContentAt, PreparedAt, SwappedAt, UndoneAt, RewrittenAt, Opening, Preparing, Putting, Swaps, Swapping,
           Undoing, Undone, Swapped, Restored, Rewriting
  <2>5. First(p)
    BY <1>1 DEF Sweep
  <2>6. ASSUME NEW q \in Files PROVE ContentAt(q)'
    <3>1. Kept(q) /\ Kept(p)
      BY <1>a, <1>b
    <3>2. /\ First(q) /\ First(p) => q = p
          /\ Last(q) /\ Last(p) => q = p
          /\ todo' = todo => (First(q)' <=> First(q)) /\ (Last(q)' <=> Last(q))
      BY <3>1 DEF First, Last, Paths
    <3> QED
      BY <1>a, <2>1, <2>2, <2>3, <2>4, <2>5, <3>1, <3>2
         DEF Old, New,
           ContentAt, PreparedAt, SwappedAt, UndoneAt, RewrittenAt, Opening, Preparing, Putting, Swaps, Swapping,
           Undoing, Undone, Swapped, Restored, Rewriting
  <2> QED
    BY <1>a, <2>1, <2>2, <2>6 DEF Contents, Moved, Swaps, Swapping, Putting, Undoing, Rewriting, Old
<1>2. CASE RewriteOpen(p)
  <2>1. pc = "rewrite" /\ pc' = "rewriteText" /\ todo' = todo
    BY <1>2 DEF RewriteOpen
  <2>2. target'[p] = target[p]
    BY <1>2, <1>a, <2>1, TempSet DEF RewriteOpen, disk, Temp, Backup, Old, New,
       ContentAt, PreparedAt, SwappedAt, UndoneAt, RewrittenAt, Opening, Preparing, Putting, Swaps, Swapping,
           Undoing, Undone, Swapped, Restored, Rewriting
  <2>3. Temp(p)' = Torn
    BY <1>2, <1>a, <2>1, TempSet DEF RewriteOpen, disk, Temp, Backup, Old, New,
       ContentAt, PreparedAt, SwappedAt, UndoneAt, RewrittenAt, Opening, Preparing, Putting, Swaps, Swapping,
           Undoing, Undone, Swapped, Restored, Rewriting
  <2>4. Backup(p)' = Backup(p)
    BY <1>2, <1>a, <2>1, TempSet DEF RewriteOpen, disk, Temp, Backup, Old, New,
       ContentAt, PreparedAt, SwappedAt, UndoneAt, RewrittenAt, Opening, Preparing, Putting, Swaps, Swapping,
           Undoing, Undone, Swapped, Restored, Rewriting
  <2>5. First(p)
    BY <1>2 DEF RewriteOpen
  <2>6. ASSUME NEW q \in Files PROVE ContentAt(q)'
    <3>1. Kept(q) /\ Kept(p)
      BY <1>a, <1>b
    <3>2. /\ First(q) /\ First(p) => q = p
          /\ Last(q) /\ Last(p) => q = p
          /\ todo' = todo => (First(q)' <=> First(q)) /\ (Last(q)' <=> Last(q))
      BY <3>1 DEF First, Last, Paths
    <3> QED
      BY <1>a, <2>1, <2>2, <2>3, <2>4, <2>5, <3>1, <3>2
         DEF Old, New,
           ContentAt, PreparedAt, SwappedAt, UndoneAt, RewrittenAt, Opening, Preparing, Putting, Swaps, Swapping,
           Undoing, Undone, Swapped, Restored, Rewriting
  <2> QED
    BY <1>a, <2>1, <2>2, <2>6 DEF Contents, Moved, Swaps, Swapping, Putting, Undoing, Rewriting, Old
<1>3. CASE RewriteText(p)
  <2>1. pc = "rewriteText" /\ pc' = "rewriteClear" /\ todo' = todo
    BY <1>3 DEF RewriteText
  <2>2. target'[p] = target[p]
    BY <1>3, <1>a, <2>1, TextWritten DEF RewriteText, disk, Temp, Backup, Old, New,
       ContentAt, PreparedAt, SwappedAt, UndoneAt, RewrittenAt, Opening, Preparing, Putting, Swaps, Swapping,
           Undoing, Undone, Swapped, Restored, Rewriting
  <2>3. Temp(p)' = Original(p)
    BY <1>3, <1>a, <2>1, TextWritten DEF RewriteText, disk, Temp, Backup, Old, New,
       ContentAt, PreparedAt, SwappedAt, UndoneAt, RewrittenAt, Opening, Preparing, Putting, Swaps, Swapping,
           Undoing, Undone, Swapped, Restored, Rewriting
  <2>4. Backup(p)' = Backup(p)
    BY <1>3, <1>a, <2>1, TextWritten DEF RewriteText, disk, Temp, Backup, Old, New,
       ContentAt, PreparedAt, SwappedAt, UndoneAt, RewrittenAt, Opening, Preparing, Putting, Swaps, Swapping,
           Undoing, Undone, Swapped, Restored, Rewriting
  <2>5. First(p)
    BY <1>3 DEF RewriteText
  <2>6. ASSUME NEW q \in Files PROVE ContentAt(q)'
    <3>1. Kept(q) /\ Kept(p)
      BY <1>a, <1>b
    <3>2. /\ First(q) /\ First(p) => q = p
          /\ Last(q) /\ Last(p) => q = p
          /\ todo' = todo => (First(q)' <=> First(q)) /\ (Last(q)' <=> Last(q))
      BY <3>1 DEF First, Last, Paths
    <3> QED
      BY <1>a, <2>1, <2>2, <2>3, <2>4, <2>5, <3>1, <3>2
         DEF Old, New,
           ContentAt, PreparedAt, SwappedAt, UndoneAt, RewrittenAt, Opening, Preparing, Putting, Swaps, Swapping,
           Undoing, Undone, Swapped, Restored, Rewriting
  <2> QED
    BY <1>a, <2>1, <2>2, <2>6 DEF Contents, Moved, Swaps, Swapping, Putting, Undoing, Rewriting, Old
<1>4. CASE RewriteClear(p)
  <2>1. pc = "rewriteClear" /\ pc' = "rewritePut" /\ todo' = todo
    BY <1>4 DEF RewriteClear
  <2>2. target'[p] = Absent
    BY <1>4, <1>a, <2>1, TargetSet DEF RewriteClear, disk, Temp, Backup, Old, New,
       ContentAt, PreparedAt, SwappedAt, UndoneAt, RewrittenAt, Opening, Preparing, Putting, Swaps, Swapping,
           Undoing, Undone, Swapped, Restored, Rewriting
  <2>3. Temp(p)' = Temp(p)
    BY <1>4, <1>a, <2>1, TargetSet DEF RewriteClear, disk, Temp, Backup, Old, New,
       ContentAt, PreparedAt, SwappedAt, UndoneAt, RewrittenAt, Opening, Preparing, Putting, Swaps, Swapping,
           Undoing, Undone, Swapped, Restored, Rewriting
  <2>4. Backup(p)' = Backup(p)
    BY <1>4, <1>a, <2>1, TargetSet DEF RewriteClear, disk, Temp, Backup, Old, New,
       ContentAt, PreparedAt, SwappedAt, UndoneAt, RewrittenAt, Opening, Preparing, Putting, Swaps, Swapping,
           Undoing, Undone, Swapped, Restored, Rewriting
  <2>5. First(p)
    BY <1>4 DEF RewriteClear
  <2>6. ASSUME NEW q \in Files PROVE ContentAt(q)'
    <3>1. Kept(q) /\ Kept(p)
      BY <1>a, <1>b
    <3>2. /\ First(q) /\ First(p) => q = p
          /\ Last(q) /\ Last(p) => q = p
          /\ todo' = todo => (First(q)' <=> First(q)) /\ (Last(q)' <=> Last(q))
      BY <3>1 DEF First, Last, Paths
    <3> QED
      BY <1>a, <2>1, <2>2, <2>3, <2>4, <2>5, <3>1, <3>2
         DEF Old, New,
           ContentAt, PreparedAt, SwappedAt, UndoneAt, RewrittenAt, Opening, Preparing, Putting, Swaps, Swapping,
           Undoing, Undone, Swapped, Restored, Rewriting
  <2>7. edits = 0 /\ session => job \notin {"apply", "restore"} \/ target'[p] = target[p]
    BY <1>a, <2>1, <2>2, QuietTarget DEF Local, Rewriting, Content, Stable
  <2> QED
    BY <1>a, <2>1, <2>2, <2>6, <2>7 DEF Contents, Moved, Rewriting
<1>5. CASE RewritePut(p)
  <2>1. pc = "rewritePut" /\ pc' = "rewriteSweep" /\ todo' = todo
    BY <1>5 DEF RewritePut
  <2>2. target'[p] = Original(p)
    BY <1>5, <1>a, <2>1, TempSet, TargetSet DEF PutTemp, RewritePut, disk, Temp, Backup, Old, New,
       ContentAt, PreparedAt, SwappedAt, UndoneAt, RewrittenAt, Opening, Preparing, Putting, Swaps, Swapping,
           Undoing, Undone, Swapped, Restored, Rewriting
  <2>3. Temp(p)' = Absent
    BY <1>5, <1>a, <2>1, TempSet, TargetSet DEF PutTemp, RewritePut, disk, Temp, Backup, Old, New,
       ContentAt, PreparedAt, SwappedAt, UndoneAt, RewrittenAt, Opening, Preparing, Putting, Swaps, Swapping,
           Undoing, Undone, Swapped, Restored, Rewriting
  <2>4. Backup(p)' = Backup(p)
    BY <1>5, <1>a, <2>1, TempSet, TargetSet DEF PutTemp, RewritePut, disk, Temp, Backup, Old, New,
       ContentAt, PreparedAt, SwappedAt, UndoneAt, RewrittenAt, Opening, Preparing, Putting, Swaps, Swapping,
           Undoing, Undone, Swapped, Restored, Rewriting
  <2>5. First(p)
    BY <1>5 DEF RewritePut
  <2>6. ASSUME NEW q \in Files PROVE ContentAt(q)'
    <3>1. Kept(q) /\ Kept(p)
      BY <1>a, <1>b
    <3>2. /\ First(q) /\ First(p) => q = p
          /\ Last(q) /\ Last(p) => q = p
          /\ todo' = todo => (First(q)' <=> First(q)) /\ (Last(q)' <=> Last(q))
      BY <3>1 DEF First, Last, Paths
    <3> QED
      BY <1>a, <2>1, <2>2, <2>3, <2>4, <2>5, <3>1, <3>2
         DEF Old, New,
           ContentAt, PreparedAt, SwappedAt, UndoneAt, RewrittenAt, Opening, Preparing, Putting, Swaps, Swapping,
           Undoing, Undone, Swapped, Restored, Rewriting
  <2>7. edits = 0 /\ session => job \notin {"apply", "restore"} \/ target'[p] = target[p]
    BY <1>a, <2>1, <2>2, QuietTarget DEF Local, Rewriting, Content, Stable
  <2> QED
    BY <1>a, <2>1, <2>2, <2>6, <2>7 DEF Contents, Moved, Rewriting
<1>6. CASE RewriteKeep(p)
  <2>1. pc = "rewrite" /\ pc' = "rewriteSweep" /\ todo' = todo
    BY <1>6 DEF RewriteKeep
  <2>2. target'[p] = target[p] /\ target[p] = Original(p)
    BY <1>6, <1>a, <2>1 DEF RewriteKeep, disk, Temp, Backup, Old, New,
       ContentAt, PreparedAt, SwappedAt, UndoneAt, RewrittenAt, Opening, Preparing, Putting, Swaps, Swapping,
           Undoing, Undone, Swapped, Restored, Rewriting
  <2>3. Temp(p)' = Temp(p)
    BY <1>6, <1>a, <2>1 DEF RewriteKeep, disk, Temp, Backup, Old, New,
       ContentAt, PreparedAt, SwappedAt, UndoneAt, RewrittenAt, Opening, Preparing, Putting, Swaps, Swapping,
           Undoing, Undone, Swapped, Restored, Rewriting
  <2>4. Backup(p)' = Backup(p)
    BY <1>6, <1>a, <2>1 DEF RewriteKeep, disk, Temp, Backup, Old, New,
       ContentAt, PreparedAt, SwappedAt, UndoneAt, RewrittenAt, Opening, Preparing, Putting, Swaps, Swapping,
           Undoing, Undone, Swapped, Restored, Rewriting
  <2>5. First(p)
    BY <1>6 DEF RewriteKeep
  <2>6. ASSUME NEW q \in Files PROVE ContentAt(q)'
    <3>1. Kept(q) /\ Kept(p)
      BY <1>a, <1>b
    <3>2. /\ First(q) /\ First(p) => q = p
          /\ Last(q) /\ Last(p) => q = p
          /\ todo' = todo => (First(q)' <=> First(q)) /\ (Last(q)' <=> Last(q))
      BY <3>1 DEF First, Last, Paths
    <3> QED
      BY <1>a, <2>1, <2>2, <2>3, <2>4, <2>5, <3>1, <3>2
         DEF Old, New,
           ContentAt, PreparedAt, SwappedAt, UndoneAt, RewrittenAt, Opening, Preparing, Putting, Swaps, Swapping,
           Undoing, Undone, Swapped, Restored, Rewriting
  <2> QED
    BY <1>a, <2>1, <2>2, <2>6 DEF Contents, Moved, Swaps, Swapping, Putting, Undoing, Rewriting, Old
<1>7. CASE RewriteCreation(p)
  <2>1. pc = "rewrite" /\ pc' = "rewriteSweep" /\ todo' = todo
    BY <1>7 DEF RewriteCreation
  <2>2. target'[p] = Absent /\ Original(p) = Absent
    BY <1>7, <1>a, <2>1, TargetSet DEF RewriteCreation, disk, Temp, Backup, Old, New,
       ContentAt, PreparedAt, SwappedAt, UndoneAt, RewrittenAt, Opening, Preparing, Putting, Swaps, Swapping,
           Undoing, Undone, Swapped, Restored, Rewriting
  <2>3. Temp(p)' = Temp(p)
    BY <1>7, <1>a, <2>1, TargetSet DEF RewriteCreation, disk, Temp, Backup, Old, New,
       ContentAt, PreparedAt, SwappedAt, UndoneAt, RewrittenAt, Opening, Preparing, Putting, Swaps, Swapping,
           Undoing, Undone, Swapped, Restored, Rewriting
  <2>4. Backup(p)' = Backup(p)
    BY <1>7, <1>a, <2>1, TargetSet DEF RewriteCreation, disk, Temp, Backup, Old, New,
       ContentAt, PreparedAt, SwappedAt, UndoneAt, RewrittenAt, Opening, Preparing, Putting, Swaps, Swapping,
           Undoing, Undone, Swapped, Restored, Rewriting
  <2>5. First(p)
    BY <1>7 DEF RewriteCreation
  <2>6. ASSUME NEW q \in Files PROVE ContentAt(q)'
    <3>1. Kept(q) /\ Kept(p)
      BY <1>a, <1>b
    <3>2. /\ First(q) /\ First(p) => q = p
          /\ Last(q) /\ Last(p) => q = p
          /\ todo' = todo => (First(q)' <=> First(q)) /\ (Last(q)' <=> Last(q))
      BY <3>1 DEF First, Last, Paths
    <3> QED
      BY <1>a, <2>1, <2>2, <2>3, <2>4, <2>5, <3>1, <3>2
         DEF Old, New,
           ContentAt, PreparedAt, SwappedAt, UndoneAt, RewrittenAt, Opening, Preparing, Putting, Swaps, Swapping,
           Undoing, Undone, Swapped, Restored, Rewriting
  <2>7. edits = 0 /\ session => job \notin {"apply", "restore"} \/ target'[p] = target[p]
    BY <1>a, <2>1, <2>2, QuietTarget DEF Local, Rewriting, Content, Stable
  <2> QED
    BY <1>a, <2>1, <2>2, <2>6, <2>7 DEF Contents, Moved, Rewriting
<1>8. CASE RewriteSweep(p)
  <2>1. pc = "rewriteSweep" /\ pc' = "rewrite" /\ todo' = todo \ {p}
    BY <1>8 DEF RewriteSweep
  <2>2. target'[p] = target[p]
    BY <1>8, <1>a, <2>1, TempSet, BackupSet DEF RewriteSweep, disk, Temp, Backup, Old, New,
       ContentAt, PreparedAt, SwappedAt, UndoneAt, RewrittenAt, Opening, Preparing, Putting, Swaps, Swapping,
           Undoing, Undone, Swapped, Restored, Rewriting
  <2>3. Temp(p)' = Absent
    BY <1>8, <1>a, <2>1, TempSet, BackupSet DEF RewriteSweep, disk, Temp, Backup, Old, New,
       ContentAt, PreparedAt, SwappedAt, UndoneAt, RewrittenAt, Opening, Preparing, Putting, Swaps, Swapping,
           Undoing, Undone, Swapped, Restored, Rewriting
  <2>4. Backup(p)' = Absent
    BY <1>8, <1>a, <2>1, TempSet, BackupSet DEF RewriteSweep, disk, Temp, Backup, Old, New,
       ContentAt, PreparedAt, SwappedAt, UndoneAt, RewrittenAt, Opening, Preparing, Putting, Swaps, Swapping,
           Undoing, Undone, Swapped, Restored, Rewriting
  <2>5. First(p)
    BY <1>8 DEF RewriteSweep
  <2>6. ASSUME NEW q \in Files PROVE ContentAt(q)'
    <3>1. Kept(q) /\ Kept(p)
      BY <1>a, <1>b
    <3>2. /\ First(q) /\ First(p) => q = p
          /\ Last(q) /\ Last(p) => q = p
          /\ todo' = todo => (First(q)' <=> First(q)) /\ (Last(q)' <=> Last(q))
      BY <3>1 DEF First, Last, Paths
    <3> QED
      BY <1>a, <2>1, <2>2, <2>3, <2>4, <2>5, <3>1, <3>2
         DEF Old, New,
           ContentAt, PreparedAt, SwappedAt, UndoneAt, RewrittenAt, Opening, Preparing, Putting, Swaps, Swapping,
           Undoing, Undone, Swapped, Restored, Rewriting
  <2> QED
    BY <1>a, <2>1, <2>2, <2>6 DEF Contents, Moved, Swaps, Swapping, Putting, Undoing, Rewriting, Old
<1> QED
  BY <1>1, <1>2, <1>3, <1>4, <1>5, <1>6, <1>7, <1>8 DEF RecoveryStep

-----------------------------------------------------------------------------
(* Where a step on one file leads.                                         *)
LEMMA StepPlaces ==
    ASSUME NEW p \in Paths, ApplyStep(p) \/ RestoreStep(p) \/ RecoveryStep(p)
    PROVE  /\ pc' \in Uncommitted => pc \in Uncommitted
           /\ pc' \in Undoing => pc \in Uncommitted \cup Undoing \cup (RestorePcs \ {"rUnrecord"})
           /\ pc' \in RestorePcs => pc \in RestorePcs \ {"rUnrecord"}
           /\ pc' = "sweep" => pc = "sweep"
           /\ pc' \in Rewriting => pc \in Rewriting
           /\ pc' \notin {"planned", "rPlanned", "save", "saved", "unrecord", "rollback", "verify", "reinstate",
                          "rUnrecord"}
<1> USE DEF Goto, Step, Loop, Visited, Revisit, Uncommitted, Undoing, RestorePcs, Rewriting
<1>1. CASE ApplyStep(p)
  BY <1>1 DEF ApplyStep, PrepareOpen, PrepareText, PrepareDeletion, PrepareRefused, PrepareFails, ReplaceVerify, ReplaceAside, ReplaceFails, ReplacePut, ReplacePutFails, UndoRemove, UndoPut, UndoFails, Cleanup, CleanupFails
<1>2. CASE RestoreStep(p)
  BY <1>2 DEF RestoreStep, RestorePrepareOpen, RestorePrepareText, RestorePrepareCreation, RestorePrepareFails, RestoreVerify, RestoreAside, RestoreFails, RestorePut, RestorePutFails, RestoreCleanup, RestoreSweep
<1>3. CASE RecoveryStep(p)
  BY <1>3 DEF RecoveryStep, Sweep, RewriteOpen, RewriteText, RewriteClear, RewritePut, RewriteKeep, RewriteCreation, RewriteSweep
<1> QED
  BY <1>1, <1>2, <1>3

(* The checkpoint saved fits the place a step on one file leads to.        *)
LEMMA StepSaved ==
    ASSUME Inv, Content, NEW p \in Paths, ApplyStep(p) \/ RestoreStep(p) \/ RecoveryStep(p)
    PROVE  SavedAt'
<1>1. /\ UNCHANGED <<ckpt, memory, txn, op, job>> /\ Committed(txn)' = Committed(txn)
      /\ pc \in RestorePcs => op = "restore"
      /\ pc \in Uncommitted => op = "apply"
  BY StepFacts DEF Local, store, stage, Inv, Tracked, Uncommitted, ApplyPcs
<1>2. /\ pc' \in Uncommitted \/ (pc' \in Undoing /\ op = "apply") =>
            pc \in Uncommitted \/ (pc \in Undoing /\ op = "apply")
      /\ pc' \in RestorePcs \ {"rUnrecord"} \/ (pc' \in Undoing /\ op = "restore") =>
            pc \in RestorePcs \ {"rUnrecord"} \/ (pc \in Undoing /\ op = "restore")
  BY <1>1, StepPlaces
<1>3. SavedAt
  BY DEF Content
<1>4. pc' \in Uncommitted \/ (pc' \in Undoing /\ op' = "apply") => ckpt' = txn'.prev /\ memory' = txn'.prev
  BY <1>1, <1>2, <1>3 DEF SavedAt
<1>5. pc' \in {"saved", "sweep"} \/ (pc' = "unrecord" /\ job' = "none") => ckpt' = txn'.ckpt
  BY <1>1, <1>3, StepPlaces DEF SavedAt
<1>6. pc' \in Rewriting \cup {"rollback", "verify", "reinstate"} /\ job' \in {"apply", "rollback"}
          => ~Committed(txn)'
  BY <1>1, <1>3, StepPlaces DEF SavedAt
<1>7. pc' \in RestorePcs \ {"rUnrecord"} \/ (pc' \in Undoing /\ op' = "restore") => ckpt' = txn'.ckpt
  BY <1>1, <1>2, <1>3 DEF SavedAt
<1> QED
  BY <1>1, <1>4, <1>5, <1>6, <1>7, StepPlaces DEF SavedAt

(* Files are swapped in the order of their paths.                          *)
LEMMA StepOrdered ==
    ASSUME Inv, Content, NEW p \in Paths, ApplyStep(p) \/ RestoreStep(p) \/ RecoveryStep(p)
    PROVE  Ordered'
<1>1. /\ Files' = Files /\ Files \subseteq Paths /\ p \in Files /\ p \in todo /\ todo \subseteq Files
  BY StepFacts
<1>2. pc' \in Swaps => /\ pc \in Swaps /\ First(p)
                       /\ todo' = todo \/ todo' = todo \ {p}
  <2> USE DEF Goto, Step, Loop, Visited, Revisit, Swaps, Swapping, Putting
  <2>1. CASE ApplyStep(p)
    BY <2>1 DEF ApplyStep, PrepareOpen, PrepareText, PrepareDeletion, PrepareRefused, PrepareFails, ReplaceVerify, ReplaceAside, ReplaceFails, ReplacePut, ReplacePutFails, UndoRemove, UndoPut, UndoFails, Cleanup, CleanupFails
  <2>2. CASE RestoreStep(p)
    BY <2>2 DEF RestoreStep, RestorePrepareOpen, RestorePrepareText, RestorePrepareCreation, RestorePrepareFails, RestoreVerify, RestoreAside, RestoreFails, RestorePut, RestorePutFails, RestoreCleanup, RestoreSweep
  <2>3. CASE RecoveryStep(p)
    BY <2>3 DEF RecoveryStep, Sweep, RewriteOpen, RewriteText, RewriteClear, RewritePut, RewriteKeep, RewriteCreation, RewriteSweep
  <2> QED
    BY <2>1, <2>2, <2>3
<1> SUFFICES ASSUME pc' \in Swaps, NEW q \in Files \ todo', NEW r \in todo'
             PROVE  q < r
  BY <1>1 DEF Ordered
<1>3. CASE q \notin todo
  BY <1>1, <1>2, <1>3 DEF Content, Ordered
<1>4. CASE q \in todo
  <2>1. q = p /\ r \in todo /\ r # p
    BY <1>2, <1>4
  <2> QED
    BY <1>1, <1>2, <2>1 DEF First, Paths
<1> QED
  BY <1>3, <1>4

(* Only a call that fails leads to an undo.                                *)
LEMMA StepSpent ==
    ASSUME OneFault, Inv, Content, NEW p \in Paths, ApplyStep(p) \/ RestoreStep(p) \/ RecoveryStep(p)
    PROVE  Spent'
<1>1. /\ p \in Files /\ ContentAt(p) /\ op' = op /\ job' = job
      /\ faults \in Nat /\ Spent /\ p \in todo
      /\ pc \in ApplyPcs \ Undoing => op = "apply"
      /\ pc \in RestorePcs => op = "restore"
  BY StepFacts DEF Inv, IInv, TypeOK, BoundsTypeOK, Content, Tracked, Undoing
<1>2. Fault => faults' # 0
  BY <1>1 DEF Fault
<1>3. faults # 0 => faults' # 0
  BY StepFacts DEF Local
<1>4. /\ pc' = "rAbandon" => pc = "rAbandon"
      /\ pc' \in Undoing \cup {"rCleanup"} /\ pc \notin Undoing \cup {"rCleanup"} =>
            \/ ReplaceFails(p) \/ ReplacePutFails(p)
            \/ RestoreFails(p) \/ RestorePutFails(p) \/ RestorePrepareFails(p)
  <2> USE DEF Goto, Step, Loop, Visited, Revisit, Undoing
  <2>1. CASE ApplyStep(p)
    BY <2>1 DEF ApplyStep, PrepareOpen, PrepareText, PrepareDeletion, PrepareRefused, PrepareFails, ReplaceVerify, ReplaceAside, ReplaceFails, ReplacePut, ReplacePutFails, UndoRemove, UndoPut, UndoFails, Cleanup, CleanupFails
  <2>2. CASE RestoreStep(p)
    BY <2>2 DEF RestoreStep, RestorePrepareOpen, RestorePrepareText, RestorePrepareCreation, RestorePrepareFails, RestoreVerify, RestoreAside, RestoreFails, RestorePut, RestorePutFails, RestoreCleanup, RestoreSweep
  <2>3. CASE RecoveryStep(p)
    BY <2>3 DEF RecoveryStep, Sweep, RewriteOpen, RewriteText, RewriteClear, RewritePut, RewriteKeep, RewriteCreation, RewriteSweep
  <2> QED
    BY <2>1, <2>2, <2>3
<1>5. CASE ReplaceFails(p) \/ ReplacePutFails(p)
  <2>1. op = "apply"
    BY <1>1, <1>5 DEF ReplaceFails, ReplacePutFails, ApplyPcs, Undoing
  <2>2. Fault
    BY <1>1, <1>5, <2>1 DEF ReplaceFails, ReplacePutFails, ContentAt, SwappedAt, Swaps, Swapping, Putting,
       Old, New
  <2> QED
    BY <1>2, <2>2 DEF Spent
<1>6. CASE RestoreFails(p) \/ RestorePutFails(p) \/ RestorePrepareFails(p)
  <2>1. op = "restore"
    BY <1>1, <1>6 DEF RestoreFails, RestorePutFails, RestorePrepareFails, RestorePcs
  <2>2. Fault
    BY <1>1, <1>6, <2>1 DEF RestoreFails, RestorePutFails, RestorePrepareFails, ContentAt, PreparedAt,
       SwappedAt, Preparing, Swaps, Swapping, Putting, Old, New
  <2> QED
    BY <1>2, <2>2 DEF Spent
<1>7. CASE ~(\/ ReplaceFails(p) \/ ReplacePutFails(p) \/ RestoreFails(p) \/ RestorePutFails(p)
             \/ RestorePrepareFails(p))
  BY <1>1, <1>3, <1>4, <1>7 DEF Spent
<1> QED
  BY <1>5, <1>6, <1>7

(* An apply that moves the text of a file is not committed.                *)
LEMMA MovingUncommitted ==
    ASSUME Inv, Content, ~Unplanned, pc \in Swaps \cup Undoing \cup Rewriting, applyRec # None
    PROVE  applyRec = txn /\ ~Committed(txn) /\ ckpt # txn.ckpt
<1>1. pc \notin Unrecorded
  BY DEF Swaps, Swapping, Putting, Undoing, Rewriting, Unrecorded
<1>2. /\ applyRec = txn /\ ~(job = "restore" \/ (job = "none" /\ op = "restore"))
      /\ txn \in Transaction /\ txn # None
  BY <1>1, RecordKnown
<1>3. SoundApply(txn) /\ (Committed(txn) <=> ckpt = txn.ckpt)
  BY <1>2, RunningSound DEF Content
<1>4. CASE pc \in Rewriting
  <2>1. job \in {"apply", "rollback"}
    BY <1>2, <1>4 DEF Inv, IInv, TypeOK, ControlTypeOK, Jobs, Content, SavedAt, Tracked, Rewriting,
       RecoveryPcs
  <2> QED
    BY <1>2, <1>3, <1>4, <2>1 DEF Content, SavedAt
<1>5. CASE pc \in Swaps \cup Undoing
  <2>1. job = "none" /\ op = "apply"
    BY <1>2, <1>5 DEF Inv, Tracked, Swaps, Swapping, Putting, Undoing, RecoveryPcs, ApplyPcs,
       RestorePcs
  <2>2. pc \in Uncommitted \/ pc \in Undoing
    BY <1>5, <2>1 DEF Swaps, Swapping, Putting, Uncommitted, Inv, Tracked, RestorePcs
  <2>3. ckpt = txn.prev
    BY <2>1, <2>2 DEF Content, SavedAt
  <2>4. txn.ckpt.id \in Nat /\ txn.ckpt # None
    BY <1>2, TransactionParts, CheckpointParts, NoneAssumption DEF Ids
  <2> QED
    BY <1>2, <1>3, <2>3, <2>4 DEF SoundApply
<1> QED
  BY <1>4, <1>5

(* The records stay sound when the text of one file moves.                 *)
LEMMA StepSound ==
    ASSUME Inv, Content, NEW p \in Paths, ApplyStep(p) \/ RestoreStep(p) \/ RecoveryStep(p), Moved(p)
    PROVE  SoundRecords'
<1>1. /\ UNCHANGED <<ckpt, applyRec, restoreRec, txn, nextId>> /\ p \in Files /\ ~Unplanned
      /\ pc \notin Unrecorded /\ \A q \in Paths : q # p => target'[q] = target[q]
      /\ txn \in Transaction /\ txn # None /\ Files \subseteq Paths
      /\ SoundRecords /\ edits' = edits
  BY StepFacts, StepEdits, Running, NoneAssumption DEF Local, store, Unlooped, Content
<1>2. target'[p] \in {txn.ckpt.original[p], txn.ckpt.applied[p], Absent}
  BY DEF Moved, Original, Applied
<1>3. \/ applyRec = txn /\ restoreRec = None
      \/ restoreRec = txn /\ applyRec = None
  BY <1>1, RecordKnown
<1>4. Placed(txn)'
  <2>1. Placed(txn)
    BY <1>1, RunningSound
  <2> QED
    BY <1>1, <1>2, <2>1 DEF Placed, Files
<1>5. ASSUME applyRec = txn PROVE SoundApply(applyRec)'
  <2>1. SoundApply(txn)
    BY <1>1, <1>5 DEF SoundRecords
  <2>2. ckpt = txn.ckpt => target'[p] = target[p]
    BY <1>1, <1>5, MovingUncommitted DEF Moved
  <2>3. ckpt' = txn.ckpt => \A q \in Files : target'[q] = txn.ckpt.applied[q]
    BY <1>1, <2>1, <2>2 DEF SoundApply, Files, Known
  <2>4. edits = 0 /\ txn.prev # None => \A q \in txn.prev.files :
          txn.prev.applied[q] = IF q \in Files THEN txn.ckpt.original[q] ELSE target'[q]
    <3> SUFFICES ASSUME edits = 0, txn.prev # None, NEW q \in txn.prev.files
                 PROVE  txn.prev.applied[q] = IF q \in Files THEN txn.ckpt.original[q] ELSE target'[q]
      OBVIOUS
    <3>1. q \in Paths
      BY <1>1, TransactionParts, CheckpointParts
    <3> QED
      BY <1>1, <2>1, <3>1 DEF SoundApply, Files
  <2> QED
    BY <1>1, <1>4, <1>5, <2>1, <2>3, <2>4 DEF SoundApply, Files, Placed
<1>6. ASSUME restoreRec = txn PROVE SoundRestore(restoreRec)'
  BY <1>1, <1>4, <1>6 DEF SoundRecords, SoundRestore, Placed
<1>7. pc' \notin {"planned", "rPlanned"} /\ ~NoRecord'
  BY <1>1, <1>3, StepPlaces DEF NoRecord
<1> QED
  BY <1>1, <1>3, <1>5, <1>6, <1>7 DEF SoundRecords, NoRecord

(* What is staged fits the files still.                                    *)
LEMMA StepStable ==
    ASSUME Inv, Content, NEW p \in Paths, ApplyStep(p) \/ RestoreStep(p) \/ RecoveryStep(p), Moved(p)
    PROVE  Stable'
<1>1. /\ UNCHANGED <<session, staged, ckpt, applyRec, restoreRec, txn, op, job>>
      /\ p \in Files /\ ~Unplanned /\ ~Unplanned' /\ Files' = Files /\ Files \subseteq Paths
      /\ \A q \in Paths : q # p => target'[q] = target[q]
      /\ \A q \in Files : Original(q)' = Original(q) /\ Applied(q)' = Applied(q)
      /\ Stable /\ staged \in Stages /\ edits' = edits
  BY StepFacts, StepEdits DEF Local, store, stage, Content, Inv, IInv, TypeOK, StageTypeOK
<1>2. pc' \in RestorePcs \/ (pc' \in Undoing /\ op' = "restore") => staged = NothingStaged
  <2>1. pc \in Uncommitted => op = "apply"
    BY DEF Inv, Tracked, Uncommitted, ApplyPcs
  <2> QED
    BY <1>1, <2>1, StepPlaces DEF Stable
<1>3. Works' => \A q \in Paths : staged'[q] # None =>
          IF q \in Files' THEN staged'[q].base = Original(q)' /\ staged'[q].content = Applied(q)'
          ELSE staged'[q].base = Absent /\ staged'[q].content = Absent /\ target'[q] = Absent
  BY <1>1 DEF Stable, Works
<1>4. ASSUME Resting', ~session PROVE AllBase'
  BY <1>1, <1>4 DEF Stable, AllBase, NothingStaged
<1>5. ASSUME Resting', session PROVE (AllBase' \/ AllContent') /\ Quiet'
  <2>1. Resting
    BY <1>1, <1>5 DEF Resting
  <2>2. edits = 0 => \A q \in Paths : target'[q] = target[q]
    BY <1>1, <1>5, <2>1 DEF Resting, Moved
  <2>3. AllBase \/ AllContent
    BY <1>5, <2>1, <1>1 DEF Stable
  <2>4. AllBase' \/ AllContent'
    BY <1>1, <2>2, <2>3 DEF AllBase, AllContent
  <2>5. /\ applyRec # None => applyRec.ckpt.files \subseteq Paths
        /\ restoreRec # None => restoreRec.ckpt.files \subseteq Paths
    BY TransactionParts DEF Inv, IInv, TypeOK, StoreTypeOK
  <2>6. Quiet
    BY <1>1, <1>5, <2>1 DEF Stable
  <2> QED
    BY <1>1, <2>2, <2>4, <2>5, <2>6 DEF Quiet, Committed
<1>6. ASSUME edits = 0, session, job \in {"apply", "restore"}
      PROVE  pc' \notin {"rewriteText", "rewriteClear", "rewritePut"}
  <2>1. pc \notin {"rewriteText", "rewriteClear", "rewritePut"}
    BY <1>1, <1>6 DEF Stable
  <2>2. ~RewriteOpen(p)
    BY <1>1, <1>6, QuietTarget DEF RewriteOpen, Rewriting
  <2> USE DEF Goto, Step, Loop, Visited, Revisit
  <2>3. ApplyStep(p) => pc' \notin {"rewriteText", "rewriteClear", "rewritePut"}
    BY DEF ApplyStep, PrepareOpen, PrepareText, PrepareDeletion, PrepareRefused, PrepareFails, ReplaceVerify, ReplaceAside, ReplaceFails, ReplacePut, ReplacePutFails, UndoRemove, UndoPut, UndoFails, Cleanup, CleanupFails
  <2>4. RestoreStep(p) => pc' \notin {"rewriteText", "rewriteClear", "rewritePut"}
    BY DEF RestoreStep, RestorePrepareOpen, RestorePrepareText, RestorePrepareCreation, RestorePrepareFails, RestoreVerify, RestoreAside, RestoreFails, RestorePut, RestorePutFails, RestoreCleanup, RestoreSweep
  <2>5. RecoveryStep(p) => pc' \notin {"rewriteText", "rewriteClear", "rewritePut"}
    BY <2>1, <2>2 DEF RecoveryStep, Sweep, RewriteOpen, RewriteText, RewriteClear, RewritePut, RewriteKeep, RewriteCreation, RewriteSweep
  <2> QED
    BY <2>3, <2>4, <2>5
<1>7. ~session' => staged' = NothingStaged
  BY <1>1 DEF Stable
<1> QED
  BY <1>1, <1>2, <1>3, <1>4, <1>5, <1>6, <1>7 DEF Stable

(* No step on one file leaves half a text in it.                           *)
LEMMA StepWhole ==
    ASSUME Inv, Content, NEW p \in Paths, ApplyStep(p) \/ RestoreStep(p) \/ RecoveryStep(p), Moved(p)
    PROVE  Whole'
<1>1. /\ UNCHANGED <<ckpt, applyRec, restoreRec, txn, staged>> /\ p \in Files /\ Files \subseteq Paths
      /\ ~Unplanned /\ \A q \in Paths : q # p => target'[q] = target[q]
  BY StepFacts DEF Local, store, stage
<1>2. target'[p] \in Texts
  BY <1>1, WholeTexts DEF Moved, Texts
<1> QED
  BY <1>1, <1>2 DEF Content, Whole, WholeTransaction, WholeCheckpoint

LEMMA StepContent ==
    ASSUME OneFault, Inv, Content, NEW p \in Paths, ApplyStep(p) \/ RestoreStep(p) \/ RecoveryStep(p)
    PROVE  Content'
<1>1. Contents' /\ Moved(p)
  BY ApplyStepContents, RestoreStepContents, RecoveryStepContents
<1> QED
  BY <1>1, StepSaved, StepOrdered, StepSpent, StepSound, StepStable, StepWhole DEF Content

-----------------------------------------------------------------------------
(* The steps between two loops change no file of the transaction.          *)
LEMMA RunsOnFacts ==
    ASSUME Inv, Content, RunsOn
    PROVE  /\ UNCHANGED <<target, temp, backup, session, staged, memory, txn, op, nextId>>
           /\ ~Unplanned /\ ~Unplanned' /\ Files' = Files /\ Files \subseteq Paths
           /\ txn \in Transaction /\ txn # None
           /\ faults \in Nat /\ (faults # 0 => faults' # 0)
           /\ job' = job \/ (CommitFails /\ job = "none" /\ job' = "rollback")
           /\ edits' = edits
           /\ \A q \in Files : /\ Original(q)' = Original(q) /\ Applied(q)' = Applied(q)
                               /\ Old(q)' = Old(q) /\ New(q)' = New(q)
                               /\ Temp(q)' = Temp(q) /\ Backup(q)' = Backup(q) /\ target'[q] = target[q]
                               /\ ContentAt(q)
<1> USE DEF Goto, Step, Loop, disk, stage
<1>0. faults \in Nat /\ Tracked
  BY DEF Inv, IInv, TypeOK, BoundsTypeOK
<1>1. /\ UNCHANGED <<target, temp, backup, session, staged, memory, txn, op>>
      /\ ~Unplanned /\ ~Unplanned'
  BY DEF RunsOn, Unplanned, PersistApply, MakeDirectory, MakeDirectoryFails, PrepareDone, ReplaceDone, UndoDone,
     CleanupDone, CommitDropPrevious, CommitSave, CommitFails, PersistRestore,
     RestorePrepareDone, RestoreReplaced, RestoreCleanupDone, RestoreSwept, RestoreConsume,
     RollbackStart, SavedCheck, SweepDone, RewriteDone, VerifyDone, Reinstate, Consume
<1>2. UNCHANGED <<nextId, edits>> /\ (faults # 0 => faults' # 0)
  BY <1>0 DEF RunsOn, bounds, Fault, PersistApply, MakeDirectory, MakeDirectoryFails, PrepareDone, ReplaceDone, UndoDone,
     CleanupDone, CommitDropPrevious, CommitSave, CommitFails, PersistRestore,
     RestorePrepareDone, RestoreReplaced, RestoreCleanupDone, RestoreSwept, RestoreConsume,
     RollbackStart, SavedCheck, SweepDone, RewriteDone, VerifyDone, Reinstate, Consume
<1>3. job' = job \/ (CommitFails /\ job = "none" /\ job' = "rollback")
  <2>1. CASE CommitFails
    BY <1>0, <2>1 DEF CommitFails, Tracked, RecoveryPcs
  <2>2. CASE ~CommitFails
    BY <2>2 DEF RunsOn, PersistApply, MakeDirectory, MakeDirectoryFails, PrepareDone, ReplaceDone, UndoDone,
     CleanupDone, CommitDropPrevious, CommitSave, CommitFails, PersistRestore,
     RestorePrepareDone, RestoreReplaced, RestoreCleanupDone, RestoreSwept, RestoreConsume,
     RollbackStart, SavedCheck, SweepDone, RewriteDone, VerifyDone, Reinstate, Consume
  <2> QED
    BY <2>1, <2>2
<1>4. Files' = Files /\ Files \subseteq Paths /\ txn \in Transaction /\ txn # None
  BY <1>1, Running, NoneAssumption DEF Files
<1>5. ASSUME NEW q \in Files
      PROVE  /\ Original(q)' = Original(q) /\ Applied(q)' = Applied(q)
             /\ Old(q)' = Old(q) /\ New(q)' = New(q)
             /\ Temp(q)' = Temp(q) /\ Backup(q)' = Backup(q) /\ target'[q] = target[q]
             /\ ContentAt(q)
  BY <1>1 DEF Original, Applied, Old, New, Temp, Backup, Content, Contents
<1> QED
  BY <1>0, <1>1, <1>2, <1>3, <1>4, <1>5

(* Each loop starts from what the one before it has done.                  *)
LEMMA RunsOnContents ==
    ASSUME Inv, Content, RunsOn
    PROVE  Contents'
<1>a. /\ txn' = txn /\ op' = op /\ Files' = Files
      /\ job' = job \/ CommitFails
      /\ \A q \in Files : /\ Original(q)' = Original(q) /\ Applied(q)' = Applied(q)
                          /\ Old(q)' = Old(q) /\ New(q)' = New(q)
                          /\ Temp(q)' = Temp(q) /\ Backup(q)' = Backup(q) /\ target'[q] = target[q]
                          /\ ContentAt(q)
  BY RunsOnFacts
<1>b. /\ pc = "replace" => op = "apply"
      /\ pc = "rReplace" => op = "restore"
      /\ pc = "sweep" => job \in {"none", "apply"} /\ ckpt = txn.ckpt /\ Committed(txn)
  <2>1. /\ pc = "replace" => op = "apply"
        /\ pc = "rReplace" => op = "restore"
        /\ pc = "sweep" => job \in {"none", "apply"} /\ ckpt = txn.ckpt
    BY DEF Inv, Tracked, ApplyPcs, RestorePcs, Undoing, Content, SavedAt
  <2>2. txn.ckpt # None
    BY RunsOnFacts, TransactionParts, NoneAssumption
  <2> QED
    BY <2>1, <2>2 DEF Committed
<1> SUFFICES ASSUME NEW q \in Files PROVE ContentAt(q)'
  BY <1>a DEF Contents
<1>c. /\ Original(q)' = Original(q) /\ Applied(q)' = Applied(q)
      /\ Old(q)' = Old(q) /\ New(q)' = New(q)
      /\ Temp(q)' = Temp(q) /\ Backup(q)' = Backup(q) /\ target'[q] = target[q]
      /\ ContentAt(q)
  BY <1>a
<1> USE DEF Goto, Step, Loop
<1>1. CASE PersistApply
  <2>1. pc = "planned" /\ pc' = "mkdir"
    BY <1>1, <1>a DEF PersistApply
  <2> QED
    BY <1>a, <1>b, <1>c, <2>1 DEF Old, New, ContentAt, PreparedAt, SwappedAt, UndoneAt, RewrittenAt, Opening, Preparing,
     Putting, Swaps, Swapping, Undoing, Undone, Swapped, Restored, Rewriting
<1>2. CASE MakeDirectory
  <2>1. pc = "mkdir" /\ pc' = "prepare" /\ todo' = Files
    BY <1>2, <1>a DEF MakeDirectory
  <2> QED
    BY <1>a, <1>b, <1>c, <2>1 DEF Old, New, ContentAt, PreparedAt, SwappedAt, UndoneAt, RewrittenAt, Opening, Preparing,
     Putting, Swaps, Swapping, Undoing, Undone, Swapped, Restored, Rewriting
<1>3. CASE MakeDirectoryFails
  <2>1. pc = "mkdir" /\ pc' = "abandon"
    BY <1>3, <1>a DEF MakeDirectoryFails
  <2> QED
    BY <1>a, <1>b, <1>c, <2>1 DEF Old, New, ContentAt, PreparedAt, SwappedAt, UndoneAt, RewrittenAt, Opening, Preparing,
     Putting, Swaps, Swapping, Undoing, Undone, Swapped, Restored, Rewriting
<1>4. CASE PrepareDone
  <2>1. pc = "prepare" /\ todo = {} /\ pc' = "replace" /\ todo' = Files
    BY <1>4, <1>a DEF PrepareDone
  <2> QED
    BY <1>a, <1>b, <1>c, <2>1 DEF Old, New, ContentAt, PreparedAt, SwappedAt, UndoneAt, RewrittenAt, Opening, Preparing,
     Putting, Swaps, Swapping, Undoing, Undone, Swapped, Restored, Rewriting
<1>5. CASE ReplaceDone
  <2>1. pc = "replace" /\ todo = {} /\ pc' = "commit"
    BY <1>5, <1>a DEF ReplaceDone
  <2> QED
    BY <1>a, <1>b, <1>c, <2>1 DEF Old, New, ContentAt, PreparedAt, SwappedAt, UndoneAt, RewrittenAt, Opening, Preparing,
     Putting, Swaps, Swapping, Undoing, Undone, Swapped, Restored, Rewriting
<1>6. CASE UndoDone
  <2>1. pc = "undo" /\ todo = {} /\ pc' \in {"cleanup", "rCleanup"}
    BY <1>6, <1>a DEF UndoDone
  <2> QED
    BY <1>a, <1>b, <1>c, <2>1 DEF Old, New, ContentAt, PreparedAt, SwappedAt, UndoneAt, RewrittenAt, Opening, Preparing,
     Putting, Swaps, Swapping, Undoing, Undone, Swapped, Restored, Rewriting
<1>7. CASE CleanupDone
  <2>1. pc = "cleanup" /\ pc' = "abandon"
    BY <1>7, <1>a DEF CleanupDone
  <2> QED
    BY <1>a, <1>b, <1>c, <2>1 DEF Old, New, ContentAt, PreparedAt, SwappedAt, UndoneAt, RewrittenAt, Opening, Preparing,
     Putting, Swaps, Swapping, Undoing, Undone, Swapped, Restored, Rewriting
<1>8. CASE CommitDropPrevious
  <2>1. pc = "commit" /\ pc' = "save"
    BY <1>8, <1>a DEF CommitDropPrevious
  <2> QED
    BY <1>a, <1>b, <1>c, <2>1 DEF Old, New, ContentAt, PreparedAt, SwappedAt, UndoneAt, RewrittenAt, Opening, Preparing,
     Putting, Swaps, Swapping, Undoing, Undone, Swapped, Restored, Rewriting
<1>9. CASE CommitSave
  <2>1. pc = "save" /\ pc' = "saved"
    BY <1>9, <1>a DEF CommitSave
  <2> QED
    BY <1>a, <1>b, <1>c, <2>1 DEF Old, New, ContentAt, PreparedAt, SwappedAt, UndoneAt, RewrittenAt, Opening, Preparing,
     Putting, Swaps, Swapping, Undoing, Undone, Swapped, Restored, Rewriting
<1>10. CASE CommitFails
  <2>1. pc \in {"commit", "save"} /\ pc' = "rollback"
    BY <1>10, <1>a DEF CommitFails
  <2> QED
    BY <1>a, <1>b, <1>c, <2>1 DEF Old, New, ContentAt, PreparedAt, SwappedAt, UndoneAt, RewrittenAt, Opening, Preparing,
     Putting, Swaps, Swapping, Undoing, Undone, Swapped, Restored, Rewriting
<1>11. CASE PersistRestore
  <2>1. pc = "rPlanned" /\ pc' = "rPrepare" /\ todo' = Files
    BY <1>11, <1>a DEF PersistRestore
  <2> QED
    BY <1>a, <1>b, <1>c, <2>1 DEF Old, New, ContentAt, PreparedAt, SwappedAt, UndoneAt, RewrittenAt, Opening, Preparing,
     Putting, Swaps, Swapping, Undoing, Undone, Swapped, Restored, Rewriting
<1>12. CASE RestorePrepareDone
  <2>1. pc = "rPrepare" /\ todo = {} /\ pc' = "rReplace" /\ todo' = Files
    BY <1>12, <1>a DEF RestorePrepareDone
  <2> QED
    BY <1>a, <1>b, <1>c, <2>1 DEF Old, New, ContentAt, PreparedAt, SwappedAt, UndoneAt, RewrittenAt, Opening, Preparing,
     Putting, Swaps, Swapping, Undoing, Undone, Swapped, Restored, Rewriting
<1>13. CASE RestoreReplaced
  <2>1. pc = "rReplace" /\ todo = {} /\ pc' = "rSweep"
    BY <1>13, <1>a DEF RestoreReplaced
  <2> QED
    BY <1>a, <1>b, <1>c, <2>1 DEF Old, New, ContentAt, PreparedAt, SwappedAt, UndoneAt, RewrittenAt, Opening, Preparing,
     Putting, Swaps, Swapping, Undoing, Undone, Swapped, Restored, Rewriting
<1>14. CASE RestoreCleanupDone
  <2>1. pc = "rCleanup" /\ pc' = "rAbandon"
    BY <1>14, <1>a DEF RestoreCleanupDone
  <2> QED
    BY <1>a, <1>b, <1>c, <2>1 DEF Old, New, ContentAt, PreparedAt, SwappedAt, UndoneAt, RewrittenAt, Opening, Preparing,
     Putting, Swaps, Swapping, Undoing, Undone, Swapped, Restored, Rewriting
<1>15. CASE RestoreSwept
  <2>1. pc = "rSweep" /\ pc' = "rConsume"
    BY <1>15, <1>a DEF RestoreSwept
  <2> QED
    BY <1>a, <1>b, <1>c, <2>1 DEF Old, New, ContentAt, PreparedAt, SwappedAt, UndoneAt, RewrittenAt, Opening, Preparing,
     Putting, Swaps, Swapping, Undoing, Undone, Swapped, Restored, Rewriting
<1>16. CASE RestoreConsume
  <2>1. pc = "rConsume" /\ pc' = "rUnrecord"
    BY <1>16, <1>a DEF RestoreConsume
  <2> QED
    BY <1>a, <1>b, <1>c, <2>1 DEF Old, New, ContentAt, PreparedAt, SwappedAt, UndoneAt, RewrittenAt, Opening, Preparing,
     Putting, Swaps, Swapping, Undoing, Undone, Swapped, Restored, Rewriting
<1>17. CASE RollbackStart
  <2>1. pc = "rollback" /\ pc' = "rewrite" /\ todo' = Files
    BY <1>17, <1>a DEF RollbackStart
  <2> QED
    BY <1>a, <1>b, <1>c, <2>1 DEF Old, New, ContentAt, PreparedAt, SwappedAt, UndoneAt, RewrittenAt, Opening, Preparing,
     Putting, Swaps, Swapping, Undoing, Undone, Swapped, Restored, Rewriting
<1>18. CASE SavedCheck
  <2>1. pc = "saved" /\ pc' = "sweep"
    BY <1>18, <1>a DEF SavedCheck
  <2> QED
    BY <1>a, <1>b, <1>c, <2>1 DEF Old, New, ContentAt, PreparedAt, SwappedAt, UndoneAt, RewrittenAt, Opening, Preparing,
     Putting, Swaps, Swapping, Undoing, Undone, Swapped, Restored, Rewriting
<1>19. CASE SweepDone
  <2>1. pc = "sweep" /\ pc' = "unrecord" /\ job' = job /\ Committed(txn)' = Committed(txn)
    BY <1>19, <1>a DEF SweepDone, store, Committed
  <2> QED
    BY <1>a, <1>b, <1>c, <2>1 DEF Old, New, ContentAt, PreparedAt, SwappedAt, UndoneAt, RewrittenAt, Opening, Preparing,
     Putting, Swaps, Swapping, Undoing, Undone, Swapped, Restored, Rewriting
<1>20. CASE RewriteDone
  <2>1. pc = "rewrite" /\ todo = {} /\ pc' = "verify"
    BY <1>20, <1>a DEF RewriteDone
  <2> QED
    BY <1>a, <1>b, <1>c, <2>1 DEF Old, New, ContentAt, PreparedAt, SwappedAt, UndoneAt, RewrittenAt, Opening, Preparing,
     Putting, Swaps, Swapping, Undoing, Undone, Swapped, Restored, Rewriting
<1>21. CASE VerifyDone
  <2>1. pc = "verify" /\ pc' \in {"consume", "reinstate"}
    BY <1>21, <1>a DEF VerifyDone
  <2> QED
    BY <1>a, <1>b, <1>c, <2>1 DEF Old, New, ContentAt, PreparedAt, SwappedAt, UndoneAt, RewrittenAt, Opening, Preparing,
     Putting, Swaps, Swapping, Undoing, Undone, Swapped, Restored, Rewriting
<1>22. CASE Reinstate
  <2>1. pc = "reinstate" /\ pc' = "unrecord"
    BY <1>22, <1>a DEF Reinstate
  <2> QED
    BY <1>a, <1>b, <1>c, <2>1 DEF Old, New, ContentAt, PreparedAt, SwappedAt, UndoneAt, RewrittenAt, Opening, Preparing,
     Putting, Swaps, Swapping, Undoing, Undone, Swapped, Restored, Rewriting
<1>23. CASE Consume
  <2>1. pc = "consume" /\ pc' = "unrecord"
    BY <1>23, <1>a DEF Consume
  <2> QED
    BY <1>a, <1>b, <1>c, <2>1 DEF Old, New, ContentAt, PreparedAt, SwappedAt, UndoneAt, RewrittenAt, Opening, Preparing,
     Putting, Swaps, Swapping, Undoing, Undone, Swapped, Restored, Rewriting
<1> QED
  BY <1>1, <1>2, <1>3, <1>4, <1>5, <1>6, <1>7, <1>8, <1>9, <1>10, <1>11, <1>12, <1>13, <1>14, <1>15, <1>16, <1>17, <1>18, <1>19, <1>20, <1>21, <1>22, <1>23 DEF RunsOn

(* What an apply replaces is not what it saves.                            *)
LEMMA PreviousDiffers ==
    ASSUME NEW t \in Transaction, SoundApply(t)
    PROVE  t.prev # t.ckpt /\ t.ckpt # None
<1>1. /\ t.ckpt.id \in Nat /\ t.ckpt # None /\ t.ckpt.id = t.tid
      /\ t.prev # None => t.prev.id < t.tid
  BY TransactionParts, CheckpointParts, NoneAssumption DEF SoundApply, Ids
<1> QED
  BY <1>1

(* What an apply runs on, or a rollback: its record and its checkpoint.    *)
LEMMA ApplyRuns ==
    ASSUME Inv, Content, ~Unplanned, pc \notin Unrecorded,
           ~(job = "restore" \/ (job = "none" /\ op = "restore"))
    PROVE  /\ applyRec = txn /\ restoreRec = None /\ txn \in Transaction /\ txn # None
           /\ SoundApply(txn) /\ (Committed(txn) <=> ckpt = txn.ckpt)
           /\ txn.prev # txn.ckpt /\ txn.ckpt # None /\ txn.tid < nextId
           /\ nextId \in Nat /\ txn.tid \in Nat
           /\ txn.prev # None => txn.prev.id \in Nat
<1>1. applyRec = txn /\ restoreRec = None /\ txn \in Transaction /\ txn # None
  BY RecordKnown
<1>2. SoundApply(txn) /\ (Committed(txn) <=> ckpt = txn.ckpt)
  BY <1>1, RunningSound DEF Content
<1>3. txn.tid < nextId /\ nextId \in Nat /\ txn.tid \in Nat
  BY Running DEF Ids
<1>4. txn.prev # None => txn.prev.id \in Nat
  BY <1>1, TransactionParts, CheckpointParts DEF Ids
<1> QED
  BY <1>1, <1>2, <1>3, <1>4, PreviousDiffers

(* Where the steps between two loops are, and of which handler.            *)
LEMMA RunsOnPlaces ==
    ASSUME Inv, RunsOn
    PROVE  /\ pc \in Unrecorded => PersistApply \/ PersistRestore
           /\ \/ PersistApply \/ MakeDirectory \/ MakeDirectoryFails \/ PrepareDone \/ ReplaceDone
              \/ CleanupDone \/ CommitDropPrevious \/ CommitSave \/ CommitFails \/ SavedCheck
              => op = "apply" /\ job = "none"
           /\ \/ PersistRestore \/ RestorePrepareDone \/ RestoreReplaced \/ RestoreCleanupDone
              \/ RestoreSwept \/ RestoreConsume
              => op = "restore" /\ job = "none"
           /\ UndoDone => job = "none" /\ op \in {"apply", "restore"}
           /\ SweepDone => job \in {"none", "apply"}
           /\ RollbackStart => job = "rollback"
           /\ Reinstate => job \in {"apply", "rollback"}
           /\ Consume => job = "restore"
           /\ RewriteDone \/ VerifyDone => job # "none"
           /\ job \in Jobs
<1> USE DEF Goto, Step, Loop
<1>1. Tracked /\ job \in Jobs
  BY DEF Inv, IInv, TypeOK, ControlTypeOK
<1>2. pc \in Unrecorded => PersistApply \/ PersistRestore
  BY DEF Unrecorded, RunsOn, PersistApply, MakeDirectory, MakeDirectoryFails, PrepareDone, ReplaceDone, UndoDone,
     CleanupDone, CommitDropPrevious, CommitSave, CommitFails, PersistRestore,
     RestorePrepareDone, RestoreReplaced, RestoreCleanupDone, RestoreSwept, RestoreConsume,
     RollbackStart, SavedCheck, SweepDone, RewriteDone, VerifyDone, Reinstate, Consume
<1>3. \/ PersistApply \/ MakeDirectory \/ MakeDirectoryFails \/ PrepareDone \/ ReplaceDone
      \/ CleanupDone \/ CommitDropPrevious \/ CommitSave \/ CommitFails \/ SavedCheck
      => op = "apply" /\ job = "none"
  BY <1>1 DEF Tracked, ApplyPcs, RecoveryPcs, PersistApply, MakeDirectory, MakeDirectoryFails, PrepareDone,
     ReplaceDone, CleanupDone, CommitDropPrevious, CommitSave, CommitFails, SavedCheck
<1>4. \/ PersistRestore \/ RestorePrepareDone \/ RestoreReplaced \/ RestoreCleanupDone
      \/ RestoreSwept \/ RestoreConsume
      => op = "restore" /\ job = "none"
  BY <1>1 DEF Tracked, RestorePcs, RecoveryPcs, PersistRestore, RestorePrepareDone, RestoreReplaced,
     RestoreCleanupDone, RestoreSwept, RestoreConsume
<1>5. UndoDone => job = "none" /\ op \in {"apply", "restore"}
  BY <1>1 DEF Tracked, RecoveryPcs, UndoDone
<1>6. SweepDone => job \in {"none", "apply"}
  BY <1>1 DEF Tracked, RecoveryPcs, SweepDone, ApplyPcs
<1>7. /\ RollbackStart => job = "rollback"
      /\ Reinstate => job \in {"apply", "rollback"}
      /\ Consume => job = "restore"
      /\ RewriteDone \/ VerifyDone => job # "none"
  BY <1>1 DEF Tracked, RecoveryPcs, RollbackStart, Reinstate, Consume, RewriteDone, VerifyDone, Jobs
<1> QED
  BY <1>1, <1>2, <1>3, <1>4, <1>5, <1>6, <1>7

(* The checkpoint saved fits the place a step between two loops leads to.  *)
LEMMA RunsOnSaved ==
    ASSUME Inv, Content, RunsOn
    PROVE  SavedAt'
<1> USE DEF Goto, Step, Loop
<1>a. /\ UNCHANGED <<memory, txn, op>> /\ Files' = Files /\ ~Unplanned /\ SavedAt
  BY RunsOnFacts DEF Content
<1>1. CASE CommitDropPrevious
  <2>1. pc = "commit" /\ pc' = "save" /\ Files # {} /\ ckpt' = IF memory = None THEN ckpt ELSE None
    BY <1>1 DEF CommitDropPrevious
  <2>2. ckpt = txn.prev /\ memory = txn.prev
    BY <1>a, <2>1 DEF SavedAt, Uncommitted
  <2> QED
    BY <1>a, <2>1, <2>2 DEF SavedAt, Uncommitted, Undoing, Rewriting, RestorePcs
<1>2. CASE CommitSave
  <2>1. pc' = "saved" /\ ckpt' = txn.ckpt
    BY <1>2 DEF CommitSave
  <2> QED
    BY <1>a, <2>1 DEF SavedAt, Uncommitted, Undoing, Rewriting, RestorePcs
<1>3. CASE CommitFails
  <2>1. pc \in {"commit", "save"} /\ pc' = "rollback" /\ ckpt' = ckpt
    BY <1>3 DEF CommitFails, store
  <2>2. op = "apply" /\ job = "none"
    BY <1>3, RunsOnPlaces
  <2>3. txn.prev # txn.ckpt /\ txn.ckpt # None /\ (Committed(txn) <=> ckpt = txn.ckpt)
    BY <1>a, <2>1, <2>2, ApplyRuns DEF Unrecorded
  <2>4. ckpt \in {None, txn.prev}
    BY <1>a, <2>1 DEF SavedAt, Uncommitted
  <2>5. ~Committed(txn)'
    BY <1>a, <2>1, <2>3, <2>4 DEF Committed
  <2> QED
    BY <1>a, <2>1, <2>5 DEF SavedAt, Uncommitted, Undoing, Rewriting, RestorePcs
<1>4. CASE Reinstate
  <2>1. pc = "reinstate" /\ pc' = "unrecord" /\ ckpt' = IF ckpt = None THEN txn.prev ELSE ckpt
    BY <1>4 DEF Reinstate
  <2>2. job \in {"apply", "rollback"} /\ job' = job
    BY <1>4, RunsOnPlaces DEF Reinstate
  <2>3. txn.prev # txn.ckpt /\ SoundApply(txn) /\ (Committed(txn) <=> ckpt = txn.ckpt)
        /\ (txn.prev # None => txn.prev.id < txn.tid) /\ txn.ckpt.id = txn.tid
    BY <1>a, <2>1, <2>2, ApplyRuns DEF Unrecorded, SoundApply
  <2>4. ckpt \in {None, txn.prev}
    BY <1>a, <2>1, <2>2, <2>3 DEF SavedAt, SoundApply
  <2>5. ckpt' = txn.prev
    BY <2>1, <2>4
  <2>6. ~Committed(txn)'
    BY <1>a, <2>1, <2>2, <2>3, <2>5, ApplyRuns DEF Committed, Unrecorded
  <2> QED
    BY <1>a, <2>1, <2>2, <2>5, <2>6 DEF SavedAt, Uncommitted, Undoing, Rewriting, RestorePcs
<1>5. CASE RestoreConsume \/ Consume
  <2>1. ckpt' = None /\ \/ pc' = "rUnrecord"
                        \/ pc' = "unrecord" /\ job' = "restore"
    BY <1>5, RunsOnPlaces DEF RestoreConsume, Consume
  <2> QED
    BY <1>a, <2>1 DEF SavedAt, Uncommitted, Undoing, Rewriting, RestorePcs
<1>6. CASE ~(CommitDropPrevious \/ CommitSave \/ CommitFails \/ Reinstate \/ RestoreConsume \/ Consume)
  <2>1. ckpt' = ckpt /\ Committed(txn)' = Committed(txn) /\ job' = job
    <3>1. ckpt' = ckpt
      BY <1>6 DEF RunsOn, store, PersistApply, MakeDirectory, MakeDirectoryFails, PrepareDone, ReplaceDone, UndoDone,
     CleanupDone, CommitDropPrevious, CommitSave, CommitFails, PersistRestore,
     RestorePrepareDone, RestoreReplaced, RestoreCleanupDone, RestoreSwept, RestoreConsume,
     RollbackStart, SavedCheck, SweepDone, RewriteDone, VerifyDone, Reinstate, Consume
    <3> QED
      BY <1>6, <1>a, <3>1, RunsOnFacts DEF Committed
  <2>2. CASE SweepDone
    <3>1. pc = "sweep" /\ pc' = "unrecord" /\ ckpt = txn.ckpt /\ job \in {"none", "apply"}
      BY <1>a, <2>2, RunsOnPlaces DEF SweepDone, SavedAt
    <3>2. txn.ckpt # None
      BY RunsOnFacts, TransactionParts, NoneAssumption
    <3> QED
      BY <1>a, <2>1, <3>1, <3>2 DEF SavedAt, Uncommitted, Undoing, Rewriting, RestorePcs, Committed
  <2>3. CASE UndoDone
    <3>1. pc = "undo" /\ pc' = IF op = "apply" THEN "cleanup" ELSE "rCleanup"
      BY <2>3 DEF UndoDone
    <3>2. op \in {"apply", "restore"}
      BY <2>3, RunsOnPlaces
    <3> QED
      BY <1>a, <2>1, <3>1, <3>2 DEF SavedAt, Uncommitted, Undoing, Rewriting, RestorePcs
  <2>4. CASE \/ PersistApply \/ MakeDirectory \/ MakeDirectoryFails \/ PrepareDone \/ ReplaceDone \/ CleanupDone
    <3>1. pc \in Uncommitted /\ pc' \in Uncommitted
      BY <2>4 DEF Uncommitted, PersistApply, MakeDirectory, MakeDirectoryFails, PrepareDone, ReplaceDone,
         CleanupDone
    <3> QED
      BY <1>a, <2>1, <3>1 DEF SavedAt, Uncommitted, Undoing, Rewriting, RestorePcs
  <2>5. CASE \/ PersistRestore \/ RestorePrepareDone \/ RestoreReplaced \/ RestoreCleanupDone \/ RestoreSwept
    <3>1. pc \in RestorePcs \ {"rUnrecord"} /\ pc' \in RestorePcs \ {"rUnrecord"}
      BY <2>5 DEF RestorePcs, PersistRestore, RestorePrepareDone, RestoreReplaced, RestoreCleanupDone,
         RestoreSwept
    <3> QED
      BY <1>a, <2>1, <3>1 DEF SavedAt, Uncommitted, Undoing, Rewriting, RestorePcs
  <2>6. CASE RollbackStart \/ RewriteDone \/ VerifyDone
    <3>1. /\ pc \in Rewriting \cup {"rollback", "verify"}
          /\ pc' \in Rewriting \cup {"verify", "reinstate", "consume"}
      BY <2>6 DEF RollbackStart, RewriteDone, VerifyDone, Rewriting
    <3> QED
      BY <1>a, <2>1, <3>1 DEF SavedAt, Uncommitted, Undoing, Rewriting, RestorePcs
  <2>7. CASE SavedCheck
    <3>1. pc = "saved" /\ pc' = "sweep"
      BY <2>7 DEF SavedCheck
    <3> QED
      BY <1>a, <2>1, <3>1 DEF SavedAt, Uncommitted, Undoing, Rewriting, RestorePcs
  <2> QED
    BY <1>6, <2>2, <2>3, <2>4, <2>5, <2>6, <2>7 DEF RunsOn
<1> QED
  BY <1>1, <1>2, <1>3, <1>4, <1>5, <1>6

(* An undo or a rollback begins with a call that failed.                   *)
LEMMA RunsOnSpent ==
    ASSUME OneFault, Inv, Content, RunsOn
    PROVE  Spent' /\ Ordered'
<1> USE DEF Goto, Step, Loop
<1>1. Spent'
  <2>1. CASE CommitFails
    <3>1. pc \in {"commit", "save"} /\ SavedAt
      BY <2>1 DEF CommitFails, Content
    <3>2. ~(pc = "commit" /\ PreviousReplaced) /\ ~(pc = "save" /\ ckpt # None)
      BY <3>1 DEF SavedAt, PreviousReplaced, Uncommitted
    <3>3. Fault
      BY <2>1, <3>2 DEF CommitFails
    <3> QED
      BY <3>3, RunsOnFacts DEF Fault, Spent
  <2>2. CASE ~CommitFails
    <3>1. job' = job /\ Spent /\ (faults # 0 => faults' # 0)
      BY <2>2, RunsOnFacts DEF Content
    <3>2. pc' \in Undoing \cup {"rCleanup", "rAbandon"} => pc \in Undoing \cup {"rCleanup", "rAbandon"}
      BY <2>2 DEF Undoing, RunsOn, PersistApply, MakeDirectory, MakeDirectoryFails, PrepareDone, ReplaceDone, UndoDone,
     CleanupDone, CommitDropPrevious, CommitSave, CommitFails, PersistRestore,
     RestorePrepareDone, RestoreReplaced, RestoreCleanupDone, RestoreSwept, RestoreConsume,
     RollbackStart, SavedCheck, SweepDone, RewriteDone, VerifyDone, Reinstate, Consume
    <3> QED
      BY <3>1, <3>2 DEF Spent
  <2> QED
    BY <2>1, <2>2
<1>2. Ordered'
  <2>1. pc' \in Swaps => todo' = Files
    BY DEF Swaps, Swapping, Putting, RunsOn, PersistApply, MakeDirectory, MakeDirectoryFails, PrepareDone, ReplaceDone, UndoDone,
     CleanupDone, CommitDropPrevious, CommitSave, CommitFails, PersistRestore,
     RestorePrepareDone, RestoreReplaced, RestoreCleanupDone, RestoreSwept, RestoreConsume,
     RollbackStart, SavedCheck, SweepDone, RewriteDone, VerifyDone, Reinstate, Consume
  <2> QED
    BY <2>1, RunsOnFacts DEF Ordered
<1> QED
  BY <1>1, <1>2

(* What the steps between two loops write in the private records.          *)
LEMMA RunsOnStore ==
    ASSUME Inv, Content, RunsOn
    PROVE  /\ PersistApply => pc = "planned" /\ applyRec' = txn /\ restoreRec' = None /\ NoRecord
           /\ PersistRestore => pc = "rPlanned" /\ restoreRec' = txn /\ applyRec' = None /\ NoRecord
           /\ ~PersistApply /\ ~PersistRestore => pc \notin Unrecorded /\ UNCHANGED <<applyRec, restoreRec>>
           /\ \/ ckpt' = ckpt \/ CommitSave \/ Reinstate
              \/ ckpt' = None /\ (RestoreConsume \/ Consume \/ (CommitDropPrevious /\ Files # {}))
           /\ CommitSave => pc = "save" /\ ckpt' = txn.ckpt
           /\ Reinstate => pc = "reinstate" /\ ckpt' = IF ckpt = None THEN txn.prev ELSE ckpt
           /\ pc' \notin Unrecorded
<1> USE DEF Goto, Step, Loop, store
<1>1. PersistApply => pc = "planned" /\ applyRec' = txn /\ restoreRec' = restoreRec
  BY DEF PersistApply
<1>2. PersistRestore => pc = "rPlanned" /\ restoreRec' = txn /\ applyRec' = applyRec
  BY DEF PersistRestore
<1>3. pc \in Unrecorded => NoRecord
  BY DEF Inv, RecordsInv, Unrecorded
<1>4. ~PersistApply /\ ~PersistRestore => UNCHANGED <<applyRec, restoreRec>>
  BY DEF RunsOn, PersistApply, MakeDirectory, MakeDirectoryFails, PrepareDone, ReplaceDone, UndoDone,
     CleanupDone, CommitDropPrevious, CommitSave, CommitFails, PersistRestore,
     RestorePrepareDone, RestoreReplaced, RestoreCleanupDone, RestoreSwept, RestoreConsume,
     RollbackStart, SavedCheck, SweepDone, RewriteDone, VerifyDone, Reinstate, Consume
<1>5. \/ ckpt' = ckpt \/ CommitSave \/ Reinstate
      \/ ckpt' = None /\ (RestoreConsume \/ Consume \/ (CommitDropPrevious /\ Files # {}))
  BY DEF RunsOn, PersistApply, MakeDirectory, MakeDirectoryFails, PrepareDone, ReplaceDone, UndoDone,
     CleanupDone, CommitDropPrevious, CommitSave, CommitFails, PersistRestore,
     RestorePrepareDone, RestoreReplaced, RestoreCleanupDone, RestoreSwept, RestoreConsume,
     RollbackStart, SavedCheck, SweepDone, RewriteDone, VerifyDone, Reinstate, Consume
<1>6. /\ CommitSave => pc = "save" /\ ckpt' = txn.ckpt
      /\ Reinstate => pc = "reinstate" /\ ckpt' = IF ckpt = None THEN txn.prev ELSE ckpt
  BY DEF CommitSave, Reinstate
<1>7. pc' \notin Unrecorded
  BY DEF Unrecorded, RunsOn, PersistApply, MakeDirectory, MakeDirectoryFails, PrepareDone, ReplaceDone, UndoDone,
     CleanupDone, CommitDropPrevious, CommitSave, CommitFails, PersistRestore,
     RestorePrepareDone, RestoreReplaced, RestoreCleanupDone, RestoreSwept, RestoreConsume,
     RollbackStart, SavedCheck, SweepDone, RewriteDone, VerifyDone, Reinstate, Consume
<1> QED
  BY <1>1, <1>2, <1>3, <1>4, <1>5, <1>6, <1>7, RunsOnPlaces DEF NoRecord, Unrecorded

(* The records are sound after a step between two loops.                   *)
LEMMA RunsOnSound ==
    ASSUME Inv, Content, RunsOn
    PROVE  SoundRecords'
<1>a. /\ UNCHANGED <<txn, nextId, target, edits>> /\ ~Unplanned /\ Files \subseteq Paths /\ Known
      /\ txn \in Transaction /\ txn # None /\ pc' \notin {"planned", "rPlanned"}
      /\ SoundRecords /\ SavedAt /\ \A q \in Files : ContentAt(q)
  BY RunsOnFacts, RunsOnStore DEF Content, Unrecorded, Known
<1>1. CASE PersistApply
  <2>1. pc = "planned" /\ applyRec' = txn /\ restoreRec' = None /\ NoRecord /\ ckpt' = ckpt
    BY <1>1, RunsOnStore DEF PersistApply
  <2>2. SoundApply(txn)
    BY <1>a, <2>1 DEF SoundRecords
  <2>3. SoundApply(applyRec)'
    BY <1>a, <2>1, <2>2 DEF SoundApply, Placed
  <2> QED
    BY <1>a, <2>1, <2>3 DEF SoundRecords, NoRecord
<1>2. CASE PersistRestore
  <2>1. pc = "rPlanned" /\ restoreRec' = txn /\ applyRec' = None /\ NoRecord /\ ckpt' = ckpt
    BY <1>2, RunsOnStore DEF PersistRestore
  <2>2. SoundRestore(txn)
    BY <1>a, <2>1 DEF SoundRecords
  <2>3. SoundRestore(restoreRec)'
    BY <1>a, <2>1, <2>2 DEF SoundRestore, Placed
  <2> QED
    BY <1>a, <2>1, <2>3 DEF SoundRecords, NoRecord
<1>3. CASE ~PersistApply /\ ~PersistRestore
  <2>1. pc \notin Unrecorded /\ UNCHANGED <<applyRec, restoreRec>>
    BY <1>3, RunsOnStore
  <2>2. CASE job = "restore" \/ (job = "none" /\ op = "restore")
    <3>1. restoreRec = txn /\ applyRec = None
      BY <1>a, <2>1, <2>2, RecordKnown
    <3>2. ~CommitSave /\ ~Reinstate
      BY <2>2, RunsOnPlaces
    <3>3. ckpt' \in {None, ckpt}
      BY <3>2, RunsOnStore
    <3>4. SoundRestore(restoreRec)
      BY <1>a, <3>1 DEF SoundRecords
    <3>5. SoundRestore(restoreRec)'
      BY <1>a, <2>1, <3>3, <3>4 DEF SoundRestore, Placed
    <3> QED
      BY <1>a, <2>1, <3>1, <3>3, <3>5 DEF SoundRecords, NoRecord
  <2>3. CASE ~(job = "restore" \/ (job = "none" /\ op = "restore"))
    <3>1. /\ applyRec = txn /\ restoreRec = None /\ SoundApply(txn)
          /\ txn.prev # txn.ckpt /\ txn.ckpt # None /\ txn.tid < nextId
          /\ nextId \in Nat /\ txn.tid \in Nat /\ (txn.prev # None => txn.prev.id \in Nat)
      BY <1>a, <2>1, <2>3, ApplyRuns
    <3>2. ~RestoreConsume /\ ~Consume
      BY <2>3, RunsOnPlaces
    <3>3. ckpt' \in {None, txn.prev, txn.ckpt} /\ (txn.ckpt.files = {} => ckpt' = txn.prev)
      <4>1. CASE CommitSave
        BY <1>a, <4>1, RunsOnStore DEF SavedAt, Files
      <4>2. CASE Reinstate
        BY <3>1, <4>2, RunsOnStore DEF SoundApply
      <4>3. CASE ~CommitSave /\ ~Reinstate
        BY <3>1, <3>2, <4>3, RunsOnStore DEF SoundApply, Files
      <4> QED
        BY <4>1, <4>2, <4>3
    <3>4. ckpt' = txn.ckpt => \A q \in Files : target[q] = txn.ckpt.applied[q]
      <4>1. CASE CommitSave
        BY <1>a, <4>1, RunsOnStore DEF ContentAt, SwappedAt, Swapped, Applied
      <4>2. CASE ~CommitSave
        BY <1>a, <3>1, <4>2, RunsOnStore DEF SoundApply, Files, Known
      <4> QED
        BY <4>1, <4>2
    <3>5. SoundApply(applyRec)'
      BY <1>a, <2>1, <3>1, <3>3, <3>4 DEF SoundApply, Placed, Files
    <3>6. ckpt' # None => ckpt'.id < nextId'
      BY <1>a, <3>1, <3>3 DEF SoundApply
    <3> QED
      BY <1>a, <2>1, <3>1, <3>5, <3>6 DEF SoundRecords, NoRecord
  <2> QED
    BY <2>2, <2>3
<1> QED
  BY <1>1, <1>2, <1>3

(* What is staged fits the files after a step between two loops.           *)
LEMMA RunsOnStable ==
    ASSUME Inv, Content, RunsOn
    PROVE  Stable'
<1>a. /\ UNCHANGED <<txn, target, session, staged, op, edits>> /\ ~Unplanned /\ ~Unplanned'
      /\ Files' = Files /\ Files \subseteq Paths
      /\ \A q \in Files : Original(q)' = Original(q) /\ Applied(q)' = Applied(q)
      /\ job' = job \/ (job = "none" /\ job' = "rollback")
      /\ Stable /\ SavedAt
  BY RunsOnFacts DEF Content
<1>1. pc' \in RestorePcs \/ (pc' \in Undoing /\ op' = "restore") => staged' = NothingStaged
  <2>1. /\ pc' \notin Undoing
        /\ pc' \in RestorePcs => pc \in RestorePcs \/ (UndoDone /\ op # "apply")
    BY DEF Goto, Step, Loop, Undoing, RestorePcs, RunsOn, PersistApply, MakeDirectory, MakeDirectoryFails, PrepareDone, ReplaceDone, UndoDone,
     CleanupDone, CommitDropPrevious, CommitSave, CommitFails, PersistRestore,
     RestorePrepareDone, RestoreReplaced, RestoreCleanupDone, RestoreSwept, RestoreConsume,
     RollbackStart, SavedCheck, SweepDone, RewriteDone, VerifyDone, Reinstate, Consume
  <2>2. UndoDone /\ op # "apply" => pc \in Undoing /\ op = "restore"
    BY RunsOnPlaces DEF UndoDone, Undoing
  <2> QED
    BY <1>a, <2>1, <2>2 DEF Stable
<1>2. Works' => \A q \in Paths : staged'[q] # None =>
          IF q \in Files' THEN staged'[q].base = Original(q)' /\ staged'[q].content = Applied(q)'
          ELSE staged'[q].base = Absent /\ staged'[q].content = Absent /\ target'[q] = Absent
  BY <1>a DEF Stable, Works
<1>3. ASSUME Resting' PROVE /\ AllBase' \/ AllContent'
                            /\ session' => Quiet'
  <2>1. job' = job /\ job \in {"apply", "restore"} /\ Resting
    BY <1>a, <1>3 DEF Resting
  <2>2. (AllBase \/ AllContent) /\ (session => Quiet)
    BY <1>a, <2>1 DEF Stable
  <2>3. AllBase' \/ AllContent'
    BY <1>a, <2>2 DEF AllBase, AllContent
  <2>4. ~PersistApply /\ ~PersistRestore /\ ~CommitSave /\ ~RestoreConsume /\ ~CommitDropPrevious
    BY <2>1, RunsOnPlaces
  <2>5. pc \notin Unrecorded /\ UNCHANGED <<applyRec, restoreRec>>
    BY <2>4, RunsOnStore
  <2>6. ASSUME edits = 0, session, applyRec # None, ~Committed(applyRec)', NEW q \in applyRec.ckpt.files
        PROVE  target[q] = applyRec.ckpt.original[q]
    <3>1. ~Consume
      BY <2>6, RunsOnPlaces DEF Inv, RecordsInv
    <3>2. CASE Reinstate
      <4>1. pc = "reinstate" /\ job = "apply"
        BY <2>1, <3>2, RunsOnStore, RunsOnPlaces
      <4>2. ~Committed(txn) /\ applyRec = txn
        BY <1>a, <2>5, <4>1, RecordKnown DEF SavedAt
      <4> QED
        BY <2>2, <2>6, <4>2 DEF Quiet
    <3>3. CASE ~Reinstate
      <4>1. ckpt' = ckpt
        BY <2>4, <3>1, <3>3, RunsOnStore
      <4>2. ~Committed(applyRec)
        BY <2>5, <2>6, <4>1 DEF Committed
      <4> QED
        BY <2>2, <2>6, <4>2 DEF Quiet
    <3> QED
      BY <3>2, <3>3
  <2>7. session' => Quiet'
    BY <1>a, <2>2, <2>5, <2>6 DEF Quiet
  <2> QED
    BY <2>3, <2>7
<1>4. pc' \notin {"rewriteText", "rewriteClear", "rewritePut"}
  BY DEF Goto, Step, Loop, RunsOn, PersistApply, MakeDirectory, MakeDirectoryFails, PrepareDone, ReplaceDone, UndoDone,
     CleanupDone, CommitDropPrevious, CommitSave, CommitFails, PersistRestore,
     RestorePrepareDone, RestoreReplaced, RestoreCleanupDone, RestoreSwept, RestoreConsume,
     RollbackStart, SavedCheck, SweepDone, RewriteDone, VerifyDone, Reinstate, Consume
<1> QED
  BY <1>a, <1>1, <1>2, <1>3, <1>4 DEF Stable

(* No record comes to hold half a text.                                    *)
LEMMA RunsOnWhole ==
    ASSUME Inv, Content, RunsOn
    PROVE  Whole'
<1>a. UNCHANGED <<txn, target, staged>> /\ txn # None /\ Whole
  BY RunsOnFacts DEF Content
<1>1. applyRec' \in {None, applyRec, txn} /\ restoreRec' \in {None, restoreRec, txn}
  BY RunsOnStore
<1>2. ckpt' \in {None, ckpt, txn.ckpt, txn.prev}
  BY RunsOnStore
<1>3. WholeCheckpoint(ckpt)'
  BY <1>a, <1>2 DEF Whole, WholeTransaction, WholeCheckpoint
<1>4. WholeTransaction(applyRec)' /\ WholeTransaction(restoreRec)' /\ WholeTransaction(txn)'
  BY <1>a, <1>1 DEF Whole, WholeTransaction, WholeCheckpoint
<1> QED
  BY <1>a, <1>3, <1>4 DEF Whole

LEMMA RunsOnContent ==
    ASSUME OneFault, Inv, Content, RunsOn
    PROVE  Content'
BY RunsOnContents, RunsOnSaved, RunsOnSpent, RunsOnSound, RunsOnStable, RunsOnWhole DEF Content

-----------------------------------------------------------------------------
(* With the old text in place, what is staged has its base on disk.        *)
LEMMA BaseStaged ==
    ASSUME Inv, Content, Works, \A q \in Files : target[q] = Original(q)
    PROVE  AllBase
BY DEF Content, Stable, AllBase

(* With the new text in place, what is staged is on disk.                  *)
LEMMA ContentStaged ==
    ASSUME Inv, Content, Works, \A q \in Files : target[q] = Applied(q)
    PROVE  AllContent
BY DEF Content, Stable, AllContent

(* With the original text in place, its record asks for nothing more.      *)
LEMMA QuietOriginals ==
    ASSUME Inv, ~Unplanned, pc \notin Unrecorded, \A q \in Files : target[q] = Original(q)
    PROVE  Quiet
BY RecordKnown DEF Quiet, Files, Original

(* A handler that ends, with its record or without one, ends where the     *)
(* places of a transaction do not matter.                                  *)
LEMMA EndingContents ==
    ASSUME Unplanned', job' = "none"
    PROVE  Contents' /\ Ordered' /\ SavedAt' /\ Spent'
<1> USE DEF Unplanned, Swaps, Swapping, Putting, Undoing, Uncommitted, RestorePcs, Rewriting
<1>1. Contents'
  BY DEF Contents
<1>2. Ordered'
  BY DEF Ordered
<1>3. SavedAt'
  BY DEF SavedAt
<1>4. Spent'
  BY DEF Spent
<1> QED
  BY <1>1, <1>2, <1>3, <1>4

(* A handler that leaves touches neither a file nor a record.              *)
LEMMA LeavingFacts ==
    ASSUME Inv, Leaving
    PROVE  /\ UNCHANGED <<target, ckpt, applyRec, restoreRec, nextId>>
           /\ Unplanned' /\ job' = "none" /\ txn' \in {None, txn} /\ edits' = edits
           /\ \/ UNCHANGED <<session, staged>>
              \/ RegisterDone /\ session' /\ staged' = NothingStaged
              \/ CommitNothing /\ session' = session /\ staged' = NothingStaged
<1> USE DEF Unplanned, Goto, Step, Return, RecoveryFails, Fault, disk, store, stage, bounds
<1>1. pc = "recover" => job = "none"
  BY DEF Inv, IInv, ControlInv, JobRecovers
<1>2. CASE ApplyRefused
  BY <1>2 DEF ApplyRefused
<1>3. CASE PersistApplyFails
  BY <1>3 DEF PersistApplyFails
<1>4. CASE AbandonFails
  BY <1>4 DEF AbandonFails
<1>5. CASE CommitNothing
  BY <1>5 DEF CommitNothing
<1>6. CASE RestoreRefused
  BY <1>6 DEF RestoreRefused
<1>7. CASE PersistRestoreFails
  BY <1>7 DEF PersistRestoreFails
<1>8. CASE RestoreFinishFails
  BY <1>8 DEF RestoreFinishFails
<1>9. CASE RecoverNothing
  BY <1>1, <1>9 DEF RecoverNothing
<1>10. CASE RecoverBlocked
  BY <1>10 DEF RecoverBlocked
<1>11. CASE RegisterDone
  BY <1>11 DEF RegisterDone
<1>12. CASE RollbackBlocked
  BY <1>12 DEF RollbackBlocked
<1>13. CASE SavedChanged
  BY <1>13 DEF SavedChanged
<1>14. CASE VerifyFails
  BY <1>14 DEF VerifyFails
<1>15. CASE RecoveryIoError
  BY <1>15 DEF RecoveryIoError
<1> QED
  BY <1>2, <1>3, <1>4, <1>5, <1>6, <1>7, <1>8, <1>9, <1>10, <1>11, <1>12, <1>13, <1>14, <1>15
     DEF Leaving

(* A rollback and a commit find their files as the swap left them.         *)
LEMMA NeverBlocked ==
    ASSUME Inv, Content
    PROVE  ~RollbackBlocked /\ ~SavedChanged
<1>1. ASSUME pc \in {"rollback", "saved"}
      PROVE  /\ SoundApply(txn) /\ (Committed(txn) <=> ckpt = txn.ckpt)
             /\ \A q \in Files : target[q] = Applied(q) /\ Backup(q) = Original(q) /\ Temp(q) = Absent
  <2>1. ~Unplanned /\ pc \notin Unrecorded /\ ~(job = "restore" \/ (job = "none" /\ op = "restore"))
    BY <1>1 DEF Inv, Tracked, Unplanned, Unrecorded, ApplyPcs, RecoveryPcs
  <2>2. \A q \in Files : SwappedAt(q)
    BY <2>1 DEF Content, Contents, ContentAt
  <2> QED
    BY <1>1, <2>1, <2>2, ApplyRuns DEF SwappedAt, Swapped
<1>2. ASSUME pc = "rollback" PROVE ~RollbackBlocked
  <2>1. ~Committed(txn)
    BY <1>2 DEF Content, SavedAt, Inv, Tracked
  <2>2. ckpt \in {None, txn.prev}
    BY <1>1, <1>2, <2>1 DEF SoundApply
  <2>3. PreviousMatches(txn)
    BY <2>2 DEF PreviousMatches
  <2>4. IntactUncommitted(txn)
    BY <1>1, <1>2 DEF IntactUncommitted, Files, Applied, Original, Temp, Backup
  <2> QED
    BY <2>3, <2>4 DEF RollbackBlocked
<1>3. ASSUME pc = "saved" PROVE ~SavedChanged
  BY <1>1, <1>3 DEF SavedChanged, IntactCommitted, Files, Applied, Original, Temp, Backup
<1> QED
  BY <1>2, <1>3 DEF RollbackBlocked, SavedChanged

(* A handler that leaves has changed nothing, or everything.               *)
LEMMA LeavingRest ==
    ASSUME OneFault, Inv, Content, Leaving
    PROVE  /\ staged' = NothingStaged \/ (staged' = staged /\ (AllBase \/ AllContent))
           /\ session' => Quiet
<1>a. /\ \/ UNCHANGED <<session, staged>>
         \/ RegisterDone /\ session' /\ staged' = NothingStaged
         \/ CommitNothing /\ session' = session /\ staged' = NothingStaged
      /\ Stable /\ Tracked /\ RecordsInv
      /\ pc \in {"settled", "planned", "rPlanned"} => Quiet
  BY LeavingFacts DEF Content, Inv, Quiet, RecordsInv, NoRecord
<1>b. ~Unplanned => \A q \in Files : ContentAt(q)
  BY DEF Content, Contents
<1>1. ASSUME Resting, ~RegisterDone, ~CommitNothing
      PROVE  UNCHANGED <<session, staged>> /\ (AllBase \/ AllContent) /\ (session' => Quiet)
  BY <1>a, <1>1 DEF Stable
<1>2. CASE RegisterDone
  <2>1. pc = "settled" /\ staged' = NothingStaged
    BY <1>2 DEF RegisterDone
  <2> QED
    BY <1>a, <2>1
<1>3. CASE ApplyRefused \/ RestoreRefused \/ RecoverNothing \/ RecoverBlocked
  <2>1. Resting /\ ~RegisterDone /\ ~CommitNothing
    BY <1>3, <1>a DEF Resting, Unplanned, ApplyRefused, RestoreRefused, RecoverNothing, RecoverBlocked,
       RegisterDone, CommitNothing
  <2> QED
    BY <1>1, <2>1
<1>4. CASE PersistApplyFails
  <2>1. pc = "planned" /\ ~Unplanned /\ Works /\ staged' = staged
    BY <1>4, <1>a DEF PersistApplyFails, Unplanned, Works, Tracked, ApplyPcs, RecoveryPcs, stage
  <2>2. \A q \in Files : target[q] = Original(q)
    BY <1>b, <2>1 DEF ContentAt, PreparedAt, Opening, Old, Works
  <2> QED
    BY <1>a, <2>1, <2>2, BaseStaged
<1>5. CASE AbandonFails
  <2>1. pc = "abandon" /\ ~Unplanned /\ Works /\ staged' = staged
    BY <1>5, <1>a DEF AbandonFails, Unplanned, Works, Tracked, ApplyPcs, RecoveryPcs, stage
  <2>2. \A q \in Files : target[q] = Original(q)
    BY <1>b, <2>1 DEF ContentAt, PreparedAt, Undone, Old, Works
  <2> QED
    BY <2>1, <2>2, BaseStaged, QuietOriginals DEF Unrecorded
<1>6. CASE CommitNothing
  <2>1. pc = "commit" /\ ~Unplanned /\ Files = {} /\ staged' = NothingStaged
    BY <1>6 DEF CommitNothing, Unplanned
  <2> QED
    BY <2>1, QuietOriginals DEF Unrecorded
<1>7. CASE PersistRestoreFails
  <2>1. pc = "rPlanned" /\ staged' = staged
    BY <1>7 DEF PersistRestoreFails, stage
  <2>2. staged' = NothingStaged
    BY <1>a, <2>1 DEF Stable, RestorePcs
  <2> QED
    BY <1>a, <2>1, <2>2
<1>8. CASE RestoreFinishFails
  <2>1. pc \in {"rConsume", "rUnrecord"} /\ ~Unplanned /\ staged' = staged
    BY <1>8 DEF RestoreFinishFails, Unplanned, stage
  <2>2. staged' = NothingStaged
    BY <1>a, <2>1 DEF Stable, RestorePcs
  <2>3. \A q \in Files : target[q] = Original(q)
    BY <1>b, <2>1 DEF ContentAt, RewrittenAt, Restored
  <2> QED
    BY <2>1, <2>2, <2>3, QuietOriginals DEF Unrecorded
<1>9. CASE VerifyFails
  <2>1. pc = "verify" /\ ~Unplanned /\ job # "none" /\ staged' = staged /\ ~RegisterDone /\ ~CommitNothing
    BY <1>9, <1>a DEF VerifyFails, RecoveryFails, Unplanned, Tracked, RecoveryPcs, RegisterDone,
       CommitNothing, stage
  <2>2. CASE job \in {"apply", "restore"}
    BY <1>1, <2>1, <2>2 DEF Resting
  <2>3. CASE job = "rollback"
    <3>1. Works
      BY <1>a, <2>1, <2>3 DEF Works, Tracked, RecoveryPcs
    <3>2. \A q \in Files : target[q] = Original(q)
      BY <1>b, <2>1 DEF ContentAt, RewrittenAt, Restored
    <3> QED
      BY <2>1, <3>1, <3>2, BaseStaged, QuietOriginals DEF Unrecorded
  <2> QED
    BY <2>1, <2>2, <2>3 DEF Inv, IInv, TypeOK, ControlTypeOK, Jobs
<1>10. CASE RecoveryIoError
  <2>1. pc \in RecoveryPcs /\ staged' = staged /\ ~RegisterDone /\ ~CommitNothing /\ Fault
    BY <1>10 DEF RecoveryIoError, RecoveryFails, RecoveryPcs, RegisterDone, CommitNothing, stage
  <2>2. faults = 0
    BY <2>1, NoSecondFault
  <2>3. job # "rollback"
    BY <2>2 DEF Content, Spent
  <2>4. CASE Resting
    BY <1>1, <2>1, <2>4
  <2>5. CASE ~Resting
    <3>1. job = "none" /\ ~Unplanned /\ pc \in {"sweep", "unrecord"} /\ op = "apply"
      BY <1>a, <2>1, <2>3, <2>5 DEF Resting, Unplanned, RecoveryPcs, Tracked, Inv, IInv, TypeOK,
         ControlTypeOK, Jobs
    <3>2. ckpt = txn.ckpt
      BY <3>1 DEF Content, SavedAt
    <3>3. SoundApply(txn) /\ Committed(txn) /\ applyRec = txn /\ restoreRec = None
      BY <3>1, <3>2, ApplyRuns DEF Unrecorded
    <3>4. \A q \in Files : target[q] = Applied(q)
      BY <3>1, <3>2, <3>3 DEF SoundApply, Files, Applied, Known
    <3>5. AllContent
      BY <3>1, <3>4, ContentStaged DEF Works
    <3>6. Quiet
      BY <3>3 DEF Quiet
    <3> QED
      BY <2>1, <3>5, <3>6
  <2> QED
    BY <2>4, <2>5
<1> QED
  BY <1>2, <1>3, <1>4, <1>5, <1>6, <1>7, <1>8, <1>9, <1>10, NeverBlocked DEF Leaving

(* With the files and the records as they were, nothing running and the    *)
(* stage of one piece, everything fits.                                    *)
LEMMA EndedContent ==
    ASSUME Content, UNCHANGED <<target, ckpt, applyRec, restoreRec, nextId, edits>>,
           Unplanned', job' = "none", txn' \in {None, txn},
           AllBase' \/ AllContent', session' => Quiet, ~session' => staged' = NothingStaged,
           \A q \in Paths : staged'[q] # None => staged'[q].base \in Texts /\ staged'[q].content \in Texts
    PROVE  Content'
<1>a. SoundRecords /\ Whole
  BY DEF Content
<1>1. SoundRecords'
  <2>1. applyRec # None => SoundApply(applyRec)'
    BY <1>a DEF SoundRecords, SoundApply, Placed, Known
  <2>2. restoreRec # None => SoundRestore(restoreRec)'
    BY <1>a DEF SoundRecords, SoundRestore, Placed, Known
  <2>3. NoRecord' => Described'
    BY <1>a DEF SoundRecords, NoRecord, Described
  <2> QED
    BY <1>a, <2>1, <2>2, <2>3 DEF SoundRecords, Unplanned
<1>2. Stable'
  <2>1. session' => Quiet'
    BY DEF Quiet, Committed
  <2>2. /\ ~(pc' \in RestorePcs \/ (pc' \in Undoing /\ op' = "restore")) /\ ~Works'
    BY DEF Unplanned, RestorePcs, Undoing, Works
  <2> QED
    BY <2>1, <2>2 DEF Stable
<1>3. Whole'
  BY <1>a DEF Whole, WholeCheckpoint, WholeTransaction
<1> QED
  BY <1>1, <1>2, <1>3, EndingContents DEF Content

LEMMA LeavingContent ==
    ASSUME OneFault, Inv, Content, Leaving
    PROVE  Content'
<1>a. /\ UNCHANGED <<target, ckpt, applyRec, restoreRec, nextId, edits>>
      /\ Unplanned' /\ job' = "none" /\ txn' \in {None, txn}
      /\ session' = session \/ (session' /\ staged' = NothingStaged)
      /\ Stable /\ Whole
  BY LeavingFacts DEF Content
<1>b. /\ staged' = NothingStaged \/ (staged' = staged /\ (AllBase \/ AllContent))
      /\ session' => Quiet
  BY LeavingRest
<1>1. AllBase' \/ AllContent'
  BY <1>a, <1>b DEF AllBase, AllContent, NothingStaged
<1>2. ~session' => staged' = NothingStaged
  BY <1>a, <1>b DEF Stable
<1>3. \A q \in Paths : staged'[q] # None => staged'[q].base \in Texts /\ staged'[q].content \in Texts
  BY <1>a, <1>b DEF Whole, NothingStaged
<1> QED
  BY <1>a, <1>b, <1>1, <1>2, <1>3, EndedContent

(* A transaction that is over: an apply has replaced its files or none of  *)
(* them, as the checkpoint says, and so has a restore.                     *)
Finished ==
    /\ applyRec # None =>
          IF Committed(applyRec)
          THEN \A q \in applyRec.ckpt.files : target[q] = applyRec.ckpt.applied[q]
          ELSE /\ ckpt = applyRec.prev
               /\ \A q \in applyRec.ckpt.files : target[q] = applyRec.ckpt.original[q]
    /\ restoreRec # None =>
          IF ckpt # None
          THEN \A q \in restoreRec.ckpt.files : target[q] = restoreRec.ckpt.applied[q]
          ELSE \A q \in restoreRec.ckpt.files : target[q] = restoreRec.ckpt.original[q]

(* Its checkpoint describes the files.                                     *)
LEMMA FinishedDescribes ==
    ASSUME Inv, Content, Finished
    PROVE  Described
<1>a. SoundRecords /\ applyRec \in Transaction \cup {None}
  BY DEF Content, Inv, IInv, TypeOK, StoreTypeOK
<1>1. CASE applyRec # None
  <2>1. SoundApply(applyRec) /\ (Committed(applyRec) <=> ckpt = applyRec.ckpt)
    BY <1>a, <1>1, CommittedIs DEF SoundRecords, Inv
  <2>2. CASE Committed(applyRec)
    BY <1>1, <2>1, <2>2 DEF Finished, Described
  <2>3. CASE ~Committed(applyRec)
    BY <1>1, <2>1, <2>3 DEF Finished, Described, SoundApply
  <2> QED
    BY <2>2, <2>3
<1>2. CASE restoreRec # None
  BY <1>a, <1>2 DEF SoundRecords, SoundRestore, Finished, Described
<1>3. CASE NoRecord
  BY <1>a, <1>3 DEF SoundRecords
<1> QED
  BY <1>1, <1>2, <1>3 DEF NoRecord

(* A handler that ends without a record has finished its transaction, and  *)
(* left of what is staged all or nothing.                                  *)
LEMMA SettlingRest ==
    ASSUME OneFault, Inv, Content, Settling
    PROVE  /\ UNCHANGED <<target, ckpt, nextId, session, edits>>
           /\ Unplanned' /\ job' = "none" /\ txn' = None /\ NoRecord' /\ Finished
           /\ staged' = NothingStaged \/ (staged' = staged /\ (AllBase \/ AllContent))
<1> USE DEF Return, disk, bounds
<1>a. Stable /\ Tracked /\ RecordsInv /\ SavedAt /\ SoundRecords /\ Spent
  BY DEF Content, Inv
<1>b. ~Unplanned => \A q \in Files : ContentAt(q)
  BY DEF Content, Contents
<1>c. ASSUME applyRec = txn, restoreRec = None, ~Committed(txn), ckpt = txn.prev,
             \A q \in Files : target[q] = Original(q)
      PROVE  Finished
  BY <1>c DEF Finished, Files, Original
<1>d. ASSUME applyRec = txn, restoreRec = None, Committed(txn), \A q \in Files : target[q] = Applied(q)
      PROVE  Finished
  BY <1>d DEF Finished, Files, Applied
<1>1. CASE Abandon
  <2>1. /\ pc = "abandon" /\ UNCHANGED <<target, ckpt, nextId, session, staged, edits>> /\ applyRec' = None
        /\ restoreRec' = restoreRec /\ Unplanned' /\ job' = "none" /\ txn' = None
    BY <1>1 DEF Abandon, Unplanned, stage
  <2>2. ~Unplanned /\ Works /\ job = "none" /\ op = "apply"
    BY <1>a, <2>1 DEF Unplanned, Works, Tracked, ApplyPcs, RecoveryPcs
  <2>3. /\ SoundApply(txn) /\ applyRec = txn /\ restoreRec = None /\ txn.prev # txn.ckpt
        /\ (Committed(txn) <=> ckpt = txn.ckpt)
    BY <2>1, <2>2, ApplyRuns DEF Unrecorded
  <2>4. ckpt = txn.prev /\ \A q \in Files : target[q] = Original(q)
    BY <1>a, <1>b, <2>1, <2>2 DEF SavedAt, Uncommitted, ContentAt, PreparedAt, Undone, Old
  <2> QED
    BY <1>c, <2>1, <2>2, <2>3, <2>4, BaseStaged DEF NoRecord
<1>2. CASE ApplyFinish
  <2>1. /\ pc = "unrecord" /\ UNCHANGED <<target, ckpt, nextId, session, edits>> /\ applyRec' = None
        /\ restoreRec' = restoreRec /\ Unplanned' /\ job' = "none" /\ txn' = None
        /\ staged' = NothingStaged /\ job = "none"
    BY <1>2 DEF ApplyFinish, Unplanned
  <2>2. ~Unplanned /\ op = "apply" /\ ckpt = txn.ckpt
    BY <1>a, <2>1 DEF Unplanned, Tracked, RecoveryPcs, SavedAt
  <2>3. /\ SoundApply(txn) /\ applyRec = txn /\ restoreRec = None /\ txn.prev # txn.ckpt
        /\ (Committed(txn) <=> ckpt = txn.ckpt)
    BY <2>1, <2>2, ApplyRuns DEF Unrecorded
  <2>4. \A q \in Files : target[q] = Applied(q)
    BY <2>2, <2>3 DEF SoundApply, Files, Applied, Known
  <2> QED
    BY <1>d, <2>1, <2>2, <2>3, <2>4 DEF NoRecord
<1>3. CASE RolledBack
  <2>1. /\ pc = "unrecord" /\ UNCHANGED <<target, ckpt, nextId, session, staged, edits>> /\ applyRec' = None
        /\ restoreRec' = restoreRec /\ Unplanned' /\ job' = "none" /\ txn' = None
        /\ job = "rollback"
    BY <1>3 DEF RolledBack, Unplanned, stage
  <2>2. ~Unplanned /\ Works /\ op = "apply" /\ ~Committed(txn) /\ ckpt = txn.prev
    BY <1>a, <2>1 DEF Unplanned, Works, Tracked, RecoveryPcs, SavedAt
  <2>3. /\ SoundApply(txn) /\ applyRec = txn /\ restoreRec = None /\ txn.prev # txn.ckpt
        /\ (Committed(txn) <=> ckpt = txn.ckpt)
    BY <2>1, <2>2, ApplyRuns DEF Unrecorded
  <2>4. \A q \in Files : target[q] = Original(q)
    BY <1>b, <2>1, <2>2 DEF ContentAt, RewrittenAt
  <2> QED
    BY <1>c, <2>1, <2>2, <2>3, <2>4, BaseStaged DEF NoRecord
<1>4. CASE RecoveredApply
  <2>1. /\ pc = "unrecord" /\ UNCHANGED <<target, ckpt, nextId, session, staged, edits>> /\ applyRec' = None
        /\ restoreRec' = restoreRec /\ Unplanned' /\ job' = "none" /\ txn' = None
        /\ job = "apply"
    BY <1>4 DEF RecoveredApply, Unplanned, stage
  <2>2. ~Unplanned /\ (AllBase \/ AllContent)
    BY <1>a, <2>1 DEF Unplanned, Resting, Stable
  <2>3. /\ SoundApply(txn) /\ applyRec = txn /\ restoreRec = None
        /\ (Committed(txn) <=> ckpt = txn.ckpt)
    BY <2>1, <2>2, ApplyRuns DEF Unrecorded
  <2>4. CASE Committed(txn)
    <3>1. \A q \in Files : target[q] = Applied(q)
      BY <2>2, <2>3, <2>4 DEF SoundApply, Files, Applied, Known
    <3> QED
      BY <1>d, <2>1, <2>2, <2>3, <2>4, <3>1 DEF NoRecord
  <2>5. CASE ~Committed(txn)
    <3>1. ckpt = txn.prev /\ \A q \in Files : target[q] = Original(q)
      BY <1>a, <1>b, <2>1, <2>2, <2>5 DEF SavedAt, ContentAt, RewrittenAt
    <3> QED
      BY <1>c, <2>1, <2>2, <2>3, <2>5, <3>1 DEF NoRecord
  <2> QED
    BY <2>4, <2>5
<1>5. CASE RestoreAbandon
  <2>1. /\ pc = "rAbandon" /\ UNCHANGED <<target, ckpt, session, staged>> /\ Unplanned'
        /\ job' = "none" /\ txn' = None /\ applyRec' = applyRec
        /\ (restoreRec' = None /\ UNCHANGED <<nextId, edits>>) \/ Fault
    BY <1>5 DEF RestoreAbandon, Unplanned, stage
  <2>2. ~Fault
    BY <1>a, <2>1, NoSecondFault DEF Spent
  <2>3. ~Unplanned /\ op = "restore" /\ job = "none"
    BY <1>a, <2>1 DEF Unplanned, Tracked, RestorePcs, RecoveryPcs
  <2>4. applyRec = None /\ restoreRec = txn /\ txn.ckpt # None
    BY <2>1, <2>3, RecordKnown, TransactionParts, NoneAssumption DEF Unrecorded
  <2>5. /\ ckpt = txn.ckpt /\ staged = NothingStaged
        /\ \A q \in Files : target[q] = Applied(q)
    BY <1>a, <1>b, <2>1, <2>3 DEF SavedAt, Stable, RestorePcs, ContentAt, PreparedAt, Undone, Old
  <2> QED
    BY <2>1, <2>2, <2>4, <2>5 DEF NoRecord, Finished, Files, Applied
<1>6. CASE RestoreFinish
  <2>1. /\ pc = "rUnrecord" /\ UNCHANGED <<target, ckpt, nextId, session, staged, edits>> /\ Unplanned'
        /\ job' = "none" /\ txn' = None /\ applyRec' = applyRec /\ restoreRec' = None
    BY <1>6 DEF RestoreFinish, Unplanned
  <2>2. ~Unplanned /\ op = "restore" /\ job = "none"
    BY <1>a, <2>1 DEF Unplanned, Tracked, RestorePcs, RecoveryPcs
  <2>3. applyRec = None /\ restoreRec = txn
    BY <2>1, <2>2, RecordKnown DEF Unrecorded
  <2>4. /\ ckpt = None /\ staged = NothingStaged
        /\ \A q \in Files : target[q] = Original(q)
    BY <1>a, <1>b, <2>1, <2>2 DEF SavedAt, Stable, RestorePcs, ContentAt, RewrittenAt, Restored
  <2> QED
    BY <2>1, <2>3, <2>4 DEF NoRecord, Finished, Files, Original
<1>7. CASE RecoveredRestore
  <2>1. /\ pc = "unrecord" /\ UNCHANGED <<target, ckpt, nextId, session, staged, edits>> /\ Unplanned'
        /\ job' = "none" /\ txn' = None /\ applyRec' = applyRec /\ restoreRec' = None
        /\ job = "restore"
    BY <1>7 DEF RecoveredRestore, Unplanned, stage
  <2>2. applyRec = None /\ ckpt = None /\ (AllBase \/ AllContent) /\ ~Unplanned
    BY <1>a, <2>1 DEF RecordsInv, SavedAt, Stable, Resting, Unplanned
  <2>3. restoreRec = txn /\ \A q \in Files : target[q] = Original(q)
    BY <1>b, <2>1, <2>2, RecordKnown DEF Unrecorded, ContentAt, RewrittenAt
  <2> QED
    BY <2>1, <2>2, <2>3 DEF NoRecord, Finished, Files, Original
<1>8. CASE RecoverQuarantine
  <2>1. /\ pc = "recover" /\ UNCHANGED <<target, ckpt, nextId, session, staged, edits>> /\ Unplanned'
        /\ job' = "none" /\ txn' = None /\ applyRec' = None /\ restoreRec' = restoreRec
        /\ applyRec # None /\ restoreRec = None /\ applyRec.ckpt.files = {}
    BY <1>8 DEF RecoverQuarantine, InvalidRecord, Unplanned, stage
  <2>2. AllBase \/ AllContent
    BY <1>a, <2>1 DEF Stable, Resting, Unplanned
  <2>3. SoundApply(applyRec)
    BY <1>a, <2>1 DEF SoundRecords
  <2>4. Finished
    BY <2>1, <2>3 DEF SoundApply, Finished
  <2> QED
    BY <2>1, <2>2, <2>4 DEF NoRecord
<1> QED
  BY <1>1, <1>2, <1>3, <1>4, <1>5, <1>6, <1>7, <1>8 DEF Settling

LEMMA SettlingContent ==
    ASSUME OneFault, Inv, Content, Settling
    PROVE  Content'
<1>a. /\ UNCHANGED <<target, ckpt, nextId, session, edits>>
      /\ Unplanned' /\ job' = "none" /\ txn' = None /\ NoRecord' /\ Described
      /\ staged' = NothingStaged \/ (staged' = staged /\ (AllBase \/ AllContent))
      /\ SoundRecords /\ Stable /\ Whole
  BY SettlingRest, FinishedDescribes DEF Content
<1>1. SoundRecords'
  BY <1>a DEF SoundRecords, NoRecord, Described, Unplanned
<1>2. Stable'
  <2>1. AllBase' \/ AllContent'
    BY <1>a DEF AllBase, AllContent, NothingStaged
  <2>2. Quiet'
    BY <1>a DEF Quiet, NoRecord
  <2>3. ~session' => staged' = NothingStaged
    BY <1>a DEF Stable
  <2>4. /\ ~(pc' \in RestorePcs \/ (pc' \in Undoing /\ op' = "restore")) /\ ~Works'
    BY <1>a DEF Unplanned, RestorePcs, Undoing, Works
  <2> QED
    BY <1>a, <2>1, <2>2, <2>3, <2>4 DEF Stable
<1>3. Whole'
  <2>1. \A q \in Paths : staged'[q] # None => staged'[q].base \in Texts /\ staged'[q].content \in Texts
    BY <1>a DEF Whole, NothingStaged
  <2> QED
    BY <1>a, <2>1 DEF Whole, WholeCheckpoint, WholeTransaction, NoRecord
<1> QED
  BY <1>a, <1>1, <1>2, <1>3, EndingContents DEF Content

(* The transaction that Apply plans: what is staged, on the files it found. *)
LEMMA ApplyPlanned ==
    ASSUME Inv, Content, ApplyPlan
    PROVE  /\ UNCHANGED <<target, temp, backup, store, session, staged, job, edits>> /\ memory' = ckpt
           /\ job = "none" /\ pc' = "planned" /\ op = "apply" /\ op' = "apply" /\ NoRecord /\ Described
           /\ nextId \in Ids /\ nextId \in Nat /\ nextId' = nextId + 1
           /\ txn' \in Transaction /\ txn' # None
           /\ txn'.tid = nextId /\ txn'.prev = ckpt /\ txn'.ckpt.id = nextId
           /\ Files' = PlannedFiles /\ PlannedFiles \subseteq Paths
           /\ \A q \in Paths :
                 /\ txn'.ckpt.original[q] = IF q \in PlannedFiles THEN staged[q].base ELSE Absent
                 /\ txn'.ckpt.applied[q] = IF q \in PlannedFiles THEN staged[q].content ELSE Absent
                 /\ temp[nextId][q] = Absent /\ backup[nextId][q] = Absent
                 /\ staged[q] # None => target[q] = staged[q].base
<1>1. /\ UNCHANGED <<target, temp, backup, store, session, staged, job, op, edits>> /\ memory' = ckpt
      /\ pc = "settled" /\ pc' = "planned" /\ op = "apply" /\ nextId' = nextId + 1 /\ RevisionMatches
      /\ txn' = [tid |-> nextId, ckpt |-> PlannedCheckpoint, prev |-> ckpt]
  BY DEF ApplyPlan, disk
<1>2. job = "none" /\ NoRecord /\ Described
  BY <1>1 DEF Inv, IInv, ControlInv, JobRecovers, RecordsInv, RecoveryPcs, Content, SoundRecords
<1>3. nextId \in Ids /\ nextId \in Nat /\ TypeOK
  BY <1>1, BoundAssumption DEF Inv, IInv, ControlInv, IdLeft, TypeOK, BoundsTypeOK, Ids
<1>4. txn' \in Transaction /\ txn' # None
  BY <1>1, <1>3, PlannedType, NoneAssumption DEF Transaction, TypeOK, StoreTypeOK
<1>5. \A q \in Paths : temp[nextId][q] = Absent /\ backup[nextId][q] = Absent
  BY <1>3 DEF Inv, Fresh
<1>6. \A q \in Paths : staged[q] # None => target[q] = staged[q].base
  BY <1>1 DEF RevisionMatches
<1>7. /\ txn'.tid = nextId /\ txn'.prev = ckpt /\ txn'.ckpt = PlannedCheckpoint
      /\ PlannedFiles \subseteq Paths
  BY <1>1 DEF PlannedFiles
<1>8. /\ txn'.ckpt.id = nextId /\ Files' = PlannedFiles
      /\ \A q \in Paths :
            /\ txn'.ckpt.original[q] = IF q \in PlannedFiles THEN staged[q].base ELSE Absent
            /\ txn'.ckpt.applied[q] = IF q \in PlannedFiles THEN staged[q].content ELSE Absent
  BY <1>7 DEF PlannedCheckpoint, Files
<1> QED
  BY <1>1, <1>2, <1>3, <1>4, <1>5, <1>6, <1>7, <1>8

LEMMA ApplyPlanContent ==
    ASSUME Inv, Content, ApplyPlan
    PROVE  Content'
<1>a. /\ UNCHANGED <<target, temp, backup, ckpt, applyRec, restoreRec, session, staged, job, edits>>
      /\ memory' = ckpt
      /\ job = "none" /\ pc' = "planned" /\ op' = "apply" /\ NoRecord /\ Described
      /\ nextId \in Ids /\ nextId \in Nat /\ nextId' = nextId + 1
      /\ txn' \in Transaction /\ txn' # None
      /\ txn'.tid = nextId /\ txn'.prev = ckpt /\ txn'.ckpt.id = nextId
      /\ Files' = PlannedFiles /\ PlannedFiles \subseteq Paths
      /\ \A q \in Paths :
            /\ txn'.ckpt.original[q] = IF q \in PlannedFiles THEN staged[q].base ELSE Absent
            /\ txn'.ckpt.applied[q] = IF q \in PlannedFiles THEN staged[q].content ELSE Absent
            /\ temp[nextId][q] = Absent /\ backup[nextId][q] = Absent
            /\ staged[q] # None => target[q] = staged[q].base
  BY ApplyPlanned DEF store
<1>b. SoundRecords /\ Stable /\ Whole
  BY DEF Content
<1>c. /\ \A q \in PlannedFiles : staged[q] # None /\ target[q] = txn'.ckpt.original[q]
      /\ \A q \in Paths : staged[q] # None /\ q \notin PlannedFiles =>
            staged[q].base = Absent /\ staged[q].content = Absent
  BY <1>a DEF PlannedFiles
<1>1. Contents'
  <2> SUFFICES ASSUME NEW q \in PlannedFiles PROVE ContentAt(q)'
    BY <1>a DEF Contents
  <2>1. q \in Paths /\ target'[q] = Original(q)'
    BY <1>a, <1>c DEF Original
  <2>2. Temp(q)' = Absent /\ Backup(q)' = Absent
    BY <1>a, <2>1 DEF Temp, Backup
  <2> QED
    BY <1>a, <2>1, <2>2 DEF ContentAt, PreparedAt, SwappedAt, UndoneAt, RewrittenAt, Old, Opening, Preparing, Undone, Swaps, Swapping, Putting, Swapped, Undoing, Rewriting, Restored
<1>2. Ordered' /\ SavedAt' /\ Spent'
  <2>1. Ordered'
    BY <1>a DEF Ordered, Swaps, Swapping, Putting
  <2>2. SavedAt'
    BY <1>a DEF SavedAt, Uncommitted, Undoing, Rewriting, RestorePcs
  <2>3. Spent'
    BY <1>a DEF Spent, Undoing
  <2> QED
    BY <2>1, <2>2, <2>3
<1>3. SoundRecords'
  <2>1. ckpt # None => ckpt.id < nextId /\ ckpt.id \in Nat /\ ckpt.files \subseteq Paths
    BY <1>b, CheckpointParts DEF SoundRecords, Inv, IInv, TypeOK, StoreTypeOK, Ids
  <2>2. ckpt # txn'.ckpt
    BY <1>a, <2>1, TransactionParts, NoneAssumption
  <2>3. edits = 0 /\ ckpt # None => \A q \in ckpt.files :
          ckpt.applied[q] = IF q \in PlannedFiles THEN txn'.ckpt.original[q] ELSE target[q]
    BY <1>a, <1>c DEF Described
  <2>4. SoundApply(txn)'
    BY <1>a, <1>c, <2>1, <2>2, <2>3 DEF SoundApply, Placed, Files
  <2>5. ckpt # None => ckpt.id < nextId + 1
    BY <1>a, <2>1
  <2>6. Described'
    BY <1>a DEF Described
  <2> QED
    BY <1>a, <2>4, <2>5, <2>6 DEF SoundRecords, NoRecord
<1>4. Stable'
  <2>1. \A q \in Paths : staged'[q] # None =>
          IF q \in Files' THEN staged'[q].base = Original(q)' /\ staged'[q].content = Applied(q)'
          ELSE staged'[q].base = Absent /\ staged'[q].content = Absent /\ target'[q] = Absent
    BY <1>a, <1>c DEF Original, Applied
  <2>2. ~Resting' /\ ~(pc' \in RestorePcs \/ (pc' \in Undoing /\ op' = "restore"))
    BY <1>a DEF Resting, Unplanned, RestorePcs, Undoing
  <2>3. ~session' => staged' = NothingStaged
    BY <1>a, <1>b DEF Stable
  <2> QED
    BY <1>a, <2>1, <2>2, <2>3 DEF Stable
<1>5. Whole'
  <2>1. \A q \in Paths : /\ txn'.ckpt.original[q] \in Texts /\ txn'.ckpt.applied[q] \in Texts
                         /\ q \notin txn'.ckpt.files =>
                              txn'.ckpt.original[q] = Absent /\ txn'.ckpt.applied[q] = Absent
    BY <1>a, <1>b, <1>c DEF Whole, Texts, Files
  <2>2. WholeTransaction(txn)'
    BY <1>a, <1>b, <2>1 DEF Whole, WholeTransaction, WholeCheckpoint
  <2> QED
    BY <1>a, <1>b, <2>2 DEF Whole, WholeTransaction, WholeCheckpoint, NoRecord
<1> QED
  BY <1>1, <1>2, <1>3, <1>4, <1>5 DEF Content

LEMMA RestorePlanContent ==
    ASSUME Inv, Content, RestorePlan
    PROVE  Content'
<1>a. /\ UNCHANGED <<target, temp, backup, ckpt, applyRec, restoreRec, session, staged, job, op, edits>>
      /\ pc = "settled" /\ pc' = "rPlanned" /\ op = "restore" /\ nextId' = nextId + 1
      /\ staged = NothingStaged /\ ckpt # None /\ \A q \in ckpt.files : target[q] = ckpt.applied[q]
      /\ txn' = [tid |-> nextId, ckpt |-> ckpt, prev |-> None]
  BY DEF RestorePlan, StillApplied, disk, store
<1>b. job = "none" /\ NoRecord /\ SoundRecords /\ Stable /\ Whole
  BY <1>a DEF Inv, IInv, ControlInv, JobRecovers, RecordsInv, RecoveryPcs, Content
<1>c. /\ nextId \in Ids /\ nextId \in Nat /\ ckpt.files \subseteq Paths /\ ckpt.id < nextId
      /\ ckpt.id \in Nat
  BY <1>a, <1>b, BoundAssumption, CheckpointParts DEF SoundRecords, Inv, IInv, ControlInv, IdLeft, TypeOK,
     BoundsTypeOK, StoreTypeOK, Ids
<1>d. txn'.tid = nextId /\ txn'.ckpt = ckpt /\ txn'.prev = None /\ Files' = ckpt.files
  BY <1>a DEF Files
<1>1. Contents'
  <2> SUFFICES ASSUME NEW q \in ckpt.files PROVE ContentAt(q)'
    BY <1>d DEF Contents
  <2>1. target'[q] = Old(q)'
    BY <1>a, <1>d DEF Old, Applied
  <2>2. Temp(q)' = Absent /\ Backup(q)' = Absent
    BY <1>a, <1>c, <1>d DEF Temp, Backup, Inv, Fresh
  <2> QED
    BY <1>a, <2>1, <2>2 DEF ContentAt, PreparedAt, SwappedAt, UndoneAt, RewrittenAt, Opening, Preparing, Undone, Swaps, Swapping, Putting, Swapped, Undoing, Rewriting, Restored
<1>2. Ordered' /\ SavedAt' /\ Spent'
  <2>1. Ordered'
    BY <1>a DEF Ordered, Swaps, Swapping, Putting
  <2>2. SavedAt'
    BY <1>a, <1>d DEF SavedAt, Uncommitted, Undoing, Rewriting, RestorePcs
  <2>3. Spent'
    BY <1>a, <1>b DEF Spent, Undoing
  <2> QED
    BY <2>1, <2>2, <2>3
<1>3. SoundRecords'
  <2>1. SoundRestore(txn)'
    BY <1>a, <1>d DEF SoundRestore, Placed
  <2>2. Described'
    BY <1>a DEF Described
  <2>3. ckpt.id < nextId + 1
    BY <1>c
  <2> QED
    BY <1>a, <1>b, <2>1, <2>2, <2>3 DEF SoundRecords, NoRecord
<1>4. Stable'
  <2>1. ~Resting' /\ ~Works'
    BY <1>a, <1>b DEF Resting, Unplanned, Works
  <2> QED
    BY <1>a, <1>b, <2>1 DEF Stable
<1>5. Whole'
  <2>1. WholeTransaction(txn)'
    BY <1>a, <1>b, <1>d DEF Whole, WholeTransaction, WholeCheckpoint
  <2> QED
    BY <1>a, <1>b, <2>1 DEF Whole, WholeTransaction, WholeCheckpoint, NoRecord
<1> QED
  BY <1>1, <1>2, <1>3, <1>4, <1>5 DEF Content

(* A recovery takes a record over as it is.                                *)
LEMMA RecoveringContent ==
    ASSUME Inv, Content, RecoverCommitted \/ RecoverUncommitted \/ RecoverRestore
    PROVE  Content'
<1>a. /\ UNCHANGED <<target, ckpt, applyRec, restoreRec, nextId, session, staged, memory, op, edits>>
      /\ pc = "recover" /\ todo' = Files' /\ ~NoRecord /\ txn' \in {applyRec, restoreRec} /\ txn' # None
      /\ \/ pc' = "sweep" /\ job' = "apply" /\ txn' = applyRec /\ Committed(applyRec)
         \/ pc' = "rewrite" /\ job' = "apply" /\ txn' = applyRec /\ ~Committed(applyRec)
         \/ pc' = "rewrite" /\ job' = "restore"
  BY DEF RecoverCommitted, RecoverUncommitted, RecoverRestore, Recovering, CommittedRecoverable,
     UncommittedRecoverable, RestoreRecoverable, NoRecord, Files, disk, store, stage, bounds
<1>b. SoundRecords /\ Stable /\ Whole
  BY DEF Content
<1>1. Contents'
  <2> SUFFICES ASSUME NEW q \in Files' PROVE ContentAt(q)'
    BY DEF Contents
  <2> QED
    BY <1>a DEF ContentAt, PreparedAt, SwappedAt, UndoneAt, RewrittenAt, Opening, Preparing, Undone, Swaps, Swapping, Putting, Swapped, Undoing, Rewriting, Restored
<1>2. Ordered' /\ SavedAt' /\ Spent'
  <2>1. Ordered'
    BY <1>a DEF Ordered, Swaps, Swapping, Putting
  <2>2. pc' = "sweep" => ckpt' = txn'.ckpt
    BY <1>a, <1>b, CommittedIs DEF SoundRecords, Inv, IInv, TypeOK, StoreTypeOK
  <2>3. pc' = "rewrite" /\ job' = "apply" => ~Committed(txn)'
    BY <1>a DEF Committed
  <2>4. SavedAt'
    BY <1>a, <2>2, <2>3 DEF SavedAt, Uncommitted, Undoing, Rewriting, RestorePcs
  <2>5. Spent'
    BY <1>a DEF Spent, Undoing
  <2> QED
    BY <2>1, <2>4, <2>5
<1>3. SoundRecords'
  <2>1. ASSUME applyRec # None PROVE SoundApply(applyRec)'
    <3>1. SoundApply(applyRec) /\ (Committed(applyRec) <=> ckpt = applyRec.ckpt)
      BY <1>b, <2>1, CommittedIs DEF SoundRecords, Inv, IInv, TypeOK, StoreTypeOK
    <3>2. /\ Placed(applyRec)
          /\ Committed(applyRec) => \A q \in applyRec.ckpt.files : target[q] = applyRec.ckpt.applied[q]
      BY <2>1 DEF RecoverCommitted, RecoverUncommitted, RecoverRestore, CommittedRecoverable,
         UncommittedRecoverable, RestoreRecoverable, IntactCommitted, IntactUncommitted, Placed
    <3> QED
      BY <1>a, <3>1, <3>2 DEF SoundApply, Placed, Known
  <2>2. ASSUME restoreRec # None PROVE SoundRestore(restoreRec)'
    <3>1. SoundRestore(restoreRec)
      BY <1>b, <2>2 DEF SoundRecords
    <3>2. Placed(restoreRec)
      BY <2>2 DEF RecoverCommitted, RecoverUncommitted, RecoverRestore, CommittedRecoverable,
         UncommittedRecoverable, RestoreRecoverable, IntactRestore, Placed
    <3> QED
      BY <1>a, <3>1, <3>2 DEF SoundRestore, Placed
  <2> QED
    BY <1>a, <1>b, <2>1, <2>2 DEF SoundRecords, NoRecord
<1>4. Stable'
  <2>1. (AllBase \/ AllContent) /\ (session => Quiet)
    BY <1>a, <1>b DEF Stable, Resting, Unplanned
  <2>2. AllBase' \/ AllContent'
    BY <1>a, <2>1 DEF AllBase, AllContent
  <2>3. session' => Quiet'
    BY <1>a, <2>1 DEF Quiet, Committed
  <2>4. ~Works' /\ ~(pc' \in RestorePcs \/ (pc' \in Undoing /\ op' = "restore"))
    BY <1>a DEF Works, RestorePcs, Undoing
  <2>5. pc' \notin {"rewriteText", "rewriteClear", "rewritePut"} /\ (~session' => staged' = NothingStaged)
    BY <1>a, <1>b DEF Stable
  <2> QED
    BY <2>2, <2>3, <2>4, <2>5 DEF Stable
<1>5. Whole'
  BY <1>a, <1>b DEF Whole, WholeTransaction, WholeCheckpoint
<1> QED
  BY <1>1, <1>2, <1>3, <1>4, <1>5 DEF Content

-----------------------------------------------------------------------------
(* Every step of a handler keeps the contents.                             *)
LEMMA OperationContent ==
    ASSUME OneFault, Inv, Content, OperationNext
    PROVE  Content'
<1> USE StepContent, RunsOnContent, LeavingContent, SettlingContent
<1>1. CASE ApplyNext
  BY <1>1, ApplyPlanContent DEF ApplyNext, RunsOn, Leaving, Settling
<1>2. CASE RestoreNext
  BY <1>2, RestorePlanContent DEF RestoreNext, RunsOn, Leaving, Settling
<1>3. CASE RecoveryNext
  BY <1>3, RecoveringContent DEF RecoveryNext, RunsOn, Leaving, Settling
<1> QED
  BY <1>1, <1>2, <1>3 DEF OperationNext

(* Reviewing, discarding, calling a handler and dying keep them too.       *)
LEMMA EnvironmentContent ==
    ASSUME Inv, Content, (\E handler \in Ops \ {"none"} : Begin(handler)) \/ Review \/ Discard \/ Crash
    PROVE  Content'
<1>a. /\ UNCHANGED <<target, ckpt, applyRec, restoreRec, nextId, edits>>
      /\ Unplanned' /\ job' = "none" /\ txn' \in {None, txn} /\ Stable /\ Whole
  BY DEF Begin, Review, Discard, Crash, Return, Unplanned, disk, store, control, bounds, Content, Inv,
     Tracked, RecoveryPcs
<1>1. CASE \E handler \in Ops \ {"none"} : Begin(handler)
  <2>1. UNCHANGED <<session, staged>> /\ Resting
    BY <1>1 DEF Begin, stage, Resting, Unplanned
  <2>2. (AllBase \/ AllContent) /\ (session => Quiet)
    BY <1>a, <2>1 DEF Stable
  <2>3. AllBase' \/ AllContent'
    BY <1>a, <2>1, <2>2 DEF AllBase, AllContent
  <2>4. /\ ~session' => staged' = NothingStaged
        /\ \A q \in Paths :
              staged'[q] # None => staged'[q].base \in Texts /\ staged'[q].content \in Texts
    BY <1>a, <2>1 DEF Stable, Whole
  <2> QED
    BY <1>a, <2>1, <2>2, <2>3, <2>4, EndedContent
<1>2. CASE Review
  <2>1. session /\ session' = session /\ Resting
    BY <1>2 DEF Review, Resting, Unplanned
  <2>2. Quiet
    BY <1>a, <2>1 DEF Stable
  <2>3. PICK files \in (SUBSET Paths) \ {{}}, content \in [Paths -> (Text \ UserText) \cup {Absent}] :
           staged' = [p \in Paths |->
                         IF p \in files THEN [base |-> target[p], content |-> content[p]] ELSE None]
    BY <1>2 DEF Review
  <2>4. \A q \in Paths : staged'[q] # None =>
           staged'[q].base = target[q] /\ staged'[q].content = content[q]
    BY <2>3
  <2>5. AllBase'
    BY <1>a, <2>4 DEF AllBase
  <2>6. \A q \in Paths : staged'[q] # None => staged'[q].base \in Texts /\ staged'[q].content \in Texts
    BY <1>a, <2>3, <2>4 DEF Whole, Texts
  <2> QED
    BY <1>a, <2>1, <2>2, <2>5, <2>6, EndedContent
<1>3. CASE Discard
  <2>1. session' = session /\ Resting /\ staged' = NothingStaged
    BY <1>3 DEF Discard, Resting, Unplanned
  <2>2. session => Quiet
    BY <1>a, <2>1 DEF Stable
  <2>3. AllBase'
    BY <2>1 DEF AllBase, NothingStaged
  <2>4. \A q \in Paths : staged'[q] # None => staged'[q].base \in Texts /\ staged'[q].content \in Texts
    BY <2>1 DEF NothingStaged
  <2> QED
    BY <1>a, <2>1, <2>2, <2>3, <2>4, EndedContent
<1>4. CASE Crash
  <2>1. session' = FALSE /\ staged' = NothingStaged
    BY <1>4 DEF Crash
  <2>2. AllBase'
    BY <2>1 DEF AllBase, NothingStaged
  <2>3. \A q \in Paths : staged'[q] # None => staged'[q].base \in Texts /\ staged'[q].content \in Texts
    BY <2>1 DEF NothingStaged
  <2> QED
    BY <1>a, <2>1, <2>2, <2>3, EndedContent
<1> QED
  BY <1>1, <1>2, <1>3, <1>4

(* An editor that writes while no handler runs only makes them less        *)
(* certain of what the files hold.                                         *)
LEMMA EditContent ==
    ASSUME Inv, Content, Edit, ~RacingEdits
    PROVE  Content'
<1>a. /\ UNCHANGED <<ckpt, applyRec, restoreRec, nextId, session, staged, txn, job, pc, op, faults>>
      /\ pc = "idle" /\ edits' = edits + 1 /\ edits \in Nat /\ SoundRecords /\ Stable /\ Whole /\ Spent
  BY DEF Edit, store, stage, control, Inv, IInv, TypeOK, BoundsTypeOK, Content
<1>b. edits' # 0 /\ Unplanned' /\ job' = "none" /\ ~Known'
  BY <1>a DEF Unplanned, Known, Inv, Tracked, RecoveryPcs
<1>1. \A q \in Paths : target'[q] \in Texts
  <2>1. PICK p \in Paths, text \in Texts : SetTarget(p, text)
    BY DEF Edit, Texts
  <2> QED
    BY <1>a, <2>1, TargetSet DEF Whole, Inv, IInv, TypeOK
<1>2. SoundRecords'
  BY <1>a, <1>b DEF SoundRecords, SoundApply, SoundRestore, NoRecord, Described
<1>3. Stable'
  <2>1. AllBase' /\ Quiet'
    BY <1>b DEF AllBase, Quiet
  <2>2. ~Works' /\ ~(pc' \in RestorePcs \/ (pc' \in Undoing /\ op' = "restore"))
    BY <1>a DEF Works, Unplanned, RestorePcs, Undoing
  <2> QED
    BY <1>a, <1>b, <2>1, <2>2 DEF Stable
<1>4. Whole'
  BY <1>a, <1>1 DEF Whole, WholeCheckpoint, WholeTransaction
<1> QED
  BY <1>a, <1>b, <1>2, <1>3, <1>4, EndingContents DEF Content

(* Nothing changes when nothing happens.                                   *)
LEMMA StutteringContent ==
    ASSUME Content, UNCHANGED vars
    PROVE  Content'
<1>a. UNCHANGED <<target, temp, backup, ckpt, applyRec, restoreRec, session, staged, memory, op, pc, job,
                  txn, todo, nextId, faults, edits>>
  BY DEF vars, disk, store, stage, control, bounds
<1>1. Contents'
  BY <1>a DEF Content, Contents, ContentAt, PreparedAt, SwappedAt, UndoneAt, RewrittenAt, Unplanned,
     Files, Temp, Backup, Old, New, Original, Applied, First, Last, Committed
<1>2. Ordered' /\ SavedAt' /\ Spent'
  BY <1>a DEF Content, Ordered, SavedAt, Spent, Files, Committed
<1>3. SoundRecords'
  BY <1>a DEF Content, SoundRecords, SoundApply, SoundRestore, Placed, NoRecord, Described, Known, Unplanned
<1>4. Stable'
  BY <1>a DEF Content, Stable, AllBase, AllContent, Quiet, Committed, Resting, Unplanned, Works, Files,
     Original, Applied
<1>5. Whole'
  BY <1>a DEF Content, Whole, WholeTransaction, WholeCheckpoint
<1> QED
  BY <1>1, <1>2, <1>3, <1>4, <1>5 DEF Content

LEMMA ContentInit == Init => ContentInv
<1> SUFFICES ASSUME Init PROVE Content
  BY DEF ContentInv
<1>a. /\ pc = "idle" /\ job = "none" /\ NoRecord /\ ckpt = None /\ staged = NothingStaged /\ txn = None
      /\ session = FALSE /\ \A q \in Paths : target[q] \in Texts
  BY StartAssumption DEF Init, NoRecord, Texts, Paths
<1>1. Contents /\ Ordered
  BY <1>a DEF Contents, Ordered, Unplanned, Swaps, Swapping, Putting
<1>2. SavedAt /\ Spent
  BY <1>a DEF SavedAt, Spent, Uncommitted, Undoing, Rewriting, RestorePcs
<1>3. SoundRecords
  BY <1>a DEF SoundRecords, NoRecord, Described
<1>4. Stable
  <2>1. AllBase
    BY <1>a DEF AllBase, NothingStaged
  <2>2. ~Works /\ ~(pc \in RestorePcs \/ (pc \in Undoing /\ op = "restore"))
    BY <1>a DEF Works, Unplanned, RestorePcs, Undoing
  <2> QED
    BY <1>a, <2>1, <2>2 DEF Stable
<1>5. Whole
  BY <1>a DEF Whole, WholeCheckpoint, WholeTransaction, NothingStaged, NoRecord
<1> QED
  BY <1>1, <1>2, <1>3, <1>4, <1>5 DEF Content

LEMMA ContentNext ==
    ASSUME FilesInv, ContentInv, [Next]_vars
    PROVE  ContentInv'
<1> SUFFICES ASSUME edits' = 0 \/ ~RacingEdits', OneFault PROVE Content'
  BY DEF ContentInv, OneFault
<1>0. Inv /\ edits \in Nat /\ faults \in Nat
  BY BoundAssumption DEF FilesInv, Inv, IInv, TypeOK, BoundsTypeOK
<1>1. CASE OperationNext
  <2>1. edits' = edits /\ faults' \in {faults, faults + 1}
    BY <1>1, OperationEdits
  <2>2. Content
    BY <1>0, <2>1 DEF ContentInv, OneFault
  <2> QED
    BY <1>0, <1>1, <2>2, OperationContent
<1>2. CASE (\E handler \in Ops \ {"none"} : Begin(handler)) \/ Review \/ Discard \/ Crash
  <2>1. edits' = edits /\ faults' = faults
    BY <1>2 DEF Begin, Review, Discard, Crash, bounds
  <2>2. Content
    BY <2>1 DEF ContentInv, OneFault
  <2> QED
    BY <1>0, <1>2, <2>2, EnvironmentContent
<1>3. CASE Edit
  <2>1. edits' # 0 /\ faults' = faults /\ ~RacingEdits
    BY <1>0, <1>3 DEF Edit
  <2>2. Content
    BY <2>1 DEF ContentInv, OneFault
  <2> QED
    BY <1>0, <1>3, <2>1, <2>2, EditContent
<1>4. CASE UNCHANGED vars
  <2>1. Content
    BY <1>4 DEF ContentInv, OneFault, vars, bounds
  <2> QED
    BY <1>4, <2>1, StutteringContent
<1> QED
  BY <1>1, <1>2, <1>3, <1>4 DEF Next

LEMMA ContentAlways == Spec => [](FilesInv /\ ContentInv)
<1>1. FilesInv /\ ContentInv /\ [Next]_vars => ContentInv'
  BY ContentNext
<1> QED
  BY <1>1, ContentInit, FilesAlways, PTL DEF Spec

LEMMA FewFaults ==
    ASSUME MaxFaults \in {0, 1}, FilesInv
    PROVE  faults \in {0, 1}
BY DEF FilesInv, Inv, IInv, TypeOK, BoundsTypeOK

(* As long as no more than one call fails and nobody edits the bundle,     *)
(* the files are as the saved checkpoint says whenever no handler runs and *)
(* no record is pending: after any number of applies, restores, crashes    *)
(* and recoveries, and of recoveries that crash, Restore finds what Apply  *)
(* wrote.                                                                  *)
THEOREM CheckpointIsTrue ==
    ASSUME MaxFaults \in {0, 1}
    PROVE  Spec => []CheckpointDescribesBundle
<1>1. FilesInv /\ ContentInv => CheckpointDescribesBundle
  BY FewFaults DEF ContentInv, Content, SoundRecords, Described, CheckpointDescribesBundle, Settled
<1> QED
  BY <1>1, ContentAlways, PTL

(* Under the same conditions a stage that survived its handler fits the    *)
(* files as one: either all of its files still hold what was reviewed, or  *)
(* all of them hold the outcome.                                           *)
THEOREM AllOrNothing ==
    ASSUME MaxFaults \in {0, 1}
    PROVE  Spec => []FailureIsAllOrNothing
<1>1. FilesInv /\ ContentInv => FailureIsAllOrNothing
  BY FewFaults DEF ContentInv, Content, Stable, AllBase, AllContent, Resting, Unplanned, FailureIsAllOrNothing,
     Settled
<1> QED
  BY <1>1, ContentAlways, PTL

-----------------------------------------------------------------------------
(* What a file stands for while a record is pending, unless it was edited. *)
BundleAt(q) ==
    IF applyRec # None /\ q \in applyRec.ckpt.files
        THEN IF Committed(applyRec) THEN applyRec.ckpt.applied[q] ELSE applyRec.ckpt.original[q]
    ELSE IF restoreRec # None /\ q \in restoreRec.ckpt.files
        THEN IF ckpt # None THEN restoreRec.ckpt.applied[q] ELSE restoreRec.ckpt.original[q]
    ELSE target[q]

Standing == [q \in Paths |-> BundleAt(q)]

LEMMA BundleStands == Inv /\ Content /\ (Known \/ NoRecord) => LogicalBundle = Standing
<1> SUFFICES ASSUME Inv, Content, Known \/ NoRecord, NEW q \in Paths
             PROVE  (IF applyRec # None /\ q \in applyRec.ckpt.files
                        THEN Stands(applyRec, q, Committed(applyRec))
                     ELSE IF restoreRec # None /\ q \in restoreRec.ckpt.files
                        THEN Stands(restoreRec, q, ckpt # None)
                     ELSE target[q]) = BundleAt(q)
  BY DEF LogicalBundle, Standing
<1>1. /\ applyRec # None => Placed(applyRec)
      /\ restoreRec # None => Placed(restoreRec)
  BY DEF Content, SoundRecords, SoundApply, SoundRestore, NoRecord
<1> QED
  BY <1>1 DEF Placed, Stands, BundleAt

LEMMA BundleStandsNext ==
    ASSUME Inv', Content', (Known \/ NoRecord)'
    PROVE  LogicalBundle' = Standing'
<1>1. (Inv /\ Content /\ (Known \/ NoRecord) => LogicalBundle = Standing)'
  BY BundleStands, PTL
<1> QED
  BY <1>1

(* With the files and the records as they were, nothing has happened.      *)
LEMMA SameBundle ==
    ASSUME UNCHANGED <<target, ckpt, applyRec, restoreRec>>
    PROVE  UNCHANGED <<LogicalBundle, LogicalSaved>>
<1>1. LogicalCheckpoint' = LogicalCheckpoint
  BY DEF LogicalCheckpoint, Committed
<1>2. LogicalBundle' = LogicalBundle
  BY DEF LogicalBundle, Stands, Committed
<1> QED
  BY <1>1, <1>2 DEF LogicalSaved

(* A step on one file moves a text that its record stands for.             *)
LEMMA StepStutters ==
    ASSUME Inv, Content, Inv', Content', NEW p \in Paths, ApplyStep(p) \/ RestoreStep(p) \/ RecoveryStep(p)
    PROVE  UNCHANGED <<LogicalBundle, LogicalSaved>>
<1>1. /\ UNCHANGED <<ckpt, applyRec, restoreRec>> /\ p \in Files /\ ~Unplanned /\ pc \notin Unrecorded
      /\ \A q \in Paths : q # p => target'[q] = target[q]
      /\ Known /\ Known'
  BY StepFacts DEF Local, store, Unlooped, Known
<1>2. \/ applyRec = txn /\ txn # None
      \/ restoreRec = txn /\ txn # None
  BY <1>1, RecordKnown
<1>3. Standing' = Standing
  BY <1>1, <1>2 DEF Standing, BundleAt, Committed, Files
<1>4. LogicalCheckpoint' = LogicalCheckpoint
  BY <1>1 DEF LogicalCheckpoint, Committed
<1>5. LogicalBundle' = LogicalBundle
  BY <1>1, <1>3, BundleStands, BundleStandsNext
<1> QED
  BY <1>4, <1>5 DEF LogicalSaved

(* A transaction that is over stands for the files as they are.            *)
LEMMA SettlingStutters ==
    ASSUME OneFault, Inv, Content, Inv', Content', Settling
    PROVE  UNCHANGED <<LogicalBundle, LogicalSaved>>
<1>1. UNCHANGED <<target, ckpt>> /\ NoRecord' /\ Finished
  BY SettlingRest
<1>2. \A q \in Paths : BundleAt(q) = target[q]
  BY <1>1 DEF BundleAt, Finished
<1>3. LogicalBundle' = [q \in Paths |-> target[q]]
  BY <1>1 DEF LogicalBundle, NoRecord
<1>4. LogicalBundle = [q \in Paths |-> target[q]]
  <2>1. CASE RecoverQuarantine
    BY <2>1 DEF LogicalBundle, RecoverQuarantine, InvalidRecord
  <2>2. CASE ~RecoverQuarantine
    <3>1. Known
      BY <2>2 DEF Settling, Known, Unplanned, Abandon, ApplyFinish, RolledBack, RecoveredApply,
         RestoreAbandon, RestoreFinish, RecoveredRestore
    <3>2. LogicalBundle = Standing
      BY <3>1, BundleStands
    <3> QED
      BY <1>2, <3>2 DEF Standing
  <2> QED
    BY <2>1, <2>2
<1>5. LogicalCheckpoint' = LogicalCheckpoint
  BY <1>1 DEF LogicalCheckpoint, Finished, NoRecord
<1> QED
  BY <1>3, <1>4, <1>5 DEF LogicalSaved

(* What an apply saves says what it changed.                               *)
LEMMA CheckpointIsWhole ==
    ASSUME Inv, Content, ckpt # None
    PROVE  /\ ckpt.files \in SUBSET Paths
           /\ ckpt.original \in [Paths -> Texts] /\ ckpt.applied \in [Paths -> Texts]
           /\ \A q \in Paths : q \notin ckpt.files => ckpt.original[q] = Absent /\ ckpt.applied[q] = Absent
<1>1. ckpt \in Checkpoint /\ WholeCheckpoint(ckpt)
  BY DEF Content, Whole, Inv, IInv, TypeOK, StoreTypeOK
<1> QED
  BY <1>1 DEF Checkpoint, WholeCheckpoint

(* Saving the checkpoint is the apply.                                     *)
LEMMA SaveApplies ==
    ASSUME Inv, Content, Inv', Content', CommitSave
    PROVE  Atomic!AtomicApply
<1>a. RunsOn
  BY DEF RunsOn
<1>b. /\ pc = "save" /\ ~Unplanned /\ Files # {} /\ ckpt = None /\ ckpt' = txn.ckpt
      /\ UNCHANGED <<target, applyRec, restoreRec, txn, edits>> /\ Known /\ Known'
  BY DEF CommitSave, Content, SavedAt, Unplanned, Known, disk, Goto, Step, bounds
<1>c. op = "apply" /\ job = "none"
  BY <1>a, RunsOnPlaces
<1>d. applyRec = txn /\ restoreRec = None /\ txn # None /\ txn.ckpt # None
  BY <1>b, <1>c, ApplyRuns DEF Unrecorded
<1>e. ~Committed(applyRec) /\ Committed(applyRec)'
  BY <1>b, <1>d DEF Committed
<1> DEFINE c == ckpt'
           before == [q \in Paths |-> IF q \in c.files THEN LogicalBundle[q] ELSE Absent]
           after == [q \in Paths |-> IF q \in c.files THEN c.applied[q] ELSE Absent]
<1>1. /\ c # None /\ c.files \in SUBSET Paths
      /\ c.original \in [Paths -> Texts] /\ c.applied \in [Paths -> Texts]
      /\ \A q \in Paths : q \notin c.files => c.original[q] = Absent /\ c.applied[q] = Absent
  <2>1. c # None /\ c \in Checkpoint /\ WholeCheckpoint(ckpt)'
    BY <1>b, <1>d DEF Content, Whole, Inv, IInv, TypeOK, StoreTypeOK
  <2> QED
    BY <2>1 DEF Checkpoint, WholeCheckpoint
<1>2. \A q \in Paths : /\ LogicalBundle[q] = IF q \in c.files THEN c.original[q] ELSE target[q]
                       /\ LogicalBundle'[q] = IF q \in c.files THEN c.applied[q] ELSE target[q]
  <2>1. \A q \in Paths : /\ BundleAt(q) = IF q \in c.files THEN c.original[q] ELSE target[q]
                         /\ BundleAt(q)' = IF q \in c.files THEN c.applied[q] ELSE target[q]
    BY <1>b, <1>d, <1>e DEF BundleAt
  <2> QED
    BY <1>b, <2>1, BundleStands, BundleStandsNext DEF Standing
<1>3. LogicalBundle' = [q \in Paths |-> IF q \in c.files THEN c.applied[q] ELSE LogicalBundle[q]]
  <2>1. LogicalBundle' = [q \in Paths |-> LogicalBundle'[q]]
    BY <1>b, BundleStandsNext DEF Standing
  <2> QED
    BY <1>2, <2>1
<1>4. LogicalSaved' = [files |-> c.files, before |-> c.original, after |-> c.applied]
  BY <1>1, <1>b, <1>d, <1>e DEF LogicalSaved, LogicalCheckpoint
<1>5. c.original = before /\ c.applied = after
  BY <1>1, <1>2
<1>6. c.files \in (SUBSET (1..N)) \ {{}} /\ c.applied \in [1..N -> Texts]
  <2>1. c.files # {} /\ Paths = 1..N
    BY <1>b DEF Files, Paths
  <2>2. c.files \in SUBSET (1..N)
    BY <1>1, <2>1
  <2>3. c.applied \in [1..N -> Texts]
    BY <1>1, <2>1
  <2> QED
    BY <2>1, <2>2, <2>3
<1> HIDE DEF c
<1> QED
  BY <1>3, <1>4, <1>5, <1>6, <1>b DEF Atomic!AtomicApply, Atomic!Merge, Atomic!Contents, Texts, Paths

(* Consuming the checkpoint is the restore, and consuming it again after a *)
(* crash is nothing.                                                       *)
LEMMA ConsumeRestores ==
    ASSUME Inv, Content, Inv', Content', RestoreConsume \/ Consume
    PROVE  Atomic!AtomicRestore \/ UNCHANGED <<LogicalBundle, LogicalSaved>>
<1>a. RunsOn
  BY DEF RunsOn
<1>b. /\ pc \in {"rConsume", "consume"} /\ ~Unplanned /\ ckpt' = None
      /\ UNCHANGED <<target, applyRec, restoreRec, edits>> /\ Known /\ Known'
  BY DEF RestoreConsume, Consume, Unplanned, Known, disk, Goto, Step, bounds
<1>c. job = "restore" \/ (op = "restore" /\ job = "none")
  BY <1>a, RunsOnPlaces
<1>d. restoreRec = txn /\ applyRec = None /\ txn # None
  BY <1>b, <1>c, RecordKnown DEF Unrecorded
<1>e. ckpt \in {None, txn.ckpt}
  BY <1>d DEF Content, SoundRecords, SoundRestore
<1>1. CASE ckpt = None
  BY <1>b, <1>1, SameBundle
<1>2. CASE ckpt # None
  <2>1. /\ ckpt.files \in SUBSET Paths
        /\ ckpt.original \in [Paths -> Texts] /\ ckpt.applied \in [Paths -> Texts]
    BY <1>2, CheckpointIsWhole
  <2>2. \A q \in Paths :
           /\ LogicalBundle[q] = IF q \in ckpt.files THEN ckpt.applied[q] ELSE target[q]
           /\ LogicalBundle'[q] = IF q \in ckpt.files THEN ckpt.original[q] ELSE target[q]
    <3>1. \A q \in Paths : /\ BundleAt(q) = IF q \in ckpt.files THEN ckpt.applied[q] ELSE target[q]
                           /\ BundleAt(q)' = IF q \in ckpt.files THEN ckpt.original[q] ELSE target[q]
      BY <1>b, <1>d, <1>e, <1>2 DEF BundleAt
    <3> QED
      BY <1>b, <3>1, BundleStands, BundleStandsNext DEF Standing
  <2>3. LogicalBundle' = [q \in Paths |-> IF q \in ckpt.files THEN ckpt.original[q] ELSE LogicalBundle[q]]
    <3>1. LogicalBundle' = [q \in Paths |-> LogicalBundle'[q]]
      BY <1>b, BundleStandsNext DEF Standing
    <3> QED
      BY <2>2, <3>1
  <2>4. LogicalSaved = [files |-> ckpt.files, before |-> ckpt.original, after |-> ckpt.applied]
    BY <1>d, <1>2 DEF LogicalSaved, LogicalCheckpoint
  <2>5. LogicalSaved # None
    <3>1. ckpt \in Checkpoint
      BY <1>2 DEF Inv, IInv, TypeOK, StoreTypeOK
    <3>2. LogicalSaved \in [files : SUBSET Paths, before : [Paths -> File], after : [Paths -> File]]
      BY <2>4, <3>1 DEF Checkpoint
    <3> QED
      BY <3>2, SavedAssumption
  <2>6. LogicalSaved' = None
    BY <1>b, <1>d DEF LogicalSaved, LogicalCheckpoint
  <2>7. \A q \in LogicalSaved.files : LogicalBundle[q] = LogicalSaved.after[q]
    BY <2>1, <2>2, <2>4
  <2> QED
    BY <1>b, <2>3, <2>4, <2>5, <2>6, <2>7 DEF Atomic!AtomicRestore, Atomic!Merge, Paths
<1> QED
  BY <1>1, <1>2

(* The other steps between two loops change what is recorded, and nothing  *)
(* it stands for.                                                          *)
LEMMA RunsOnStutters ==
    ASSUME Inv, Content, Inv', Content', RunsOn, ~CommitSave, ~RestoreConsume, ~Consume
    PROVE  UNCHANGED <<LogicalBundle, LogicalSaved>>
<1>a. /\ UNCHANGED <<txn, target>> /\ txn \in Transaction /\ txn # None /\ Files \subseteq Paths /\ ~Unplanned
      /\ SavedAt /\ SoundRecords /\ \A q \in Files : ContentAt(q)
      /\ Known /\ Known'
  BY RunsOnFacts DEF Content, Known
<1>b. ASSUME Standing' = Standing PROVE LogicalBundle' = LogicalBundle
  BY <1>a, <1>b, BundleStands, BundleStandsNext
<1>1. CASE PersistApply
  <2>1. /\ pc = "planned" /\ applyRec' = txn /\ restoreRec' = None /\ NoRecord /\ ckpt' = ckpt
        /\ op = "apply"
    BY <1>1, RunsOnStore, RunsOnPlaces DEF PersistApply
  <2>2. ckpt = txn.prev /\ SoundApply(txn) /\ \A q \in Files : target[q] = Original(q)
    BY <1>a, <2>1 DEF SavedAt, Uncommitted, SoundRecords, ContentAt, PreparedAt, Opening, Old
  <2>3. ~Committed(txn)
    <3>1. Committed(txn) <=> ckpt = txn.ckpt
      BY <1>a, <2>2, CommittedIs DEF Inv
    <3> QED
      BY <1>a, <2>2, <3>1, PreviousDiffers
  <2>4. Standing' = Standing
    BY <1>a, <2>1, <2>2, <2>3 DEF Standing, BundleAt, NoRecord, Committed, Files, Original
  <2>5. LogicalCheckpoint' = LogicalCheckpoint
    BY <1>a, <2>1, <2>2, <2>3 DEF LogicalCheckpoint, NoRecord, Committed
  <2> QED
    BY <1>b, <2>4, <2>5 DEF LogicalSaved
<1>2. CASE PersistRestore
  <2>1. /\ pc = "rPlanned" /\ restoreRec' = txn /\ applyRec' = None /\ NoRecord /\ ckpt' = ckpt
        /\ op = "restore"
    BY <1>2, RunsOnStore, RunsOnPlaces DEF PersistRestore
  <2>2. ckpt = txn.ckpt /\ ckpt # None /\ \A q \in Files : target[q] = Applied(q)
    BY <1>a, <2>1, TransactionParts, NoneAssumption DEF SavedAt, RestorePcs, ContentAt, PreparedAt, Opening,
       Old
  <2>3. Standing' = Standing
    BY <1>a, <2>1, <2>2 DEF Standing, BundleAt, NoRecord, Files, Applied
  <2>4. LogicalCheckpoint' = LogicalCheckpoint
    BY <2>1 DEF LogicalCheckpoint, NoRecord
  <2> QED
    BY <1>b, <2>3, <2>4 DEF LogicalSaved
<1>3. CASE CommitDropPrevious \/ Reinstate
  <2>1. UNCHANGED <<applyRec, restoreRec>> /\ pc \in {"commit", "reinstate"} /\ pc \notin Unrecorded
    BY <1>3 DEF CommitDropPrevious, Reinstate, Unrecorded
  <2>2. /\ ~(job = "restore" \/ (job = "none" /\ op = "restore"))
        /\ job \in {"apply", "rollback"} \/ CommitDropPrevious
    BY <1>3, RunsOnPlaces
  <2>3. /\ applyRec = txn /\ restoreRec = None /\ SoundApply(txn)
        /\ txn.prev # txn.ckpt /\ txn.ckpt # None /\ (Committed(txn) <=> ckpt = txn.ckpt)
    BY <1>a, <2>1, <2>2, ApplyRuns
  <2>4. ckpt \in {None, txn.prev} /\ ckpt' \in {None, txn.prev} /\ ~Committed(txn)
    <3>1. CASE CommitDropPrevious
      <4>1. ckpt = txn.prev /\ ckpt' \in {None, ckpt}
        BY <1>a, <3>1 DEF CommitDropPrevious, SavedAt, Uncommitted
      <4> QED
        BY <2>3, <4>1
    <3>2. CASE Reinstate
      <4>1. ~Committed(txn) /\ ckpt' = IF ckpt = None THEN txn.prev ELSE ckpt
        BY <1>a, <3>2, RunsOnPlaces DEF Reinstate, SavedAt
      <4> QED
        BY <2>3, <4>1 DEF SoundApply
    <3> QED
      BY <1>3, <3>1, <3>2
  <2>5. ~Committed(txn)'
    <3>1. txn.ckpt.id = txn.tid /\ txn.tid \in Nat /\ (txn.prev # None => txn.prev.id < txn.tid /\ txn.prev.id \in Nat)
      BY <1>a, <2>1, <2>2, ApplyRuns DEF SoundApply
    <3> QED
      BY <1>a, <2>4, <3>1 DEF Committed
  <2>6. Standing' = Standing
    BY <1>a, <2>1, <2>3, <2>4, <2>5 DEF Standing, BundleAt, Committed
  <2>7. LogicalCheckpoint' = LogicalCheckpoint
    BY <1>a, <2>1, <2>3, <2>4, <2>5 DEF LogicalCheckpoint, Committed
  <2> QED
    BY <1>b, <2>6, <2>7 DEF LogicalSaved
<1>4. CASE ~(PersistApply \/ PersistRestore \/ CommitDropPrevious \/ Reinstate)
  <2>1. UNCHANGED <<applyRec, restoreRec>> /\ ckpt' = ckpt
    BY <1>4, RunsOnStore
  <2> QED
    BY <1>a, <2>1, SameBundle
<1> QED
  BY <1>1, <1>2, <1>3, <1>4

(* Every step of a handler is an apply, a restore, or nothing.             *)
LEMMA OperationIsAtomic ==
    ASSUME OneFault, Inv, Content, Inv', Content', OperationNext
    PROVE  \/ Atomic!AtomicApply \/ Atomic!AtomicRestore
           \/ UNCHANGED <<LogicalBundle, LogicalSaved>>
<1> USE StepStutters, RunsOnStutters, SettlingStutters, SaveApplies, ConsumeRestores
<1>a. Leaving => UNCHANGED <<LogicalBundle, LogicalSaved>>
  BY LeavingFacts, SameBundle
<1>b. ApplyPlan \/ RestorePlan \/ RecoverCommitted \/ RecoverUncommitted \/ RecoverRestore =>
        UNCHANGED <<LogicalBundle, LogicalSaved>>
  BY SameBundle DEF ApplyPlan, RestorePlan, RecoverCommitted, RecoverUncommitted, RecoverRestore,
     Recovering, disk, store
<1>c. RunsOn => \/ Atomic!AtomicApply \/ Atomic!AtomicRestore
                \/ UNCHANGED <<LogicalBundle, LogicalSaved>>
  OBVIOUS
<1>1. CASE ApplyNext
  BY ONLY <1>1, <1>a, <1>b, <1>c, StepStutters, SettlingStutters, OneFault, Inv, Content, Inv', Content'
     DEF ApplyNext, RunsOn, Leaving, Settling
<1>2. CASE RestoreNext
  BY ONLY <1>2, <1>a, <1>b, <1>c, StepStutters, SettlingStutters, OneFault, Inv, Content, Inv', Content'
     DEF RestoreNext, RunsOn, Leaving, Settling
<1>3. CASE RecoveryNext
  BY ONLY <1>3, <1>a, <1>b, <1>c, StepStutters, SettlingStutters, OneFault, Inv, Content, Inv', Content'
     DEF RecoveryNext, RunsOn, Leaving, Settling
<1> QED
  BY <1>1, <1>2, <1>3 DEF OperationNext

(* The editor changes one file of what the bundle stands for, since a text *)
(* no transaction knows is left to stand.                                  *)
LEMMA EditIsAtomic ==
    ASSUME Inv, Content, Content', Edit
    PROVE  Atomic!AtomicEdit
<1>1. PICK p \in Paths : \E text \in Text \cup {Absent} : target[p] # text /\ SetTarget(p, text)
  BY DEF Edit
<1>2. /\ edits < MaxEdits /\ edits' = edits + 1 /\ UNCHANGED <<ckpt, applyRec, restoreRec>>
      /\ \A q \in Paths : q # p => target'[q] = target[q]
  <2>1. PICK text \in Text \cup {Absent} : SetTarget(p, text)
    BY <1>1
  <2>2. \A q \in Paths : target'[q] = IF q = p THEN text ELSE target[q]
    BY <2>1, TargetSet DEF Inv, IInv, TypeOK
  <2> QED
    BY <2>2 DEF Edit, store
<1>3. UNCHANGED LogicalSaved
  BY <1>2 DEF LogicalSaved, LogicalCheckpoint, Committed
<1>4. \A q \in Paths : q # p => LogicalBundle'[q] = LogicalBundle[q]
  BY <1>2 DEF LogicalBundle, Stands, Committed
<1>5. LogicalBundle'[p] \in Texts
  <2>1. WholeTransaction(applyRec)' /\ WholeTransaction(restoreRec)' /\ target'[p] \in Texts
    BY <1>1 DEF Content, Whole
  <2>2. /\ applyRec' # None => applyRec'.ckpt # None
        /\ restoreRec' # None => restoreRec'.ckpt # None
    BY <1>2, TransactionParts, NoneAssumption DEF Inv, IInv, TypeOK, StoreTypeOK
  <2> QED
    BY <1>1, <2>1, <2>2 DEF LogicalBundle, Stands, WholeTransaction, WholeCheckpoint
<1>6. LogicalBundle' = [LogicalBundle EXCEPT ![p] = LogicalBundle'[p]]
  <2>1. /\ LogicalBundle' = [q \in Paths |-> LogicalBundle'[q]]
        /\ LogicalBundle = [q \in Paths |-> LogicalBundle[q]]
    BY DEF LogicalBundle
  <2> QED
    BY <1>4, <2>1
<1> QED
  BY <1>2, <1>3, <1>5, <1>6 DEF Atomic!AtomicEdit, Atomic!Contents, Texts, Paths

LEMMA AtomicStep ==
    ASSUME MaxFaults \in {0, 1}, MaxEdits = 0 \/ ~RacingEdits,
           FilesInv, ContentInv, FilesInv', ContentInv', [Next]_vars
    PROVE  [Atomic!AtomicApply \/ Atomic!AtomicRestore \/ Atomic!AtomicEdit]_(Atomic!avars)
<1>a. OneFault /\ Inv /\ Inv' /\ Content /\ Content'
  BY FewFaults DEF FilesInv, ContentInv, OneFault, Inv, IInv, TypeOK, BoundsTypeOK
<1>1. CASE OperationNext
  BY <1>a, <1>1, OperationIsAtomic, OperationEdits DEF Atomic!avars
<1>2. CASE (\E handler \in Ops \ {"none"} : Begin(handler)) \/ Review \/ Discard \/ Crash \/ UNCHANGED vars
  <2>1. UNCHANGED <<target, ckpt, applyRec, restoreRec, edits>>
    BY <1>2 DEF Begin, Review, Discard, Crash, vars, disk, store, bounds
  <2> QED
    BY <1>a, <2>1, SameBundle DEF Atomic!avars
<1>3. CASE Edit
  BY <1>a, <1>3, EditIsAtomic
<1> QED
  BY <1>1, <1>2, <1>3 DEF Next

LEMMA AtomicStart == Init => Atomic!AtomicInit
<1> SUFFICES ASSUME Init PROVE Atomic!AtomicInit
  OBVIOUS
<1>1. LogicalSaved = None /\ edits = 0 /\ target \in Start
  BY DEF Init, LogicalSaved, LogicalCheckpoint
<1>2. LogicalBundle = [q \in Paths |-> target[q]]
  BY DEF Init, LogicalBundle
<1>3. LogicalBundle = target
  BY <1>1, <1>2, StartAssumption DEF Paths
<1> QED
  BY <1>1, <1>3 DEF Atomic!AtomicInit

(* As long as no more than one call fails and the editor writes between    *)
(* the operations only, also between a crash and the recovery from it,     *)
(* every apply and every restore happens at once for its user or not at    *)
(* all, whatever interrupts it: saving the checkpoint is the apply, and    *)
(* consuming it the restore; no other step of an operation, and no crash,  *)
(* changes what the bundle and its records stand for.                      *)
THEOREM ApplyAndRestoreAreAtomic ==
    ASSUME MaxFaults \in {0, 1}, MaxEdits = 0 \/ RacingEdits = FALSE
    PROVE  Spec => ImplementsAtomicBundle
<1>1. FilesInv /\ ContentInv /\ (FilesInv /\ ContentInv)' /\ [Next]_vars =>
        [Atomic!AtomicApply \/ Atomic!AtomicRestore \/ Atomic!AtomicEdit]_(Atomic!avars)
  BY AtomicStep
<1> QED
  BY <1>1, AtomicStart, ContentAlways, PTL DEF Spec, ImplementsAtomicBundle, Atomic!AtomicSpec

-----------------------------------------------------------------------------
(* The directory is there if a file of the checkpoint belongs in it.       *)
InPlace(c) == c.files \cap Nested # {} => dir

(* An apply that made the directory found nothing where it is now, and     *)
(* nothing is in it but its own files; any other apply found it.           *)
MadeFor(c) ==
    IF c.mkdir
    THEN /\ c.files \cap Nested # {}
         /\ \A q \in Nested : c.original[q] = Absent /\ (q \notin c.files => target[q] = Absent)
    ELSE InPlace(c)

(* The same of an older checkpoint, once the apply t is undone.            *)
MadeBefore(c, t) ==
    /\ InPlace(c)
    /\ c.files \cap Nested # {} => ~t.ckpt.mkdir
    /\ c.mkdir =>
          /\ c.files \cap Nested # {}
          /\ \A q \in Nested :
                /\ c.original[q] = Absent
                /\ q \notin c.files =>
                      IF q \in t.ckpt.files THEN t.ckpt.original[q] = Absent ELSE target[q] = Absent

HousedApply(t) ==
    /\ MadeFor(t.ckpt)
    /\ ckpt = t.ckpt => InPlace(t.ckpt)
    /\ t.prev # None => MadeBefore(t.prev, t)

(* Where an apply has its directory, and where its directory is gone.      *)
Making == {"prepare", "prepareText", "replace", "aside", "put", "commit", "save", "saved"}
Gone ==
    \/ pc \in {"abandon", "verify", "reinstate", "consume", "rConsume", "rUnrecord"}
    \/ pc = "unrecord" /\ (job = "restore" \/ ~Committed(txn))

Housed ==
    /\ \A q \in Nested : target[q] # Absent => dir
    /\ NoRecord /\ ckpt # None => MadeFor(ckpt) /\ InPlace(ckpt)
    /\ applyRec # None => HousedApply(applyRec)
    /\ restoreRec # None => MadeFor(restoreRec.ckpt)
    /\ pc = "planned" => HousedApply(txn)
    /\ pc = "rPlanned" => MadeFor(txn.ckpt)
    /\ pc \in {"planned", "mkdir"} /\ txn.ckpt.mkdir => ~dir
    /\ pc \in Making => InPlace(txn.ckpt)
    /\ Gone /\ txn.ckpt.mkdir => ~dir
HousedInv == edits + faults = 0 => Housed

(* As long as no call fails, a step puts into a file what its transaction  *)
(* found there, but for the swap of an apply.                              *)
LEMMA StepLands ==
    ASSUME Inv, Content, faults = 0, NEW p \in Paths, ApplyStep(p) \/ RestoreStep(p) \/ RecoveryStep(p)
    PROVE  /\ target'[p] \in {target[p], Absent, Original(p)} \/ pc = "put"
           /\ dir' = dir
           /\ pc' \in Making => pc \in Making
           /\ ~(Gone' \/ pc' \in {"planned", "rPlanned", "mkdir"})
<1>a. /\ txn.tid \in Ids /\ p \in Files /\ p \in todo /\ DiskTypeOK /\ ContentAt(p)
      /\ target[p] # Torn /\ pc \notin Undoing /\ op' = op
  BY StepFacts DEF Content, Spent
<1> USE DEF Goto, Step, Loop, Visited, Revisit
<1>1. /\ dir' = dir
      /\ pc' \in Making => pc \in Making
      /\ ~(Gone' \/ pc' \in {"planned", "rPlanned", "mkdir"})
  <2> USE DEF disk, Making, Gone
  <2>1. CASE ApplyStep(p)
    BY <2>1 DEF ApplyStep, PrepareOpen, PrepareText, PrepareDeletion, PrepareRefused, PrepareFails, ReplaceVerify, ReplaceAside, ReplaceFails, ReplacePut, ReplacePutFails, UndoRemove, UndoPut, UndoFails, Cleanup, CleanupFails
  <2>2. CASE RestoreStep(p)
    BY <2>2 DEF RestoreStep, RestorePrepareOpen, RestorePrepareText, RestorePrepareCreation, RestorePrepareFails, RestoreVerify, RestoreAside, RestoreFails, RestorePut, RestorePutFails, RestoreCleanup, RestoreSweep
  <2>3. CASE RecoveryStep(p)
    BY <2>3 DEF RecoveryStep, Sweep, RewriteOpen, RewriteText, RewriteClear, RewritePut, RewriteKeep, RewriteCreation, RewriteSweep
  <2> QED
    BY <2>1, <2>2, <2>3
<1>2. target'[p] \in {target[p], Absent, Original(p)} \/ pc = "put"
  <2>1. CASE ReplacePut(p)
    BY <2>1 DEF ReplacePut
  <2>2. CASE ReplaceAside(p) \/ RestoreAside(p)
    BY <1>a, <2>2, TargetSet DEF ReplaceAside, RestoreAside, MoveAside
  <2>3. CASE PrepareText(p) \/ RestorePrepareText(p) \/ RewriteText(p)
    BY <1>a, <2>3, TextWritten DEF PrepareText, RestorePrepareText, RewriteText
  <2>4. CASE UndoRemove(p) \/ UndoPut(p) \/ UndoFails(p)
    BY <1>a, <2>4 DEF UndoRemove, UndoPut, UndoFails, Undoing
  <2>5. CASE Cleanup(p) \/ CleanupFails(p)
    <3>1. pc = "cleanup"
      BY <2>5 DEF Cleanup, CleanupFails
    <3>2. Backup(p) = Absent
      BY <1>a, <3>1 DEF ContentAt, PreparedAt, Undone
    <3> QED
      BY <2>5, <3>2 DEF Cleanup, CleanupFails, MoveBackDisplaced, StillDisplaced
  <2>6. CASE RestorePut(p)
    <3>1. pc = "rPut" /\ First(p)
      BY <2>6 DEF RestorePut
    <3>2. op = "restore"
      BY <3>1 DEF Inv, Tracked, RestorePcs
    <3>3. Temp(p) = Original(p)
      BY <1>a, <3>1, <3>2 DEF ContentAt, SwappedAt, Putting, New
    <3>4. target' = target \/ SetTarget(p, Temp(p))
      BY <2>6 DEF RestorePut, PutTemp
    <3> QED
      BY <1>a, <3>3, <3>4, TargetSet
  <2>7. CASE RewriteClear(p) \/ RewriteCreation(p)
    BY <1>a, <2>7, TargetSet DEF RewriteClear, RewriteCreation
  <2>8. CASE RewritePut(p)
    <3>1. pc = "rewritePut" /\ First(p) /\ SetTarget(p, Temp(p))
      BY <2>8 DEF RewritePut, PutTemp
    <3>2. Temp(p) = Original(p)
      BY <1>a, <3>1 DEF ContentAt, RewrittenAt
    <3> QED
      BY <1>a, <3>1, <3>2, TargetSet
  <2>9. CASE /\ ~ReplacePut(p) /\ ~ReplaceAside(p) /\ ~RestoreAside(p)
             /\ ~PrepareText(p) /\ ~RestorePrepareText(p) /\ ~RewriteText(p)
             /\ ~UndoRemove(p) /\ ~UndoPut(p) /\ ~UndoFails(p) /\ ~Cleanup(p) /\ ~CleanupFails(p)
             /\ ~RestorePut(p) /\ ~RewriteClear(p) /\ ~RewriteCreation(p) /\ ~RewritePut(p)
    <3>1. target' = target
      <4>1. CASE ApplyStep(p)
        BY <2>9, <4>1 DEF disk, ApplyStep, PrepareOpen, PrepareDeletion, PrepareRefused, PrepareFails, ReplaceVerify, ReplaceFails, ReplacePutFails
      <4>2. CASE RestoreStep(p)
        BY <2>9, <4>2 DEF disk, RestoreStep, RestorePrepareOpen, RestorePrepareCreation, RestorePrepareFails, RestoreVerify, RestoreFails, RestorePutFails, RestoreCleanup, RestoreSweep
      <4>3. CASE RecoveryStep(p)
        BY <2>9, <4>3 DEF disk, RecoveryStep, Sweep, RewriteOpen, RewriteKeep, RewriteSweep
      <4> QED
        BY <4>1, <4>2, <4>3
    <3> QED
      BY <3>1
  <2> QED
    BY <2>1, <2>2, <2>3, <2>4, <2>5, <2>6, <2>7, <2>8, <2>9
<1> QED
  BY <1>1, <1>2

(* What the record of the transaction says of the directory.               *)
LEMMA RecordHoused ==
    ASSUME Inv, Housed, ~Unplanned, pc \notin Unrecorded
    PROVE  MadeFor(txn.ckpt)
BY RecordKnown DEF Housed, HousedApply

LEMMA StepHoused ==
    ASSUME Inv, Content, Housed, faults = 0,
           NEW p \in Paths, ApplyStep(p) \/ RestoreStep(p) \/ RecoveryStep(p)
    PROVE  Housed'
<1>1. /\ UNCHANGED <<ckpt, applyRec, restoreRec, txn, dir>> /\ ~Unplanned /\ pc \notin Unrecorded
      /\ p \in Files /\ Files \subseteq Paths /\ \A q \in Paths : q # p => target'[q] = target[q]
      /\ target'[p] \in {target[p], Absent, Original(p)} \/ pc = "put"
      /\ pc' \in Making => pc \in Making
      /\ ~(Gone' \/ pc' \in {"planned", "rPlanned", "mkdir"})
  BY StepFacts, StepLands DEF Local, store, Unlooped
<1>2. /\ \/ applyRec = txn /\ restoreRec = None
         \/ restoreRec = txn /\ applyRec = None
      /\ txn # None /\ MadeFor(txn.ckpt) /\ Nested \subseteq Paths
  BY <1>1, RecordKnown, RecordHoused, NestedAssumption DEF Paths
<1>3. \A q \in Nested : target'[q] # Absent => dir'
  <2> SUFFICES ASSUME NEW q \in Nested, target'[q] # Absent PROVE dir
    BY <1>1
  <2>1. CASE target'[q] = target[q]
    BY <2>1 DEF Housed
  <2>2. CASE target'[q] # target[q]
    <3>1. q = p /\ (target'[q] = Original(q) \/ pc = "put")
      BY <1>1, <1>2, <2>2
    <3>2. q \in txn.ckpt.files \cap Nested
      BY <1>1, <3>1 DEF Files
    <3>3. CASE pc = "put"
      BY <3>2, <3>3 DEF Housed, Making, InPlace
    <3>4. CASE target'[q] = Original(q)
      BY <1>2, <3>2, <3>4 DEF MadeFor, InPlace, Original
    <3> QED
      BY <3>1, <3>3, <3>4
  <2> QED
    BY <2>1, <2>2
<1>4. \A q \in Nested : q \notin txn.ckpt.files => target'[q] = target[q]
  BY <1>1, <1>2 DEF Files
<1>5. MadeFor(txn.ckpt)'
  BY <1>1, <1>2, <1>4 DEF MadeFor, InPlace
<1>6. applyRec # None => HousedApply(applyRec)'
  <2> SUFFICES ASSUME applyRec = txn PROVE HousedApply(txn)'
    BY <1>1, <1>2
  <2>1. HousedApply(txn)
    BY <1>2 DEF Housed
  <2>2. txn.prev # None => MadeBefore(txn.prev, txn)'
    BY <1>1, <1>4, <2>1 DEF HousedApply, MadeBefore, InPlace
  <2> QED
    BY <1>1, <1>5, <2>1, <2>2 DEF HousedApply, InPlace
<1> QED
  BY <1>1, <1>2, <1>3, <1>5, <1>6 DEF Housed, NoRecord, InPlace


(* Nothing about directories changes where no handler works on a           *)
(* transaction, or has just taken one over.                                *)
LEMMA HousedRest ==
    ASSUME Housed, UNCHANGED <<target, dir, ckpt, applyRec, restoreRec>>,
           Unplanned' \/ pc' \in {"sweep", "rewrite"}
    PROVE  Housed'
<1>1. pc' \notin Making \cup {"planned", "rPlanned", "mkdir"} /\ ~Gone'
  BY DEF Unplanned, Making, Gone
<1>2. /\ \A q \in Nested : target'[q] # Absent => dir'
      /\ (NoRecord /\ ckpt # None => MadeFor(ckpt) /\ InPlace(ckpt))'
      /\ (restoreRec # None => MadeFor(restoreRec.ckpt))'
  BY DEF Housed, NoRecord, MadeFor, InPlace
<1>3. (applyRec # None => HousedApply(applyRec))'
  BY DEF Housed, HousedApply, MadeFor, MadeBefore, InPlace
<1> QED
  BY <1>1, <1>2, <1>3 DEF Housed

(* When a loop that undoes or restores has come to its end, nothing is     *)
(* left in a directory that its apply made.                                *)
LEMMA EmptyNow ==
    ASSUME Inv, Clean, Content, Housed, faults = 0,
           pc \in {"cleanup", "rSweep", "rewrite"}, todo = {}, txn.ckpt.mkdir
    PROVE  DirectoryEmpty
<1>1. ~Unplanned /\ pc \notin Unrecorded
  BY DEF Unplanned, Unrecorded
<1>2. MadeFor(txn.ckpt) /\ Nested \subseteq Paths /\ txn # None
  BY <1>1, RecordHoused, RecordKnown, NestedAssumption DEF Paths
<1>3. ASSUME NEW q \in Files
      PROVE  target[q] = Original(q) /\ Temp(q) = Absent /\ Backup(q) = Absent
  <2>1. ContentAt(q) /\ CleanAt(q)
    BY <1>1 DEF Content, Contents, Clean
  <2>2. pc = "cleanup" => op = "apply"
    BY DEF Inv, Tracked, ApplyPcs
  <2>3. target[q] = Original(q)
    BY <2>1, <2>2 DEF ContentAt, PreparedAt, Undone, Old, RewrittenAt, Rewriting, Restored, SwappedAt
  <2>4. Temp(q) = Absent /\ Backup(q) = Absent
    BY <2>1 DEF CleanAt, Sweeping
  <2> QED
    BY <2>3, <2>4
<1>4. ASSUME NEW q \in Nested PROVE target[q] = Absent
  BY <1>2, <1>3 DEF MadeFor, Files, Original
<1>5. ASSUME NEW i \in Ids, NEW q \in Nested
      PROVE  temp[i][q] = Absent /\ backup[i][q] = Absent
  <2>1. CASE Owned(i, q)
    <3>1. txn.tid = i /\ q \in Files
      BY <1>1, <2>1, RecordKnown DEF Owned, Files
    <3> QED
      BY <1>3, <3>1 DEF Temp, Backup
  <2>2. CASE ~Owned(i, q)
    BY <1>2, <2>2 DEF Clean, AllOwned
  <2> QED
    BY <2>1, <2>2
<1> QED
  BY <1>4, <1>5 DEF DirectoryEmpty

(* Where the directory of a transaction appears and disappears.            *)
LEMMA DirectoryMoves ==
    ASSUME Inv, Clean, Content, Housed, faults' = 0, RunsOn
    PROVE  /\ \/ dir' = dir /\ pc # "mkdir"
              \/ pc = "mkdir" /\ pc' = "prepare" /\ dir' = (dir \/ txn.ckpt.mkdir)
              \/ /\ pc \in {"cleanup", "rSweep", "rewrite"} /\ txn.ckpt.mkdir /\ ~dir'
                 /\ \A q \in Nested : target[q] = Absent
           /\ pc' \in Making => pc \in Making \cup {"mkdir"}
           /\ Gone' => Gone \/ pc \in {"cleanup", "rSweep", "rewrite"}
           /\ pc \in {"cleanup", "rSweep", "rewrite"} /\ txn.ckpt.mkdir => ~dir'
           /\ pc' \notin Unrecorded /\ (pc' = "mkdir" => pc = "planned")
<1> USE DEF Goto, Step, Loop, disk, Making, Gone, Unrecorded
<1>a. faults = 0 /\ faults \in Nat /\ dir \in BOOLEAN
  BY RunsOnFacts DEF Inv, IInv, TypeOK, DiskTypeOK
<1>b. ~Fault
  BY <1>a DEF Fault
<1>c. pc = "mkdir" /\ txn.ckpt.mkdir => ~dir
  BY DEF Housed
<1>1. CASE PersistApply
  BY <1>1 DEF PersistApply
<1>2. CASE MakeDirectory
  BY <1>2 DEF MakeDirectory
<1>3. CASE MakeDirectoryFails
  BY <1>b, <1>c, <1>3 DEF MakeDirectoryFails
<1>4. CASE CleanupDone \/ RestoreSwept \/ RewriteDone
  <2>1. /\ pc \in {"cleanup", "rSweep", "rewrite"} /\ todo = {} /\ RemoveCreatedDirectory
        /\ pc' \in {"abandon", "rConsume", "verify"}
    BY <1>4 DEF CleanupDone, RestoreSwept, RewriteDone
  <2>2. txn.ckpt.mkdir => DirectoryEmpty
    BY <1>a, <2>1, EmptyNow
  <2>3. txn.ckpt.mkdir \in BOOLEAN
    BY RunsOnFacts, TransactionParts, CheckpointParts
  <2> QED
    BY <1>a, <2>1, <2>2, <2>3 DEF RemoveCreatedDirectory, DirectoryEmpty
<1>5. CASE PrepareDone \/ ReplaceDone \/ UndoDone
  BY <1>5 DEF PrepareDone, ReplaceDone, UndoDone
<1>6. CASE CommitDropPrevious \/ CommitSave \/ CommitFails
  BY <1>6 DEF CommitDropPrevious, CommitSave, CommitFails
<1>7. CASE PersistRestore \/ RestorePrepareDone \/ RestoreReplaced \/ RestoreCleanupDone
  BY <1>7 DEF PersistRestore, RestorePrepareDone, RestoreReplaced, RestoreCleanupDone
<1>8. CASE RollbackStart \/ SavedCheck \/ VerifyDone
  BY <1>8 DEF RollbackStart, SavedCheck, VerifyDone
<1>9. CASE RestoreConsume \/ Reinstate \/ Consume
  BY <1>9 DEF RestoreConsume, Reinstate, Consume
<1>10. CASE SweepDone
  <2>1. pc = "sweep" /\ pc' = "unrecord" /\ UNCHANGED <<dir, ckpt, job, txn>>
    BY <1>10 DEF SweepDone, store
  <2>2. job # "restore" /\ ckpt = txn.ckpt
    BY <2>1 DEF Inv, Tracked, Content, SavedAt
  <2>3. ~Unplanned /\ pc \notin Unrecorded /\ job # "restore" /\ (job = "none" => op = "apply")
    BY <2>1, <2>2 DEF Unplanned, Inv, Tracked, RecoveryPcs
  <2>4. Committed(txn)
    BY <2>2, <2>3, ApplyRuns
  <2> QED
    BY <2>1, <2>2, <2>4 DEF Committed
<1> QED
  BY <1>1, <1>2, <1>3, <1>4, <1>5, <1>6, <1>7, <1>8, <1>9, <1>10 DEF RunsOn

(* A step between two loops keeps what is known of the directory.          *)
LEMMA RunsOnHoused ==
    ASSUME Inv, Inv', Clean, Content, Housed, faults' = 0, RunsOn
    PROVE  Housed'
<1>a. /\ UNCHANGED <<target, txn>> /\ ~Unplanned /\ txn \in Transaction /\ txn # None
  BY RunsOnFacts
<1>d. dir \in BOOLEAN /\ dir' \in BOOLEAN /\ txn.ckpt.mkdir \in BOOLEAN
  BY <1>a, TransactionParts, CheckpointParts DEF Inv, IInv, TypeOK, DiskTypeOK
<1>b. /\ \/ dir' = dir /\ pc # "mkdir"
         \/ pc = "mkdir" /\ pc' = "prepare" /\ dir' = (dir \/ txn.ckpt.mkdir)
         \/ /\ pc \in {"cleanup", "rSweep", "rewrite"} /\ txn.ckpt.mkdir /\ ~dir'
            /\ \A q \in Nested : target[q] = Absent
      /\ pc' \in Making => pc \in Making \cup {"mkdir"}
      /\ Gone' => Gone \/ pc \in {"cleanup", "rSweep", "rewrite"}
      /\ pc \in {"cleanup", "rSweep", "rewrite"} /\ txn.ckpt.mkdir => ~dir'
      /\ pc' \notin Unrecorded /\ (pc' = "mkdir" => pc = "planned")
  BY DirectoryMoves
<1>c. /\ \/ applyRec' = txn /\ restoreRec' = None
         \/ restoreRec' = txn /\ applyRec' = None
      /\ applyRec' = txn => pc = "planned" \/ (applyRec = txn /\ pc \notin Unrecorded)
      /\ restoreRec' = txn => pc = "rPlanned" \/ (restoreRec = txn /\ pc \notin Unrecorded)
  BY <1>a, RunsOnStore, RecordKnown
<1>1. \A q \in Nested : target'[q] # Absent => dir'
  <2>1. \A q \in Nested : target[q] # Absent => dir
    BY DEF Housed
  <2> QED
    BY <1>a, <1>b, <1>d, <2>1
<1>2. applyRec' = txn => HousedApply(txn)
  <2>1. pc = "planned" => HousedApply(txn)
    BY DEF Housed
  <2>2. applyRec # None => HousedApply(applyRec)
    BY DEF Housed
  <2> QED
    BY <1>a, <1>c, <2>1, <2>2
<1>3. applyRec' = txn \/ restoreRec' = txn => MadeFor(txn.ckpt)
  BY <1>a, <1>c, <1>2 DEF Housed, HousedApply
<1>4. MadeFor(txn.ckpt)'
  <2>1. MadeFor(txn.ckpt)
    BY <1>c, <1>3
  <2>2. CASE txn.ckpt.mkdir
    BY <1>a, <2>1, <2>2 DEF MadeFor
  <2>3. CASE ~txn.ckpt.mkdir
    <3>1. InPlace(txn.ckpt) /\ (dir => dir')
      BY <1>b, <1>d, <2>1, <2>3 DEF MadeFor
    <3> QED
      BY <1>a, <2>3, <3>1 DEF MadeFor, InPlace
  <2> QED
    BY <2>2, <2>3
<1>5. pc' \in Making => InPlace(txn.ckpt)'
  <2>1. CASE pc \in Making
    <3>1. InPlace(txn.ckpt)
      BY <2>1 DEF Housed
    <3>2. dir' = dir
      BY <1>b, <2>1 DEF Making
    <3> QED
      BY <1>a, <3>1, <3>2 DEF InPlace
  <2>2. CASE pc = "mkdir"
    BY <1>a, <1>b, <1>c, <1>3, <2>2 DEF MadeFor, InPlace
  <2> QED
    BY <1>b, <2>1, <2>2
<1>6. applyRec' = txn => HousedApply(txn)'
  <2> SUFFICES ASSUME applyRec' = txn PROVE HousedApply(txn)'
    OBVIOUS
  <2>1. HousedApply(txn)
    BY <1>2
  <2>2. txn.prev # None => MadeBefore(txn.prev, txn)'
    <3>1. txn.prev # None => MadeBefore(txn.prev, txn)
      BY <2>1 DEF HousedApply
    <3>2. ASSUME txn.prev # None PROVE InPlace(txn.prev)'
      <4>1. InPlace(txn.prev) /\ (txn.prev.files \cap Nested # {} => ~txn.ckpt.mkdir)
        BY <3>1, <3>2 DEF MadeBefore
      <4>2. txn.prev.files \cap Nested # {} => (dir => dir')
        BY <1>b, <1>d, <4>1
      <4> QED
        BY <1>a, <4>1, <4>2 DEF InPlace
    <3> QED
      BY <1>a, <3>1, <3>2 DEF MadeBefore
  <2>3. ckpt' = txn.ckpt => InPlace(txn.ckpt)'
    <3>1. SoundApply(txn) /\ txn.prev # txn.ckpt /\ txn.ckpt # None /\ (Committed(txn) <=> ckpt = txn.ckpt)
      BY <1>a, <1>c, PreviousDiffers, CommittedIs DEF Content, SoundRecords, Inv
    <3>2. ckpt' = txn.ckpt => ckpt = txn.ckpt \/ pc = "save"
      BY <3>1, RunsOnStore
    <3>3. CASE pc = "save"
      <4>1. InPlace(txn.ckpt) /\ dir' = dir
        BY <1>b, <3>3 DEF Housed, Making
      <4> QED
        BY <1>a, <4>1 DEF InPlace
    <3>4. CASE ckpt = txn.ckpt
      <4>1. InPlace(txn.ckpt)
        BY <2>1, <3>4 DEF HousedApply
      <4>2. pc \notin {"cleanup", "rSweep", "rewrite"}
        <5>1. pc = "cleanup" => ckpt = txn.prev
          BY DEF Content, SavedAt, Uncommitted
        <5>2. pc = "rSweep" => restoreRec' = txn
          BY RecordKnown, RunsOnStore DEF Unplanned, Unrecorded, Inv, Tracked, RestorePcs, RecoveryPcs
        <5>3. pc = "rewrite" => ~Committed(txn) \/ restoreRec = txn
          BY <1>a, RecordKnown DEF Unrecorded, Content, SavedAt, Rewriting, Inv, Tracked, RecoveryPcs, IInv, TypeOK, ControlTypeOK, Jobs
        <5>4. restoreRec' = txn => applyRec' = None
          BY <1>a, <1>c
        <5>5. pc = "rewrite" /\ restoreRec = txn => restoreRec' = txn
          BY RunsOnStore DEF Inv, RecordsInv, RecordsExclusive, NoRecord
        <5> QED
          BY <1>a, <3>1, <3>4, <5>1, <5>2, <5>3, <5>4, <5>5
      <4>3. dir => dir'
        BY <1>b, <1>d, <4>2
      <4> QED
        BY <1>a, <4>1, <4>3 DEF InPlace
    <3> QED
      BY <3>2, <3>3, <3>4
  <2>4. MadeFor(txn.ckpt)' /\ txn' = txn
    BY <1>4, <1>a
  <2> QED
    BY <2>2, <2>3, <2>4 DEF HousedApply
<1>7. pc' = "mkdir" /\ txn.ckpt.mkdir => ~dir'
  BY <1>b DEF Housed
<1>8. Gone' /\ txn.ckpt.mkdir => ~dir'
  <2>1. Gone => pc # "mkdir"
    BY DEF Gone
  <2> QED
    BY <1>b, <2>1 DEF Housed
<1> QED
  BY <1>a, <1>b, <1>c, <1>1, <1>4, <1>5, <1>6, <1>7, <1>8 DEF Housed, NoRecord, Unrecorded

(* What a handler leaves when its record goes: its checkpoint, or the one  *)
(* it had replaced, whose directory is as that one knew it.                *)
LEMMA SettlingHoused ==
    ASSUME Inv, Content, Housed, faults' = 0, Settling
    PROVE  Housed'
<1>a. /\ UNCHANGED <<target, ckpt>> /\ Unplanned' /\ NoRecord' /\ Finished
  <2>1. OneFault
    BY DEF OneFault
  <2> QED
    BY <2>1, SettlingRest
<1>b. dir' = dir /\ faults = 0
  <2>1. faults \in Nat
    BY BoundAssumption DEF Inv, IInv, TypeOK, BoundsTypeOK
  <2> QED
    BY <2>1 DEF Settling, Abandon, ApplyFinish, RolledBack, RecoveredApply, RestoreAbandon, RestoreFinish,
       RecoveredRestore, RecoverQuarantine, disk, bounds, Fault
<1>1. \A q \in Nested : target'[q] # Absent => dir'
  BY <1>a, <1>b DEF Housed
<1>2. ASSUME ckpt # None PROVE MadeFor(ckpt) /\ InPlace(ckpt)
  <2>1. CASE applyRec # None
    <3>1. HousedApply(applyRec) /\ SoundApply(applyRec) /\ applyRec \in Transaction
      BY <2>1 DEF Housed, Content, SoundRecords, Inv, IInv, TypeOK, StoreTypeOK
    <3>2. Committed(applyRec) <=> ckpt = applyRec.ckpt
      BY <3>1, CommittedIs DEF Inv
    <3>3. CASE ckpt = applyRec.ckpt
      BY <3>1, <3>3 DEF HousedApply
    <3>4. CASE ckpt # applyRec.ckpt
      <4>1. /\ ckpt = applyRec.prev /\ MadeBefore(ckpt, applyRec)
            /\ \A q \in applyRec.ckpt.files : target[q] = applyRec.ckpt.original[q]
        BY <1>a, <1>2, <2>1, <3>1, <3>2, <3>4 DEF Finished, HousedApply
      <4> QED
        BY <4>1 DEF MadeBefore, MadeFor
    <3> QED
      BY <3>3, <3>4
  <2>2. CASE restoreRec # None
    <3>1. applyRec = None
      BY <2>2 DEF Inv, RecordsInv, RecordsExclusive
    <3>2. ~RestoreAbandon
      BY <1>b DEF RestoreAbandon, Content, Spent
    <3>3. CASE RestoreFinish \/ RecoveredRestore
      BY <1>2, <3>3 DEF RestoreFinish, RecoveredRestore, Content, SavedAt
    <3>4. CASE Abandon \/ ApplyFinish \/ RolledBack \/ RecoveredApply \/ RecoverQuarantine
      <4>1. ~(RecoveredApply \/ RecoverQuarantine)
        BY <3>1 DEF RecoveredApply, RecoverQuarantine, InvalidRecord
      <4>2. /\ ~Unplanned /\ pc \notin Unrecorded
            /\ (pc = "abandon" => op = "apply" /\ job = "none")
            /\ (pc = "unrecord" /\ job \in {"none", "rollback"} => op = "apply")
            /\ (pc = "abandon" \/ (pc = "unrecord" /\ job \in {"none", "rollback"}))
        BY <3>4, <4>1 DEF Abandon, ApplyFinish, RolledBack, Unplanned, Unrecorded, Inv, Tracked, ApplyPcs, RecoveryPcs
      <4> QED
        BY <2>2, <3>1, <4>2, ApplyRuns
    <3> QED
      BY <3>2, <3>3, <3>4 DEF Settling
  <2>3. CASE NoRecord
    BY <1>2, <2>3 DEF Housed
  <2> QED
    BY <2>1, <2>2, <2>3 DEF NoRecord
<1>3. pc' \notin Making \cup {"planned", "rPlanned", "mkdir"} /\ ~Gone'
  BY <1>a DEF Unplanned, Making, Gone
<1>4. (NoRecord /\ ckpt # None => MadeFor(ckpt) /\ InPlace(ckpt))'
  BY <1>a, <1>b, <1>2 DEF MadeFor, InPlace
<1> QED
  BY <1>a, <1>1, <1>3, <1>4 DEF Housed, NoRecord

(* An apply is planned on the directory it found.                          *)
LEMMA ApplyPlanHoused ==
    ASSUME Inv, Content, Housed, ApplyPlan
    PROVE  Housed'
<1>a. /\ UNCHANGED <<target, ckpt, applyRec, restoreRec>> /\ NoRecord
      /\ pc' = "planned" /\ nextId \in Nat /\ txn' \in Transaction /\ txn' # None
      /\ txn'.prev = ckpt /\ txn'.ckpt.id = nextId /\ txn'.ckpt.files = PlannedFiles
      /\ PlannedFiles \subseteq Paths /\ Nested \subseteq Paths
      /\ \A q \in PlannedFiles : txn'.ckpt.original[q] = target[q]
      /\ \A q \in Paths \ PlannedFiles : txn'.ckpt.original[q] = Absent
  <2>1. \A q \in PlannedFiles : staged[q] # None
    BY DEF PlannedFiles
  <2> QED
    BY <2>1, ApplyPlanned, NestedAssumption DEF store, Files, Paths
<1>b. dir' = dir /\ dir \in BOOLEAN /\ txn'.ckpt.mkdir = (~dir /\ PlannedFiles \cap Nested # {})
  BY DEF ApplyPlan, PlannedCheckpoint, disk, Inv, IInv, TypeOK, DiskTypeOK
<1>c. /\ \A q \in Nested : target[q] # Absent => dir
      /\ ckpt # None => MadeFor(ckpt) /\ InPlace(ckpt)
  BY <1>a DEF Housed
<1>1. MadeFor(txn.ckpt)'
  <2>1. CASE txn'.ckpt.mkdir
    <3>1. PlannedFiles \cap Nested # {} /\ \A q \in Nested : target[q] = Absent
      BY <1>b, <1>c, <2>1
    <3> QED
      BY <1>a, <2>1, <3>1 DEF MadeFor
  <2>2. CASE ~txn'.ckpt.mkdir
    <3>1. PlannedFiles \cap Nested # {} => dir
      BY <1>b, <2>2
    <3> QED
      BY <1>a, <1>b, <2>2, <3>1 DEF MadeFor, InPlace
  <2> QED
    BY <2>1, <2>2
<1>2. ckpt # txn'.ckpt
  <2>1. ckpt # None => ckpt.id < nextId /\ ckpt.id \in Nat
    BY CheckpointParts DEF Content, SoundRecords, Inv, IInv, TypeOK, StoreTypeOK, Ids
  <2> QED
    BY <1>a, <2>1, TransactionParts, NoneAssumption
<1>3. ckpt # None => MadeBefore(txn.prev, txn)'
  <2> SUFFICES ASSUME ckpt # None PROVE MadeBefore(txn.prev, txn)'
    OBVIOUS
  <2>1. MadeFor(ckpt) /\ InPlace(ckpt)
    BY <1>c
  <2>2. InPlace(txn.prev)'
    BY <1>a, <1>b, <2>1 DEF InPlace
  <2>3. ckpt.files \cap Nested # {} => ~txn'.ckpt.mkdir
    BY <1>b, <2>1 DEF InPlace
  <2>4. ckpt.mkdir =>
          /\ ckpt.files \cap Nested # {}
          /\ \A q \in Nested :
                /\ ckpt.original[q] = Absent
                /\ q \notin ckpt.files => target[q] = Absent
    BY <2>1 DEF MadeFor
  <2> QED
    BY <1>a, <2>2, <2>3, <2>4 DEF MadeBefore
<1>4. HousedApply(txn)'
  BY <1>a, <1>1, <1>2, <1>3 DEF HousedApply
<1>5. (NoRecord /\ ckpt # None => MadeFor(ckpt) /\ InPlace(ckpt))'
  BY <1>a, <1>b, <1>c DEF MadeFor, InPlace
<1>6. ~Gone' /\ pc' \notin Making
  BY <1>a DEF Gone, Making
<1>7. txn'.ckpt.mkdir => ~dir'
  BY <1>b
<1> QED
  BY <1>a, <1>b, <1>c, <1>4, <1>5, <1>6, <1>7 DEF Housed, NoRecord

(* A restore is planned on the checkpoint that describes the directory.    *)
LEMMA RestorePlanHoused ==
    ASSUME Inv, Content, Housed, RestorePlan
    PROVE  Housed'
<1>a. /\ UNCHANGED <<target, dir, ckpt, applyRec, restoreRec>> /\ NoRecord
      /\ pc' = "rPlanned" /\ ckpt # None /\ txn'.ckpt = ckpt
  BY DEF RestorePlan, StillApplied, disk, store, Inv, RecordsInv
<1>1. MadeFor(ckpt) /\ InPlace(ckpt) /\ \A q \in Nested : target[q] # Absent => dir
  BY <1>a DEF Housed
<1>2. MadeFor(ckpt)' /\ InPlace(ckpt)'
  BY <1>a, <1>1 DEF MadeFor, InPlace
<1>3. MadeFor(txn.ckpt)'
  BY <1>a, <1>2 DEF MadeFor, InPlace
<1>4. ~Gone' /\ pc' \notin Making
  BY <1>a DEF Gone, Making
<1> QED
  BY <1>a, <1>1, <1>2, <1>3, <1>4 DEF Housed, NoRecord

(* Every step of a handler keeps what is known of directories.             *)
LEMMA OperationHoused ==
    ASSUME Inv, Inv', Clean, Content, Housed, faults' = 0, faults = 0, OperationNext
    PROVE  Housed'
<1>a. (\E p \in Paths : ApplyStep(p) \/ RestoreStep(p) \/ RecoveryStep(p)) => Housed'
  BY StepHoused
<1>b. RunsOn \/ Settling => Housed'
  BY RunsOnHoused, SettlingHoused
<1>c. ApplyPlan \/ RestorePlan => Housed'
  BY ApplyPlanHoused, RestorePlanHoused
<1>d. Leaving => Housed'
  <2> SUFFICES ASSUME Leaving PROVE Housed'
    OBVIOUS
  <2>1. dir' = dir
    BY DEF Leaving, ApplyRefused, PersistApplyFails, AbandonFails, CommitNothing, RestoreRefused,
       PersistRestoreFails, RestoreFinishFails, RecoverNothing, RecoverBlocked, RegisterDone, RollbackBlocked,
       SavedChanged, VerifyFails, RecoveryIoError, RecoveryFails, disk
  <2> QED
    BY <2>1, LeavingFacts, HousedRest
<1>e. RecoverCommitted \/ RecoverUncommitted \/ RecoverRestore => Housed'
  BY HousedRest DEF RecoverCommitted, RecoverUncommitted, RecoverRestore, Recovering, disk, store
<1>1. CASE ApplyNext
  BY ONLY <1>1, <1>a, <1>b, <1>c, <1>d DEF ApplyNext, RunsOn, Leaving, Settling
<1>2. CASE RestoreNext
  BY ONLY <1>2, <1>a, <1>b, <1>c, <1>d DEF RestoreNext, RunsOn, Leaving, Settling
<1>3. CASE RecoveryNext
  BY ONLY <1>3, <1>a, <1>b, <1>d, <1>e DEF RecoveryNext, RunsOn, Leaving, Settling
<1> QED
  BY <1>1, <1>2, <1>3 DEF OperationNext

LEMMA HousedInit == Init => HousedInv
<1> SUFFICES ASSUME Init PROVE Housed
  BY DEF HousedInv
<1>1. /\ ckpt = None /\ applyRec = None /\ restoreRec = None /\ pc = "idle"
      /\ dir = (\E p \in Nested : target[p] # Absent)
  BY DEF Init
<1>2. \A q \in Nested : target[q] # Absent => dir
  BY <1>1
<1> QED
  BY <1>1, <1>2 DEF Housed, Making, Gone

LEMMA HousedNext ==
    ASSUME FilesInv, FilesInv', ContentInv, HousedInv, [Next]_vars
    PROVE  HousedInv'
<1> SUFFICES ASSUME edits' + faults' = 0 PROVE Housed'
  BY DEF HousedInv
<1>a. Inv /\ Inv' /\ Clean /\ edits \in Nat /\ faults \in Nat /\ edits' \in Nat /\ faults' \in Nat
  <2>1. Inv /\ Inv' /\ Clean
    BY DEF FilesInv
  <2>2. edits \in Nat /\ faults \in Nat
    BY <2>1, BoundAssumption DEF Inv, IInv, TypeOK, BoundsTypeOK
  <2>3. edits' \in Nat /\ faults' \in Nat
    BY <2>1, BoundAssumption DEF Inv, IInv, TypeOK, BoundsTypeOK
  <2> QED
    BY <2>1, <2>2, <2>3
<1>b. edits' = 0 /\ faults' = 0
  <2>1. \A e, f \in Nat : e + f = 0 => e = 0 /\ f = 0
    OBVIOUS
  <2> QED
    BY <1>a, <2>1
<1>c. ASSUME edits = 0, faults = 0 PROVE Content /\ Housed
  BY <1>c DEF ContentInv, HousedInv
<1>1. CASE OperationNext
  <2>1. edits = 0 /\ faults = 0
    BY <1>a, <1>b, <1>1, OperationEdits
  <2> QED
    BY <1>a, <1>b, <1>c, <1>1, <2>1, OperationHoused
<1>2. CASE (\E handler \in Ops \ {"none"} : Begin(handler)) \/ Review \/ Discard \/ Crash
  <2>1. /\ edits = 0 /\ faults = 0 /\ UNCHANGED <<target, dir, ckpt, applyRec, restoreRec>> /\ Unplanned'
    BY <1>b, <1>2 DEF Begin, Review, Discard, Crash, Return, disk, store, control, bounds, Unplanned
  <2> QED
    BY <1>c, <2>1, HousedRest
<1>3. CASE Edit
  BY <1>a, <1>b, <1>3 DEF Edit
<1>4. CASE UNCHANGED vars
  <2>1. /\ UNCHANGED <<target, dir, ckpt, applyRec, restoreRec, pc, job, txn>> /\ Housed
    BY <1>b, <1>c, <1>4 DEF vars, disk, store, control, bounds
  <2>2. (applyRec # None => HousedApply(applyRec))' /\ (pc = "planned" => HousedApply(txn))'
    BY <2>1 DEF Housed, HousedApply, MadeFor, MadeBefore, InPlace
  <2> QED
    BY <2>1, <2>2 DEF Housed, NoRecord, MadeFor, InPlace, Making, Gone, Committed
<1> QED
  BY <1>1, <1>2, <1>3, <1>4 DEF Next

LEMMA HousedAlways == Spec => [](FilesInv /\ ContentInv /\ HousedInv)
<1>1. FilesInv /\ FilesInv' /\ ContentInv /\ HousedInv /\ [Next]_vars => HousedInv'
  BY HousedNext
<1> QED
  BY <1>1, HousedInit, ContentAlways, PTL DEF Spec

(* Only a handler that ends drops a record.                                *)
LEMMA RecordDropped ==
    ASSUME Inv, Content, OperationNext, ~Settling
    PROVE  (applyRec # None => applyRec' # None) /\ (restoreRec # None => restoreRec' # None)
<1>a. (\E p \in Paths : ApplyStep(p) \/ RestoreStep(p) \/ RecoveryStep(p)) =>
         UNCHANGED <<applyRec, restoreRec>>
  BY StepFacts DEF Local, store
<1>b. Leaving \/ ApplyPlan \/ RestorePlan \/ RecoverCommitted \/ RecoverUncommitted \/ RecoverRestore =>
         UNCHANGED <<applyRec, restoreRec>>
  BY LeavingFacts DEF ApplyPlan, RestorePlan, RecoverCommitted, RecoverUncommitted, RecoverRestore,
     Recovering, store
<1>c. ASSUME RunsOn
      PROVE  (applyRec # None => applyRec' # None) /\ (restoreRec # None => restoreRec' # None)
  BY <1>c, RunsOnStore, RunsOnFacts DEF NoRecord
<1>1. CASE ApplyNext
  BY ONLY ~Settling, <1>1, <1>a, <1>b, <1>c DEF ApplyNext, RunsOn, Leaving, Settling
<1>2. CASE RestoreNext
  BY ONLY ~Settling, <1>2, <1>a, <1>b, <1>c DEF RestoreNext, RunsOn, Leaving, Settling
<1>3. CASE RecoveryNext
  BY ONLY ~Settling, <1>3, <1>a, <1>b, <1>c DEF RecoveryNext, RunsOn, Leaving, Settling
<1> QED
  BY <1>1, <1>2, <1>3 DEF OperationNext

(* It does so where the directory its apply made is gone.                  *)
LEMMA DroppedWhenGone ==
    ASSUME Inv, Content, Housed, faults = 0, Settling
    PROVE  /\ applyRec # None /\ applyRec' = None /\ ~Committed(applyRec) /\ applyRec.ckpt.mkdir => ~dir
           /\ restoreRec # None /\ restoreRec' = None /\ restoreRec.ckpt.mkdir => ~dir
<1>a. ~RestoreAbandon /\ ~RolledBack
  BY DEF RestoreAbandon, RolledBack, Content, Spent
<1>b. Gone /\ txn.ckpt.mkdir => ~dir
  BY DEF Housed
<1>1. CASE Abandon
  <2>1. /\ pc = "abandon" /\ restoreRec' = restoreRec /\ ~Unplanned /\ pc \notin Unrecorded
        /\ op = "apply" /\ job = "none"
    BY <1>1 DEF Abandon, Unplanned, Unrecorded, Inv, Tracked, ApplyPcs, RecoveryPcs
  <2> QED
    BY <1>b, <2>1, ApplyRuns DEF Gone
<1>2. CASE ApplyFinish
  <2>1. /\ pc = "unrecord" /\ job = "none" /\ ~Unplanned /\ pc \notin Unrecorded /\ op = "apply"
        /\ ckpt = txn.ckpt /\ restoreRec' = restoreRec
    BY <1>2 DEF ApplyFinish, Unplanned, Unrecorded, Inv, Tracked, RecoveryPcs, Content, SavedAt
  <2> QED
    BY <2>1, ApplyRuns
<1>3. CASE RecoveredApply
  <2>1. /\ pc = "unrecord" /\ job = "apply" /\ ~Unplanned /\ pc \notin Unrecorded
        /\ restoreRec' = restoreRec
    BY <1>3 DEF RecoveredApply, Unplanned, Unrecorded
  <2> QED
    BY <1>b, <2>1, ApplyRuns DEF Gone
<1>4. CASE RestoreFinish \/ RecoveredRestore
  <2>1. /\ pc = "rUnrecord" \/ (pc = "unrecord" /\ job = "restore")
        /\ applyRec' = applyRec /\ ~Unplanned /\ pc \notin Unrecorded
    BY <1>4 DEF RestoreFinish, RecoveredRestore, Unplanned, Unrecorded
  <2>2. restoreRec # None => restoreRec = txn
    BY <2>1, RecordKnown DEF Inv, Tracked, RestorePcs, RecoveryPcs
  <2> QED
    BY <1>b, <2>1, <2>2 DEF Gone
<1>5. CASE RecoverQuarantine
  <2>1. applyRec.ckpt.files = {} /\ restoreRec' = restoreRec /\ applyRec # None
    BY <1>5 DEF RecoverQuarantine, InvalidRecord
  <2> QED
    BY <2>1 DEF Housed, HousedApply, MadeFor
<1> QED
  BY <1>a, <1>1, <1>2, <1>3, <1>4, <1>5 DEF Settling

LEMMA CreatedDirectoryStep ==
    ASSUME FilesInv, ContentInv, HousedInv, [Next]_vars
    PROVE  [/\ applyRec # None /\ applyRec' = None /\ ~Committed(applyRec)
                 => (applyRec.ckpt.mkdir /\ edits + faults = 0 => ~dir)
            /\ restoreRec # None /\ restoreRec' = None /\ ckpt = None
                 => (restoreRec.ckpt.mkdir /\ edits + faults = 0 => ~dir)]_vars
<1>a. Inv /\ edits \in Nat /\ faults \in Nat
  BY BoundAssumption DEF FilesInv, Inv, IInv, TypeOK, BoundsTypeOK
<1> SUFFICES ASSUME edits + faults = 0
             PROVE  /\ applyRec # None /\ applyRec' = None /\ ~Committed(applyRec) /\ applyRec.ckpt.mkdir
                         => ~dir
                    /\ restoreRec # None /\ restoreRec' = None /\ restoreRec.ckpt.mkdir => ~dir
  OBVIOUS
<1>b. edits = 0 /\ faults = 0
  BY <1>a
<1>c. Content /\ Housed
  BY <1>b DEF ContentInv, HousedInv
<1>1. CASE Settling
  BY <1>a, <1>b, <1>c, <1>1, DroppedWhenGone
<1>2. CASE OperationNext /\ ~Settling
  BY <1>a, <1>c, <1>2, RecordDropped
<1>3. CASE \/ \E handler \in Ops \ {"none"} : Begin(handler)
           \/ Review \/ Discard \/ Edit \/ Crash \/ UNCHANGED vars
  <2>1. UNCHANGED <<applyRec, restoreRec>>
    BY <1>3 DEF Begin, Review, Discard, Edit, Crash, store, vars
  <2> QED
    BY <2>1
<1> QED
  BY <1>1, <1>2, <1>3 DEF Next

(* As long as no call fails and nobody edits the bundle, the directory     *)
(* that an apply made is gone once the apply is undone, and once it is     *)
(* restored, whether the handler or a recovery after a crash did it: the   *)
(* files it was made for were its only contents, and the loop that removes *)
(* or restores them leaves none of its own files there either.             *)
THEOREM CreatedDirectoryGoes == Spec => CreatedDirectoryRemoved
<1>1. FilesInv /\ ContentInv /\ HousedInv /\ [Next]_vars =>
        [/\ applyRec # None /\ applyRec' = None /\ ~Committed(applyRec)
              => (applyRec.ckpt.mkdir /\ edits + faults = 0 => ~dir)
         /\ restoreRec # None /\ restoreRec' = None /\ ckpt = None
              => (restoreRec.ckpt.mkdir /\ edits + faults = 0 => ~dir)]_vars
  BY CreatedDirectoryStep
<1> QED
  BY <1>1, HousedAlways, PTL DEF Spec, CreatedDirectoryRemoved
=============================================================================
