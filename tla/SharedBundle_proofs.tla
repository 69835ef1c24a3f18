-------------------------- MODULE SharedBundle_proofs --------------------------
(***************************************************************************)
(* Two connections over one bundle leave no file half written, for every   *)
(* number of files, texts, transactions, deaths of the process and edits   *)
(* that replace a file, whenever these are made: as long as no call fails  *)
(* and no half-written file is reviewed or left by a death in the bundle.  *)
(***************************************************************************)
EXTENDS SharedBundle, TLAPS

Whole == Text \cup {Absent}
Torn == {LeftTorn, RightTorn}
Paths == 1..N
Ids == 1..MaxIds
Contents == [Paths -> Whole \cup Torn]

(* Records that tell of whole texts only.                                  *)
WholeCheckpoint ==
    [id : Ids, files : SUBSET Paths,
     original : [Paths -> Whole], applied : [Paths -> Whole], mkdir : BOOLEAN]
WholeTransaction == [tid : Ids, ckpt : WholeCheckpoint, prev : WholeCheckpoint \cup {None}]
WholeStages == [Paths -> [base : Whole, content : Whole] \cup {None}]

Disk ==
    target \in Contents /\ temp \in [Ids -> Contents] /\ backup \in [Ids -> Contents]

Store ==
    /\ ckpt \in WholeCheckpoint \cup {None}
    /\ applyRec \in WholeTransaction \cup {None}
    /\ restoreRec \in WholeTransaction \cup {None}

(* A handler that has planned nothing, and one that holds a new file open. *)
Unplanned == {"idle", "recover", "settled"}
Writing == {"prepareText", "rPrepareText", "rewriteText"}
Displacing == {"aside", "rAside"}

(* Where the files to visit are not yet those of the transaction.          *)
Bare == Unplanned \cup {"planned", "mkdir", "abandon", "rPlanned"}

(* What a session holds in memory.                                         *)
Connection(staged, memory, pc, job, txn, todo) ==
    /\ staged \in WholeStages /\ memory \in WholeCheckpoint \cup {None}
    /\ txn \in WholeTransaction \cup {None} /\ todo \in SUBSET Paths
    /\ pc \notin Unplanned => txn \in WholeTransaction
    /\ pc \notin Bare => todo \subseteq txn.ckpt.files
    /\ pc \in Unplanned => job = "none"

(* A handler that will take an id.                                         *)
Planning(op, pc, job) ==
    op \in {"apply", "restore"} /\ (pc \in {"recover", "settled"} \/ job \in {"apply", "restore"})

Room ==
    /\ nextId \in Nat \ {0}
    /\ Planning(op1, pc1, job1) \/ Planning(op2, pc2, job2) => nextId <= MaxIds
    /\ Planning(op1, pc1, job1) /\ Planning(op2, pc2, job2) => nextId < MaxIds

(* A number once taken is not given to another transaction.                *)
Numbered == \A t \in {applyRec, restoreRec, txn1, txn2} : t # None => t.tid < nextId

Foremost(p, todo) == p \in todo /\ \A q \in todo : p <= q

(* The file beside p is one of the transaction that a handler works on.    *)
Works(pc, txn, i, p) == pc \notin Unplanned /\ txn.tid = i /\ p \in txn.ckpt.files

(* An empty file left by a death: nobody works on its transaction, and no  *)
(* recovery takes a transaction up while such a file is there.             *)
Dead(i, p) == i < nextId /\ ~Works(pc1, txn1, i, p) /\ ~Works(pc2, txn2, i, p)

(* The empty file a connection has open lies where it was made, or where   *)
(* the other one has put it: it is never among the displaced texts.        *)
Open(torn, pc, txn, todo) ==
    \A p \in Paths :
        /\ target[p] = torn => pc \in Writing /\ Foremost(p, todo)
        /\ \A i \in Ids :
              /\ temp[i][p] = torn
                    => \/ pc \in Writing /\ Foremost(p, todo) /\ i = txn.tid
                       \/ Dead(i, p)
              /\ backup[i][p] # torn

(* The text about to be displaced was verified to be a whole one.          *)
Verified(pc, todo) ==
    pc \in Displacing => \A p \in Paths : Foremost(p, todo) => target[p] \in Whole

HalfWritten ==
    /\ Disk /\ Store /\ Room /\ Numbered
    /\ Connection(staged1, memory1, pc1, job1, txn1, todo1)
    /\ Connection(staged2, memory2, pc2, job2, txn2, todo2)
    /\ Open(LeftTorn, pc1, txn1, todo1) /\ Open(RightTorn, pc2, txn2, todo2)
    /\ Verified(pc1, todo1) /\ Verified(pc2, todo2)

SharedInv ==
    /\ faults \in Nat /\ exposed \in BOOLEAN
    /\ faults = 0 /\ ~exposed => HalfWritten

-----------------------------------------------------------------------------
USE DEF Left!Paths, Left!Ids, Left!disk, Left!store, Left!stage, Left!control, Left!bounds,
        Left!Goto, Left!Step, Left!Loop, Left!Visited, Left!Revisit, Left!Files,
        Left!Original, Left!Applied, Left!Temp, Left!Backup, Left!First, Left!Last,
        Right!Paths, Right!Ids, Right!disk, Right!store, Right!stage, Right!control, Right!bounds,
        Right!Goto, Right!Step, Right!Loop, Right!Visited, Right!Revisit, Right!Files,
        Right!Original, Right!Applied, Right!Temp, Right!Backup, Right!First, Right!Last

(* What a step of a connection may do to the files: it opens a file, it    *)
(* gives it its text, or it moves and removes texts while none is open.    *)
Opens(torn, pc, npc, txn, todo) ==
    /\ pc \notin Writing /\ npc \in Writing
    /\ UNCHANGED <<target, backup>>
    /\ \A i \in Ids, p \in Paths :
          \/ temp'[i][p] = temp[i][p]
          \/ temp'[i][p] = torn /\ Foremost(p, todo) /\ i = txn.tid

Closes(torn, pc, npc, txn, todo) ==
    /\ pc \in Writing /\ npc \notin Writing \cup Displacing
    /\ \A p \in Paths :
          /\ target'[p] \in Whole \cup {target[p]}
          /\ Foremost(p, todo) => target'[p] # torn
          /\ \A i \in Ids :
                /\ backup'[i][p] \in Whole \cup {backup[i][p]}
                /\ temp'[i][p] \in Whole \cup {temp[i][p]}
                /\ Foremost(p, todo) /\ i = txn.tid => temp'[i][p] # torn

Moves(pc, npc, txn, todo, ntodo) ==
    /\ pc \notin Writing /\ npc \notin Writing
    /\ npc \in Displacing => \A p \in Paths : Foremost(p, ntodo) => target'[p] \in Whole
    /\ \A p \in Paths :
          /\ \/ target'[p] \in Whole \cup {target[p]}
             \/ \E i \in Ids : target'[p] = backup[i][p]
             \/ \E i \in Ids : target'[p] = temp[i][p] /\ Works(pc, txn, i, p)
          /\ \A i \in Ids :
                /\ temp'[i][p] \in Whole \cup {temp[i][p]}
                /\ \/ backup'[i][p] \in Whole \cup {backup[i][p]}
                   \/ pc \in Displacing /\ Foremost(p, todo) /\ backup'[i][p] = target[p]

LEMMA ForemostIsOne ==
    ASSUME NEW todo \in SUBSET Paths, NEW p, NEW q, Foremost(p, todo), Foremost(q, todo)
    PROVE  p = q
  BY DEF Foremost, Paths
-----------------------------------------------------------------------------
(* The steps of the left connection.                                       *)
LeftMoved ==
    /\ Disk'
    /\ \/ Opens(LeftTorn, pc1, pc1', txn1, todo1) /\ UNCHANGED <<txn1, todo1>>
       \/ Closes(LeftTorn, pc1, pc1', txn1, todo1)
       \/ Moves(pc1, pc1', txn1, todo1, todo1')

LeftKept ==
    /\ Store'
    /\ Connection(staged1, memory1, pc1, job1, txn1, todo1)'
    /\ \A t \in {applyRec', restoreRec', txn1'} : t # None => t.tid < nextId'
    /\ \A i \in Ids, p \in Paths : Works(pc1, txn1, i, p)'
          => Works(pc1, txn1, i, p) \/ i = nextId \/ temp'[i][p] \in Whole
    /\ nextId' \in Nat \ {0}
    /\ \/ nextId' = nextId /\ (Planning(op1, pc1, job1)' => Planning(op1, pc1, job1))
       \/ nextId' = nextId + 1 /\ Planning(op1, pc1, job1) /\ ~Planning(op1, pc1, job1)'

LEMMA LeftStill ==
    ASSUME HalfWritten, UNCHANGED <<target, temp, backup>>, pc1 \notin Writing, pc1' \notin Writing,
           pc1' \in Displacing => \A p \in Paths : Foremost(p, todo1') => target[p] \in Whole
    PROVE  LeftMoved
  BY DEF LeftMoved, Moves, HalfWritten, Disk

(* Nobody takes up the transaction of a file left by a death.              *)
LEMMA LeftLeavesDead ==
    ASSUME HalfWritten, LeftKept, UNCHANGED rightVars,
           NEW i \in Ids, NEW p \in Paths, Dead(i, p), temp'[i][p] \notin Whole
    PROVE  Dead(i, p)'
  <1>1. /\ Works(pc2, txn2, i, p)' <=> Works(pc2, txn2, i, p)
        /\ Works(pc1, txn1, i, p)' => Works(pc1, txn1, i, p) \/ i = nextId
    BY DEF LeftKept, rightVars, Works
  <1>2. i < nextId /\ ~Works(pc1, txn1, i, p) /\ ~Works(pc2, txn2, i, p)
    BY DEF Dead
  <1>3. i \in Nat /\ nextId \in Nat /\ nextId' \in {nextId, nextId + 1}
    BY SharedBoundAssumption DEF Ids, LeftKept, HalfWritten, Room
  <1> HIDE DEF Works
  <1> QED  BY <1>1, <1>2, <1>3 DEF Dead

(* An open file stays with the one who has it open.                        *)
LEMMA LeftKeepsOpen ==
    ASSUME HalfWritten, LeftMoved, LeftKept, UNCHANGED rightVars
    PROVE  /\ Open(LeftTorn, pc1, txn1, todo1)' /\ Open(RightTorn, pc2, txn2, todo2)'
           /\ Verified(pc1, todo1)' /\ Verified(pc2, todo2)'
  <1>1. UNCHANGED <<pc2, txn2, todo2>>
    BY DEF rightVars
  <1>2. todo1 \in SUBSET Paths /\ todo2 \in SUBSET Paths
    BY DEF HalfWritten, Connection
  <1>3. \A p, q \in Paths : Foremost(p, todo1) /\ Foremost(q, todo1) => p = q
    BY <1>2 DEF Foremost, Paths
  <1>4. /\ LeftTorn \notin Whole /\ RightTorn \notin Whole /\ LeftTorn # RightTorn
    BY SharedTextAssumption DEF Whole
  <1>5. Writing \cap Displacing = {}
    BY DEF Writing, Displacing
  <1>9. \A i \in Ids, p \in Paths : Dead(i, p) /\ temp'[i][p] \notin Whole => Dead(i, p)'
    BY LeftLeavesDead
  <1>10. /\ \A p \in Paths : target[p] = LeftTorn => pc1 \in Writing /\ Foremost(p, todo1)
         /\ \A p \in Paths : target[p] = RightTorn => pc2 \in Writing /\ Foremost(p, todo2)
         /\ \A i \in Ids, p \in Paths :
               /\ temp[i][p] = LeftTorn
                     => \/ pc1 \in Writing /\ Foremost(p, todo1) /\ i = txn1.tid
                        \/ Dead(i, p)
               /\ temp[i][p] = RightTorn
                     => \/ pc2 \in Writing /\ Foremost(p, todo2) /\ i = txn2.tid
                        \/ Dead(i, p)
               /\ backup[i][p] # LeftTorn /\ backup[i][p] # RightTorn
    BY DEF HalfWritten, Open
  <1>11. /\ pc1 \in Displacing => \A p \in Paths : Foremost(p, todo1) => target[p] \in Whole
         /\ pc2 \in Displacing => \A p \in Paths : Foremost(p, todo2) => target[p] \in Whole
    BY DEF HalfWritten, Verified
  <1>12. \A i \in Ids, p \in Paths : Dead(i, p) => ~Works(pc1, txn1, i, p)
    BY DEF Dead
  <1>13. \A i \in Ids, p \in Paths : target[p] \in Whole \cup Torn /\ temp[i][p] \in Whole \cup Torn
                                   /\ backup[i][p] \in Whole \cup Torn
    BY DEF HalfWritten, Disk, Contents
  <1> HIDE DEF Dead, Works, Foremost, Whole
  <1>6. CASE Opens(LeftTorn, pc1, pc1', txn1, todo1) /\ UNCHANGED <<txn1, todo1>>
    <2>1. Open(LeftTorn, pc1, txn1, todo1)'
      BY ONLY <1>4, <1>6, <1>9, <1>10 DEF Opens, Open, Foremost
    <2>2. Open(RightTorn, pc2, txn2, todo2)'
      BY ONLY <1>1, <1>4, <1>6, <1>9, <1>10 DEF Opens, Open, Foremost
    <2>3. Verified(pc1, todo1)' /\ Verified(pc2, todo2)'
      BY ONLY <1>1, <1>5, <1>6, <1>11 DEF Opens, Verified, Foremost
    <2> QED  BY <2>1, <2>2, <2>3
  <1>7. CASE Closes(LeftTorn, pc1, pc1', txn1, todo1)
    <2>1. Open(LeftTorn, pc1, txn1, todo1)'
      BY ONLY <1>3, <1>4, <1>7, <1>9, <1>10 DEF Closes, Open
    <2>2. Open(RightTorn, pc2, txn2, todo2)'
      BY ONLY <1>1, <1>4, <1>7, <1>9, <1>10 DEF Closes, Open, Foremost
    <2>3. Verified(pc1, todo1)' /\ Verified(pc2, todo2)'
      BY ONLY <1>1, <1>4, <1>7, <1>11 DEF Closes, Verified, Foremost
    <2> QED  BY <2>1, <2>2, <2>3
  <1>8. CASE Moves(pc1, pc1', txn1, todo1, todo1')
    <2>1. /\ pc1 \notin Writing /\ pc1' \notin Writing
          /\ \A p \in Paths : target[p] # LeftTorn
          /\ \A i \in Ids, p \in Paths : temp[i][p] = LeftTorn => Dead(i, p)
      BY ONLY <1>8, <1>10 DEF Moves
    <2>2. \A i \in Ids, p \in Paths :
             Works(pc1, txn1, i, p)
                => /\ temp[i][p] # LeftTorn
                   /\ temp[i][p] = RightTorn => pc2 \in Writing /\ Foremost(p, todo2)
      BY ONLY <1>10, <1>12, <2>1
    <2>3. \A i \in Ids, p \in Paths :
             /\ temp'[i][p] \in Whole \cup {temp[i][p]}
             /\ \/ backup'[i][p] \in Whole \cup {backup[i][p]}
                \/ pc1 \in Displacing /\ Foremost(p, todo1) /\ backup'[i][p] = target[p]
      BY ONLY <1>8 DEF Moves
    <2>4. \A i \in Ids, p \in Paths : backup'[i][p] # LeftTorn /\ backup'[i][p] # RightTorn
      BY ONLY <1>4, <1>10, <1>11, <2>3
    <2>5. \A p \in Paths :
             \/ target'[p] \in Whole \cup {target[p]}
             \/ \E i \in Ids : target'[p] = backup[i][p]
             \/ \E i \in Ids : target'[p] = temp[i][p] /\ Works(pc1, txn1, i, p)
      BY ONLY <1>8 DEF Moves
    <2>6. \A p \in Paths :
             /\ target'[p] # LeftTorn
             /\ target'[p] = RightTorn => pc2 \in Writing /\ Foremost(p, todo2)
      BY ONLY <1>4, <1>10, <2>1, <2>2, <2>5
    <2>7. Open(LeftTorn, pc1, txn1, todo1)'
      <3>1. \A i \in Ids, p \in Paths : temp'[i][p] = LeftTorn => Dead(i, p)'
        BY ONLY <1>4, <1>9, <2>1, <2>3
      <3> QED  BY ONLY <2>4, <2>6, <3>1 DEF Open
    <2>8. Open(RightTorn, pc2, txn2, todo2)'
      <3>1. \A i \in Ids, p \in Paths : temp'[i][p] = RightTorn
                => \/ pc2 \in Writing /\ Foremost(p, todo2) /\ i = txn2.tid
                   \/ Dead(i, p)'
        BY ONLY <1>4, <1>9, <1>10, <2>3
      <3> QED  BY ONLY <1>1, <2>4, <2>6, <3>1 DEF Open, Foremost
    <2>9. Verified(pc1, todo1)'
      BY ONLY <1>8 DEF Moves, Verified
    <2>10. ASSUME pc2 \in Displacing, NEW p \in Paths, Foremost(p, todo2)
           PROVE  target'[p] \in Whole
      <3>1. target[p] \in Whole
        BY <1>11, <2>10
      <3>2. \A i \in Ids : /\ backup[i][p] \in Whole
                           /\ Works(pc1, txn1, i, p) => temp[i][p] \in Whole
        BY <1>5, <1>10, <1>13, <2>2, <2>10 DEF Torn
      <3> QED  BY ONLY <2>5, <3>1, <3>2, p \in Paths
    <2>11. Verified(pc2, todo2)'
      BY ONLY <1>1, <2>10 DEF Verified, Foremost
    <2> QED  BY <2>7, <2>8, <2>9, <2>11
  <1> QED
    BY <1>6, <1>7, <1>8 DEF LeftMoved

(* The transaction the left connection works on.                           *)
LEMMA LeftTransaction ==
    ASSUME HalfWritten, pc1 \notin Unplanned
    PROVE  /\ txn1 \in WholeTransaction /\ txn1.tid \in Ids
           /\ txn1.ckpt \in WholeCheckpoint /\ txn1.prev \in WholeCheckpoint \cup {None}
           /\ txn1.ckpt.files \in SUBSET Paths
           /\ txn1.ckpt.original \in [Paths -> Whole] /\ txn1.ckpt.applied \in [Paths -> Whole]
  BY DEF HalfWritten, Connection, WholeTransaction, WholeCheckpoint

(* A file still to visit is one of the transaction.                        *)
LEMMA LeftWorks ==
    ASSUME HalfWritten, pc1 \notin Bare, NEW p \in todo1
    PROVE  Works(pc1, txn1, txn1.tid, p)
  BY DEF HalfWritten, Connection, Works, Bare

(* What the records and the handler hold is numbered.                      *)
LEMMA LeftNumbered ==
    ASSUME HalfWritten, nextId' \in {nextId, nextId + 1},
           applyRec' \in {applyRec, restoreRec, txn1, None},
           restoreRec' \in {applyRec, restoreRec, txn1, None},
           txn1' \in {applyRec, restoreRec, txn1, None}
    PROVE  \A t \in {applyRec', restoreRec', txn1'} : t # None => t.tid < nextId'
  <1>1. \A t \in {applyRec, restoreRec, txn1} : t # None => t.tid \in Nat /\ t.tid < nextId
    BY SharedBoundAssumption DEF HalfWritten, Numbered, Store, Connection, WholeTransaction, Ids
  <1>2. nextId \in Nat
    BY DEF HalfWritten, Room
  <1> QED  BY <1>1, <1>2

LEMMA LeftGoesOn ==
    ASSUME HalfWritten, pc1 \notin Unplanned, pc1' \notin Unplanned, todo1' \in SUBSET Paths,
           pc1' \notin Bare => todo1' \subseteq txn1.ckpt.files,
           applyRec' \in {applyRec, txn1}, restoreRec' \in {restoreRec, txn1},
           Store', UNCHANGED <<staged1, memory1, nextId, op1, job1, txn1>>
    PROVE  LeftKept
  <1>1. \A t \in {applyRec', restoreRec', txn1'} : t # None => t.tid < nextId'
    BY LeftNumbered
  <1>2. \A i \in Ids, p \in Paths : Works(pc1, txn1, i, p)' => Works(pc1, txn1, i, p)
    BY DEF Works
  <1>3. Connection(staged1, memory1, pc1, job1, txn1, todo1)'
    BY DEF HalfWritten, Connection
  <1>4. Planning(op1, pc1, job1)' => Planning(op1, pc1, job1)
    BY DEF Planning, Unplanned
  <1>5. nextId' \in Nat \ {0}
    BY DEF HalfWritten, Room
  <1> QED
    BY <1>1, <1>2, <1>3, <1>4, <1>5 DEF LeftKept

LEMMA LeftStored ==
    ASSUME HalfWritten, UNCHANGED <<ckpt, applyRec, restoreRec>>
    PROVE  Store'
  BY DEF HalfWritten, Store

LEMMA LeftReturns ==
    ASSUME HalfWritten, Left!Return, Store', nextId' = nextId,
           applyRec' \in {applyRec, None}, restoreRec' \in {restoreRec, None},
           staged1' \in WholeStages, memory1' \in WholeCheckpoint \cup {None}
    PROVE  LeftKept
  <1>1. \A t \in {applyRec', restoreRec', txn1'} : t # None => t.tid < nextId'
    BY LeftNumbered DEF Left!Return
  <1>2. \A i, p : ~Works(pc1, txn1, i, p)'
    BY DEF Works, Unplanned, Left!Return
  <1> QED
    BY <1>1, <1>2 DEF LeftKept, HalfWritten, Connection, Room, Planning, Unplanned, Bare, Left!Return

LEMMA LeftApplyStepKept ==
    ASSUME HalfWritten, NEW p \in Paths, Left!ApplyStep(p), faults = 0, faults' = 0
    PROVE  LeftKept /\ pc1 \notin Bare /\ p \in todo1
  <1>1. ~Left!Fault
    BY DEF Left!Fault
  <1>2. pc1 \notin Bare /\ pc1' \notin Bare /\ p \in todo1
    BY <1>1 DEF Left!ApplyStep, Left!PrepareOpen, Left!PrepareText, Left!PrepareDeletion,
          Left!PrepareRefused, Left!PrepareFails, Left!ReplaceVerify, Left!ReplaceAside, Left!ReplaceFails,
          Left!ReplacePut, Left!ReplacePutFails, Left!UndoRemove, Left!UndoPut,
          Left!UndoFails, Left!Cleanup, Left!CleanupFails, Bare, Unplanned
  <1>3. UNCHANGED <<ckpt, applyRec, restoreRec, staged1, memory1, nextId, op1, job1, txn1>>
    BY <1>1 DEF Left!ApplyStep, Left!PrepareOpen, Left!PrepareText, Left!PrepareDeletion,
          Left!PrepareRefused, Left!PrepareFails, Left!ReplaceVerify, Left!ReplaceAside, Left!ReplaceFails,
          Left!ReplacePut, Left!ReplacePutFails, Left!UndoRemove, Left!UndoPut,
          Left!UndoFails, Left!Cleanup, Left!CleanupFails
  <1>4. txn1.ckpt.files \in SUBSET Paths /\ todo1 \subseteq txn1.ckpt.files
    BY <1>2, LeftTransaction DEF HalfWritten, Connection, Bare
  <1>5. todo1' \in {todo1, todo1 \ {p}, txn1.ckpt.files, txn1.ckpt.files \ todo1,
                    (txn1.ckpt.files \ todo1) \cup {p}}
    BY <1>1 DEF Left!ApplyStep, Left!PrepareOpen, Left!PrepareText, Left!PrepareDeletion,
          Left!PrepareRefused, Left!PrepareFails, Left!ReplaceVerify, Left!ReplaceAside, Left!ReplaceFails,
          Left!ReplacePut, Left!ReplacePutFails, Left!UndoRemove, Left!UndoPut,
          Left!UndoFails, Left!Cleanup, Left!CleanupFails
  <1>6. todo1' \subseteq txn1.ckpt.files
    BY <1>2, <1>4, <1>5
  <1> QED
    BY <1>2, <1>3, <1>4, <1>6, LeftGoesOn, LeftStored DEF Bare

(* A step in which nothing is open and at most the texts of p move.        *)
LEMMA LeftMoves ==
    ASSUME HalfWritten, NEW p \in Paths, NEW i \in Ids, Works(pc1, txn1, i, p),
           pc1 \notin Writing, pc1' \notin Writing \cup Displacing,
           target' \in {target, [target EXCEPT ![p] = Absent],
                        [target EXCEPT ![p] = temp[i][p]], [target EXCEPT ![p] = backup[i][p]]},
           temp' \in {temp, [temp EXCEPT ![i][p] = Absent]},
           \/ backup' \in {backup, [backup EXCEPT ![i][p] = Absent]}
           \/ /\ backup' = [backup EXCEPT ![i][p] = target[p]]
              /\ pc1 \in Displacing /\ Foremost(p, todo1)
    PROVE  LeftMoved
  <1>1. target \in Contents /\ temp \in [Ids -> Contents] /\ backup \in [Ids -> Contents]
    BY DEF HalfWritten, Disk
  <1>2. /\ Absent \in Whole /\ target[p] \in Whole \cup Torn
        /\ temp[i][p] \in Whole \cup Torn /\ backup[i][p] \in Whole \cup Torn
    BY <1>1 DEF Contents, Whole
  <1>3. /\ target' \in Contents
        /\ \A q \in Paths : \/ target'[q] \in {target[q], Absent, backup[i][q]}
                            \/ q = p /\ target'[q] = temp[i][q]
    <2>1. CASE target' = target
      BY <1>1, <2>1
    <2>2. ASSUME NEW text \in {Absent, temp[i][p], backup[i][p]}, target' = [target EXCEPT ![p] = text]
          PROVE  /\ target' \in Contents
                 /\ \A q \in Paths : \/ target'[q] \in {target[q], Absent, backup[i][q]}
                                     \/ q = p /\ target'[q] = temp[i][q]
      <3>1. text \in Whole \cup Torn
        BY <1>2
      <3>2. /\ target' \in Contents
            /\ \A q \in Paths : target'[q] = IF q = p THEN text ELSE target[q]
        BY <1>1, <2>2, <3>1 DEF Contents
      <3> QED  BY <3>2
    <2> QED  BY <2>1, <2>2
  <1>4. /\ temp' \in [Ids -> Contents]
        /\ \A j \in Ids, q \in Paths : temp'[j][q] \in {temp[j][q], Absent}
    <2>1. CASE temp' = temp
      BY <1>1, <2>1
    <2>2. CASE temp' = [temp EXCEPT ![i][p] = Absent]
      BY ONLY <1>1, <1>2, <2>2, p \in Paths, i \in Ids DEF Contents
    <2> QED  BY <2>1, <2>2
  <1>5. /\ backup' \in [Ids -> Contents]
        /\ \A j \in Ids, q \in Paths :
              \/ backup'[j][q] \in {backup[j][q], Absent}
              \/ backup'[j][q] = target[q] /\ pc1 \in Displacing /\ Foremost(q, todo1)
    <2>1. CASE backup' = backup
      BY <1>1, <2>1
    <2>2. CASE backup' = [backup EXCEPT ![i][p] = Absent]
      BY ONLY <1>1, <1>2, <2>2, p \in Paths, i \in Ids DEF Contents
    <2>3. CASE /\ backup' = [backup EXCEPT ![i][p] = target[p]]
               /\ pc1 \in Displacing /\ Foremost(p, todo1)
      BY ONLY <1>1, <1>2, <2>3, p \in Paths, i \in Ids DEF Contents
    <2> QED  BY <2>1, <2>2, <2>3
  <1>6. Moves(pc1, pc1', txn1, todo1, todo1')
    BY <1>2, <1>3, <1>4, <1>5 DEF Moves
  <1> QED
    BY <1>3, <1>4, <1>5, <1>6 DEF LeftMoved, Disk

(* A step in which a file is opened for p, its text is written, or it is   *)
(* removed again.                                                          *)
LEMMA LeftOpens ==
    ASSUME HalfWritten, NEW p \in Paths, NEW i \in Ids, i = txn1.tid, Foremost(p, todo1),
           pc1 \notin Writing, pc1' \in Writing, UNCHANGED <<target, backup, txn1, todo1>>,
           temp' = [temp EXCEPT ![i][p] = LeftTorn]
    PROVE  LeftMoved
  <1>1. /\ temp' \in [Ids -> Contents]
        /\ \A j \in Ids, q \in Paths :
              temp'[j][q] = IF j = i /\ q = p THEN LeftTorn ELSE temp[j][q]
    <2>1. temp \in [Ids -> Contents] /\ LeftTorn \in Whole \cup Torn
      BY DEF HalfWritten, Disk, Torn
    <2> QED  BY <2>1 DEF Contents
  <1>2. Opens(LeftTorn, pc1, pc1', txn1, todo1)
    <2>1. \A j \in Ids, q \in Paths :
              \/ temp'[j][q] = temp[j][q]
              \/ temp'[j][q] = LeftTorn /\ Foremost(q, todo1) /\ j = txn1.tid
      BY <1>1
    <2> QED  BY <2>1 DEF Opens
  <1>3. Disk'
    BY <1>1 DEF HalfWritten, Disk
  <1> QED
    BY <1>2, <1>3 DEF LeftMoved

LEMMA LeftCloses ==
    ASSUME HalfWritten, NEW p \in Paths, NEW i \in Ids, i = txn1.tid, Foremost(p, todo1),
           pc1 \in Writing, pc1' \notin Writing \cup Displacing, backup' \in [Ids -> Contents],
           \A j \in Ids, q \in Paths : backup'[j][q] \in Whole \cup {backup[j][q]},
           NEW x \in Whole \cup {target[p]}, target' = [target EXCEPT ![p] = x], x # LeftTorn,
           NEW y \in Whole \cup {temp[i][p]}, temp' = [temp EXCEPT ![i][p] = y], y # LeftTorn
    PROVE  LeftMoved
  <1>1. target \in Contents /\ temp \in [Ids -> Contents] /\ backup \in [Ids -> Contents]
    BY DEF HalfWritten, Disk
  <1>2. x \in Whole \cup Torn /\ y \in Whole \cup Torn
    BY <1>1 DEF Contents
  <1>3. /\ target' \in Contents
        /\ \A q \in Paths : target'[q] = IF q = p THEN x ELSE target[q]
    BY <1>1, <1>2 DEF Contents
  <1>5. /\ temp' \in [Ids -> Contents]
        /\ \A j \in Ids, q \in Paths :
              temp'[j][q] = IF j = i /\ q = p THEN y ELSE temp[j][q]
    BY <1>1, <1>2 DEF Contents
  <1>4. \A q \in Paths : Foremost(q, todo1) => q = p
    BY ForemostIsOne DEF HalfWritten, Connection
  <1> QED
    BY <1>1, <1>3, <1>4, <1>5 DEF LeftMoved, Disk, Closes

LEMMA LeftWrites ==
    ASSUME HalfWritten, NEW p \in Paths, txn1.tid \in Ids, Foremost(p, todo1),
           pc1 \in Writing, pc1' \notin Writing \cup Displacing, backup' \in [Ids -> Contents],
           \A j \in Ids, q \in Paths : backup'[j][q] \in Whole \cup {backup[j][q]},
           NEW text \in Whole, Left!WriteText(p, text)
    PROVE  LeftMoved
  <1> DEFINE x == IF target[p] = LeftTorn THEN text ELSE target[p]
             y == IF temp[txn1.tid][p] = LeftTorn THEN text ELSE temp[txn1.tid][p]
  <1>1. target \in Contents /\ temp \in [Ids -> Contents]
    BY DEF HalfWritten, Disk
  <1>2. target' = [target EXCEPT ![p] = x] /\ temp' = [temp EXCEPT ![txn1.tid][p] = y]
    BY <1>1 DEF Left!WriteText, Contents
  <1>3. x # LeftTorn /\ y # LeftTorn
    BY SharedTextAssumption DEF Whole
  <1>4. x \in Whole \cup {target[p]} /\ y \in Whole \cup {temp[txn1.tid][p]}
    OBVIOUS
  <1> HIDE DEF x, y
  <1> QED
    BY <1>2, <1>3, <1>4, LeftCloses

LEMMA LeftApplyStepMoved ==
    ASSUME HalfWritten, NEW p \in Paths, Left!ApplyStep(p), faults = 0, faults' = 0
    PROVE  LeftMoved
  <1> DEFINE i == txn1.tid
  <1>1. ~Left!Fault
    BY DEF Left!Fault
  <1>2. /\ i \in Ids /\ txn1.ckpt.original[p] \in Whole /\ txn1.ckpt.applied[p] \in Whole
        /\ Works(pc1, txn1, i, p)
    BY LeftApplyStepKept, LeftTransaction, LeftWorks DEF Bare
  <1>3. target \in Contents /\ temp \in [Ids -> Contents] /\ backup \in [Ids -> Contents]
    BY DEF HalfWritten, Disk
  <1>5. CASE Left!PrepareOpen(p)
    <2>1. /\ UNCHANGED <<target, backup, txn1, todo1>> /\ temp' = [temp EXCEPT ![i][p] = LeftTorn]
          /\ pc1 = "prepare" /\ pc1' = "prepareText" /\ Foremost(p, todo1)
      BY <1>5 DEF Left!PrepareOpen, Left!SetTemp, Foremost
    <2> QED  BY <1>2, <1>3, <2>1, LeftOpens DEF Writing
  <1>6. CASE Left!PrepareText(p)
    <2>1. /\ UNCHANGED backup /\ Foremost(p, todo1)
          /\ pc1 = "prepareText" /\ pc1' = "prepare"
          /\ Left!WriteText(p, txn1.ckpt.applied[p])
      BY <1>6 DEF Left!PrepareText, Foremost
    <2>2. backup' \in [Ids -> Contents]
      BY <2>1 DEF HalfWritten, Disk
    <2> QED  BY <1>2, <2>1, <2>2, LeftWrites DEF Writing, Displacing
  <1>7. CASE Left!PrepareFails(p)
    <2>1. /\ UNCHANGED <<target, backup>> /\ Foremost(p, todo1) /\ pc1' = "cleanup"
          /\ temp' = [temp EXCEPT ![i][p] = Absent]
          /\ \/ pc1 = "prepare"
             \/ pc1 = "prepareText" /\ target[p] = Absent
      BY <1>1, <1>7 DEF Left!PrepareFails, Left!SetTemp, Foremost
    <2>2. CASE pc1 = "prepare"
      BY <1>2, <2>1, <2>2, LeftMoves DEF Writing, Displacing
    <2>3. CASE pc1 = "prepareText"
      <3>1. /\ target' = [target EXCEPT ![p] = target[p]]
            /\ target[p] # LeftTorn /\ Absent # LeftTorn /\ Absent \in Whole
        BY <1>3, <2>1, <2>3, SharedTextAssumption DEF Contents, Whole
      <3>2. pc1 \in Writing /\ pc1' \notin Writing \cup Displacing
        BY <2>1, <2>3 DEF Writing, Displacing
      <3> QED  BY <1>2, <1>3, <2>1, <3>1, <3>2, LeftCloses
    <2> QED  BY <2>1, <2>2, <2>3
  <1>8. CASE Left!ReplaceVerify(p)
    <2>1. /\ UNCHANGED <<target, temp, backup, todo1>> /\ pc1 = "replace" /\ pc1' = "aside"
          /\ Foremost(p, todo1) /\ target[p] \in Whole
      BY <1>2, <1>8 DEF Left!ReplaceVerify, Foremost
    <2> QED  BY <2>1, ForemostIsOne, LeftStill DEF Writing, HalfWritten, Connection
  <1>9. CASE \/ Left!PrepareDeletion(p) \/ Left!PrepareRefused(p)
             \/ Left!ReplaceFails(p) \/ Left!ReplacePutFails(p)
    <2>1. /\ UNCHANGED <<target, temp, backup>> /\ pc1 \notin Writing
          /\ pc1' \notin Writing \cup Displacing
      BY <1>9 DEF Left!PrepareDeletion, Left!PrepareRefused, Left!ReplaceFails,
            Left!ReplacePutFails, Writing, Displacing
    <2> QED  BY <2>1, LeftStill
  <1>10. CASE Left!ReplaceAside(p)
    <2>1. /\ UNCHANGED temp /\ pc1 = "aside" /\ pc1' = "put" /\ Foremost(p, todo1)
          /\ \/ UNCHANGED <<target, backup>>
             \/ /\ target' = [target EXCEPT ![p] = Absent]
                /\ backup' = [backup EXCEPT ![i][p] = target[p]]
      BY <1>10 DEF Left!ReplaceAside, Left!MoveAside, Left!SetTarget, Left!SetBackup, Foremost
    <2>2. pc1 \in Displacing /\ pc1 \notin Writing /\ pc1' \notin Writing \cup Displacing
      BY <2>1 DEF Writing, Displacing
    <2> QED  BY <1>2, <2>1, <2>2, LeftMoves
  <1>11. CASE Left!ReplacePut(p)
    <2>1. /\ UNCHANGED backup /\ pc1 = "put" /\ pc1' = "replace"
          /\ \/ UNCHANGED <<target, temp>>
             \/ /\ target' = [target EXCEPT ![p] = temp[i][p]]
                /\ temp' = [temp EXCEPT ![i][p] = Absent]
      BY <1>11 DEF Left!ReplacePut, Left!PutTemp, Left!SetTarget, Left!SetTemp
    <2>2. pc1 \notin Writing /\ pc1' \notin Writing \cup Displacing
      BY <2>1 DEF Writing, Displacing
    <2> QED  BY <1>2, <2>1, <2>2, LeftMoves
  <1>12. CASE Left!UndoRemove(p) \/ Left!UndoPut(p) \/ Left!UndoFails(p)
    <2>1. /\ UNCHANGED temp /\ pc1 \in {"undo", "undoPut"} /\ pc1' \in {"undo", "undoPut"}
          /\ \/ UNCHANGED <<target, backup>>
             \/ UNCHANGED backup /\ target' = [target EXCEPT ![p] = Absent]
             \/ /\ target' = [target EXCEPT ![p] = backup[i][p]]
                /\ backup' = [backup EXCEPT ![i][p] = Absent]
      BY <1>1, <1>12 DEF Left!UndoRemove, Left!UndoPut, Left!UndoFails, Left!PutBack,
            Left!SetTarget, Left!SetBackup
    <2>2. pc1 \notin Writing /\ pc1' \notin Writing \cup Displacing
      BY <2>1 DEF Writing, Displacing
    <2> QED  BY <1>2, <2>1, <2>2, LeftMoves
  <1>13. CASE Left!Cleanup(p)
    <2>1. /\ temp' = [temp EXCEPT ![i][p] = Absent] /\ pc1 = "cleanup" /\ pc1' = "cleanup"
          /\ \/ UNCHANGED <<target, backup>>
             \/ /\ target' = [target EXCEPT ![p] = backup[i][p]]
                /\ backup' = [backup EXCEPT ![i][p] = Absent]
      BY <1>13 DEF Left!Cleanup, Left!MoveBackDisplaced, Left!PutBack,
            Left!SetTemp, Left!SetTarget, Left!SetBackup
    <2>2. pc1 \notin Writing /\ pc1' \notin Writing \cup Displacing
      BY <2>1 DEF Writing, Displacing
    <2> QED  BY <1>2, <2>1, <2>2, LeftMoves
  <1>14. ~Left!CleanupFails(p)
    BY <1>1 DEF Left!CleanupFails
  <1> QED
    BY <1>5, <1>6, <1>7, <1>8, <1>9, <1>10, <1>11, <1>12, <1>13, <1>14 DEF Left!ApplyStep

LEMMA LeftRestoreStepKept ==
    ASSUME HalfWritten, NEW p \in Paths, Left!RestoreStep(p), faults = 0, faults' = 0
    PROVE  LeftKept /\ pc1 \notin Bare /\ p \in todo1
  <1>1. ~Left!Fault
    BY DEF Left!Fault
  <1>2. pc1 \notin Bare /\ pc1' \notin Bare /\ p \in todo1
    BY <1>1 DEF Left!RestoreStep, Left!RestorePrepareOpen, Left!RestorePrepareText,
          Left!RestorePrepareCreation, Left!RestorePrepareFails, Left!RestoreVerify,
          Left!RestoreAside, Left!RestoreFails, Left!RestorePut, Left!RestorePutFails,
          Left!RestoreCleanup, Left!RestoreSweep, Bare, Unplanned
  <1>3. UNCHANGED <<ckpt, applyRec, restoreRec, staged1, memory1, nextId, op1, job1, txn1>>
    BY <1>1 DEF Left!RestoreStep, Left!RestorePrepareOpen, Left!RestorePrepareText,
          Left!RestorePrepareCreation, Left!RestorePrepareFails, Left!RestoreVerify,
          Left!RestoreAside, Left!RestoreFails, Left!RestorePut, Left!RestorePutFails,
          Left!RestoreCleanup, Left!RestoreSweep
  <1>4. txn1.ckpt.files \in SUBSET Paths /\ todo1 \subseteq txn1.ckpt.files
    BY <1>2, LeftTransaction DEF HalfWritten, Connection, Bare
  <1>5. todo1' \in {todo1, todo1 \ {p}, txn1.ckpt.files, txn1.ckpt.files \ todo1,
                    (txn1.ckpt.files \ todo1) \cup {p}}
    BY <1>1 DEF Left!RestoreStep, Left!RestorePrepareOpen, Left!RestorePrepareText,
          Left!RestorePrepareCreation, Left!RestorePrepareFails, Left!RestoreVerify,
          Left!RestoreAside, Left!RestoreFails, Left!RestorePut, Left!RestorePutFails,
          Left!RestoreCleanup, Left!RestoreSweep
  <1>6. todo1' \subseteq txn1.ckpt.files
    BY <1>2, <1>4, <1>5
  <1> QED
    BY <1>2, <1>3, <1>4, <1>6, LeftGoesOn, LeftStored DEF Bare

LEMMA LeftRestoreStepMoved ==
    ASSUME HalfWritten, NEW p \in Paths, Left!RestoreStep(p), faults = 0, faults' = 0
    PROVE  LeftMoved
  <1> DEFINE i == txn1.tid
  <1>1. ~Left!Fault
    BY DEF Left!Fault
  <1>2. /\ i \in Ids /\ txn1.ckpt.original[p] \in Whole /\ txn1.ckpt.applied[p] \in Whole
        /\ Works(pc1, txn1, i, p)
    BY LeftRestoreStepKept, LeftTransaction, LeftWorks DEF Bare
  <1>3. CASE Left!RestorePrepareOpen(p)
    <2>1. /\ UNCHANGED <<target, backup, txn1, todo1>> /\ temp' = [temp EXCEPT ![i][p] = LeftTorn]
          /\ pc1 = "rPrepare" /\ pc1' = "rPrepareText" /\ Foremost(p, todo1)
      BY <1>3 DEF Left!RestorePrepareOpen, Left!SetTemp, Foremost
    <2> QED  BY <1>2, <2>1, LeftOpens DEF Writing
  <1>4. CASE Left!RestorePrepareText(p)
    <2>1. /\ UNCHANGED backup /\ Foremost(p, todo1)
          /\ pc1 = "rPrepareText" /\ pc1' = "rPrepare"
          /\ Left!WriteText(p, txn1.ckpt.original[p])
      BY <1>4 DEF Left!RestorePrepareText, Foremost
    <2>2. backup' \in [Ids -> Contents]
      BY <2>1 DEF HalfWritten, Disk
    <2> QED  BY <1>2, <2>1, <2>2, LeftWrites DEF Writing, Displacing
  <1>5. CASE Left!RestorePrepareFails(p) \/ Left!RestoreCleanup(p)
    <2>1. /\ UNCHANGED <<target, backup>> /\ temp' = [temp EXCEPT ![i][p] = Absent]
          /\ pc1 \in {"rPrepare", "rCleanup"} /\ pc1' = "rCleanup"
      BY <1>1, <1>5 DEF Left!RestorePrepareFails, Left!RestoreCleanup, Left!SetTemp
    <2>2. pc1 \notin Writing /\ pc1' \notin Writing \cup Displacing
      BY <2>1 DEF Writing, Displacing
    <2> QED  BY <1>2, <2>1, <2>2, LeftMoves
  <1>6. CASE Left!RestoreVerify(p)
    <2>1. /\ UNCHANGED <<target, temp, backup, todo1>> /\ pc1 = "rReplace" /\ pc1' = "rAside"
          /\ Foremost(p, todo1) /\ target[p] \in Whole
      BY <1>2, <1>6 DEF Left!RestoreVerify, Foremost
    <2> QED  BY <2>1, ForemostIsOne, LeftStill DEF Writing, HalfWritten, Connection
  <1>7. CASE Left!RestorePrepareCreation(p) \/ Left!RestoreFails(p) \/ Left!RestorePutFails(p)
    <2>1. /\ UNCHANGED <<target, temp, backup>> /\ pc1 \notin Writing
          /\ pc1' \notin Writing \cup Displacing
      BY <1>7 DEF Left!RestorePrepareCreation, Left!RestoreFails, Left!RestorePutFails,
            Writing, Displacing
    <2> QED  BY <2>1, LeftStill
  <1>8. CASE Left!RestoreAside(p)
    <2>1. /\ UNCHANGED temp /\ pc1 = "rAside" /\ pc1' = "rPut" /\ Foremost(p, todo1)
          /\ \/ UNCHANGED <<target, backup>>
             \/ /\ target' = [target EXCEPT ![p] = Absent]
                /\ backup' = [backup EXCEPT ![i][p] = target[p]]
      BY <1>8 DEF Left!RestoreAside, Left!MoveAside, Left!SetTarget, Left!SetBackup, Foremost
    <2>2. pc1 \in Displacing /\ pc1 \notin Writing /\ pc1' \notin Writing \cup Displacing
      BY <2>1 DEF Writing, Displacing
    <2> QED  BY <1>2, <2>1, <2>2, LeftMoves
  <1>9. CASE Left!RestorePut(p)
    <2>1. /\ UNCHANGED backup /\ pc1 = "rPut" /\ pc1' = "rReplace"
          /\ \/ UNCHANGED <<target, temp>>
             \/ /\ target' = [target EXCEPT ![p] = temp[i][p]]
                /\ temp' = [temp EXCEPT ![i][p] = Absent]
      BY <1>9 DEF Left!RestorePut, Left!PutTemp, Left!SetTarget, Left!SetTemp
    <2>2. pc1 \notin Writing /\ pc1' \notin Writing \cup Displacing
      BY <2>1 DEF Writing, Displacing
    <2> QED  BY <1>2, <2>1, <2>2, LeftMoves
  <1>10. CASE Left!RestoreSweep(p)
    <2>1. /\ UNCHANGED <<target, temp>> /\ backup' = [backup EXCEPT ![i][p] = Absent]
          /\ pc1 = "rSweep" /\ pc1' = "rSweep"
      BY <1>1, <1>10 DEF Left!RestoreSweep, Left!SetBackup
    <2>2. pc1 \notin Writing /\ pc1' \notin Writing \cup Displacing
      BY <2>1 DEF Writing, Displacing
    <2> QED  BY <1>2, <2>1, <2>2, LeftMoves
  <1> QED
    BY <1>3, <1>4, <1>5, <1>6, <1>7, <1>8, <1>9, <1>10 DEF Left!RestoreStep

LEMMA LeftRecoveryStepKept ==
    ASSUME HalfWritten, NEW p \in Paths, Left!RecoveryStep(p)
    PROVE  LeftKept /\ pc1 \notin Bare /\ p \in todo1
  <1>1. pc1 \notin Bare /\ pc1' \notin Bare /\ p \in todo1
    BY DEF Left!RecoveryStep, Left!Sweep, Left!RewriteOpen, Left!RewriteText, Left!RewriteClear,
          Left!RewritePut, Left!RewriteKeep, Left!RewriteCreation, Left!RewriteSweep,
          Bare, Unplanned
  <1>2. UNCHANGED <<ckpt, applyRec, restoreRec, staged1, memory1, nextId, op1, job1, txn1>>
    BY DEF Left!RecoveryStep, Left!Sweep, Left!RewriteOpen, Left!RewriteText, Left!RewriteClear,
          Left!RewritePut, Left!RewriteKeep, Left!RewriteCreation, Left!RewriteSweep
  <1>3. todo1' \in {todo1, todo1 \ {p}}
    BY DEF Left!RecoveryStep, Left!Sweep, Left!RewriteOpen, Left!RewriteText, Left!RewriteClear,
          Left!RewritePut, Left!RewriteKeep, Left!RewriteCreation, Left!RewriteSweep
  <1>4. txn1.ckpt.files \in SUBSET Paths /\ todo1 \subseteq txn1.ckpt.files
    BY <1>1, LeftTransaction DEF HalfWritten, Connection, Bare
  <1> QED
    BY <1>1, <1>2, <1>3, <1>4, LeftGoesOn, LeftStored DEF Bare

LEMMA LeftRecoveryStepMoved ==
    ASSUME HalfWritten, NEW p \in Paths, Left!RecoveryStep(p)
    PROVE  LeftMoved
  <1> DEFINE i == txn1.tid
  <1>1. i \in Ids /\ txn1.ckpt.original[p] \in Whole /\ Works(pc1, txn1, i, p)
    BY LeftRecoveryStepKept, LeftTransaction, LeftWorks DEF Bare
  <1>2. CASE Left!RewriteOpen(p)
    <2>1. /\ UNCHANGED <<target, backup, txn1, todo1>> /\ temp' = [temp EXCEPT ![i][p] = LeftTorn]
          /\ pc1 = "rewrite" /\ pc1' = "rewriteText" /\ Foremost(p, todo1)
      BY <1>2 DEF Left!RewriteOpen, Left!SetTemp, Foremost
    <2> QED  BY <1>1, <2>1, LeftOpens DEF Writing
  <1>3. CASE Left!RewriteText(p)
    <2>1. /\ UNCHANGED backup /\ Foremost(p, todo1)
          /\ pc1 = "rewriteText" /\ pc1' = "rewriteClear"
          /\ Left!WriteText(p, txn1.ckpt.original[p])
      BY <1>3 DEF Left!RewriteText, Foremost
    <2>2. backup' \in [Ids -> Contents]
      BY <2>1 DEF HalfWritten, Disk
    <2> QED  BY <1>1, <2>1, <2>2, LeftWrites DEF Writing, Displacing
  <1>4. CASE Left!Sweep(p) \/ Left!RewriteSweep(p)
    <2>1. /\ UNCHANGED target /\ temp' = [temp EXCEPT ![i][p] = Absent]
          /\ backup' = [backup EXCEPT ![i][p] = Absent]
          /\ pc1 \in {"sweep", "rewriteSweep"} /\ pc1' \in {"sweep", "rewrite"}
      BY <1>4 DEF Left!Sweep, Left!RewriteSweep, Left!SetTemp, Left!SetBackup
    <2>2. pc1 \notin Writing /\ pc1' \notin Writing \cup Displacing
      BY <2>1 DEF Writing, Displacing
    <2> QED  BY <1>1, <2>1, <2>2, LeftMoves
  <1>5. CASE Left!RewriteClear(p) \/ Left!RewriteCreation(p)
    <2>1. /\ target' = [target EXCEPT ![p] = Absent] /\ UNCHANGED <<temp, backup>>
          /\ pc1 \in {"rewriteClear", "rewrite"} /\ pc1' \in {"rewritePut", "rewriteSweep"}
      BY <1>5 DEF Left!RewriteClear, Left!RewriteCreation, Left!SetTarget
    <2>2. pc1 \notin Writing /\ pc1' \notin Writing \cup Displacing
      BY <2>1 DEF Writing, Displacing
    <2> QED  BY <1>1, <2>1, <2>2, LeftMoves
  <1>6. CASE Left!RewritePut(p)
    <2>1. /\ UNCHANGED backup /\ pc1 = "rewritePut" /\ pc1' = "rewriteSweep"
          /\ target' = [target EXCEPT ![p] = temp[i][p]]
          /\ temp' = [temp EXCEPT ![i][p] = Absent]
      BY <1>6 DEF Left!RewritePut, Left!PutTemp, Left!SetTarget, Left!SetTemp
    <2>2. pc1 \notin Writing /\ pc1' \notin Writing \cup Displacing
      BY <2>1 DEF Writing, Displacing
    <2> QED  BY <1>1, <2>1, <2>2, LeftMoves
  <1>7. CASE Left!RewriteKeep(p)
    <2>1. /\ UNCHANGED <<target, temp, backup>> /\ pc1 \notin Writing
          /\ pc1' \notin Writing \cup Displacing
      BY <1>7 DEF Left!RewriteKeep, Writing, Displacing
    <2> QED  BY <2>1, LeftStill
  <1> QED
    BY <1>2, <1>3, <1>4, <1>5, <1>6, <1>7 DEF Left!RecoveryStep

(* The steps that go on without a file.                                    *)
LeftPlain ==
    \/ Left!PersistApply \/ Left!MakeDirectory \/ Left!MakeDirectoryFails \/ Left!PrepareDone
    \/ Left!ReplaceDone \/ Left!UndoDone \/ Left!CleanupDone
    \/ Left!CommitDropPrevious \/ Left!CommitSave
    \/ Left!PersistRestore \/ Left!RestorePrepareDone \/ Left!RestoreReplaced
    \/ Left!RestoreCleanupDone \/ Left!RestoreSwept \/ Left!RestoreConsume
    \/ Left!RollbackStart \/ Left!SavedCheck \/ Left!SweepDone \/ Left!RewriteDone
    \/ Left!VerifyDone \/ Left!Reinstate \/ Left!ReinstateNotNeeded \/ Left!Consume

(* The steps that return without a file.                                   *)
LeftReturning ==
    \/ Left!ApplyRefused \/ Left!PersistApplyFails \/ Left!Abandon \/ Left!AbandonFails
    \/ Left!CommitNothing \/ Left!ApplyFinish
    \/ Left!RestoreRefused \/ Left!PersistRestoreFails \/ Left!RestoreAbandon
    \/ Left!RestoreFinish \/ Left!RestoreFinishFails
    \/ Left!RecoverBlocked \/ Left!RecoverQuarantine \/ Left!RolledBack \/ Left!RegisterDone

LEMMA LeftPlainKept ==
    ASSUME HalfWritten, LeftPlain, faults = 0, faults' = 0
    PROVE  LeftKept /\ LeftMoved
  <1> USE DEF LeftPlain, Left!PersistApply, Left!MakeDirectory, Left!MakeDirectoryFails,
          Left!PrepareDone, Left!ReplaceDone, Left!UndoDone, Left!CleanupDone,
          Left!CommitDropPrevious, Left!CommitSave, Left!PersistRestore,
          Left!RestorePrepareDone, Left!RestoreReplaced, Left!RestoreCleanupDone,
          Left!RestoreSwept, Left!RestoreConsume, Left!RollbackStart, Left!SavedCheck,
          Left!SweepDone, Left!RewriteDone, Left!VerifyDone, Left!Reinstate,
          Left!ReinstateNotNeeded, Left!Consume
  <1>1. pc1 \notin Unplanned /\ pc1' \notin Unplanned
    BY DEF Unplanned
  <1>2. pc1 \notin Writing /\ pc1' \notin Writing \cup Displacing
    BY DEF Writing, Displacing
  <1>3. UNCHANGED <<target, temp, backup, staged1, memory1, op1, job1, txn1>>
    OBVIOUS
  <1>4. UNCHANGED nextId
    BY DEF Left!Fault
  <1>5. \/ todo1' = txn1.ckpt.files
        \/ todo1' = todo1 /\ (pc1 \in Bare => pc1' \in Bare)
    BY DEF Bare, Unplanned
  <1>6. /\ ckpt' \in {ckpt, None, txn1.ckpt, txn1.prev}
        /\ applyRec' \in {applyRec, txn1} /\ restoreRec' \in {restoreRec, txn1}
    OBVIOUS
  <1> QED
    <2>1. /\ todo1 \in SUBSET Paths /\ txn1.ckpt.files \in SUBSET Paths
          /\ pc1 \notin Bare => todo1 \subseteq txn1.ckpt.files
      BY ONLY HalfWritten, <1>1, LeftTransaction DEF HalfWritten, Connection
    <2>2. Store'
      BY ONLY HalfWritten, <1>1, <1>6, LeftTransaction DEF HalfWritten, Store
    <2>3. LeftKept
      BY ONLY HalfWritten, <1>1, <1>3, <1>4, <1>5, <1>6, <2>1, <2>2, LeftGoesOn
    <2>4. LeftMoved
      BY ONLY HalfWritten, <1>2, <1>3, LeftStill
    <2> QED  BY ONLY <2>3, <2>4

LEMMA LeftReturningKept ==
    ASSUME HalfWritten, LeftReturning, faults = 0, faults' = 0
    PROVE  LeftKept /\ LeftMoved
  <1> USE DEF LeftReturning, Left!ApplyRefused, Left!PersistApplyFails, Left!Abandon,
          Left!AbandonFails, Left!CommitNothing, Left!ApplyFinish, Left!RestoreRefused,
          Left!PersistRestoreFails, Left!RestoreAbandon, Left!RestoreFinish,
          Left!RestoreFinishFails, Left!RecoverBlocked, Left!RecoverQuarantine,
          Left!RolledBack, Left!RegisterDone
  <1>1. Left!Return /\ UNCHANGED <<target, temp, backup, ckpt>>
    OBVIOUS
  <1>2. UNCHANGED nextId
    BY DEF Left!Fault
  <1>3. pc1 \notin Writing
    BY DEF Writing
  <1>4. applyRec' \in {applyRec, None} /\ restoreRec' \in {restoreRec, None}
    OBVIOUS
  <1>5. staged1' \in {staged1, Left!NothingStaged}
    OBVIOUS
  <1>6. \/ memory1' \in {memory1, ckpt, None}
        \/ memory1' = txn1.ckpt /\ pc1 = "unrecord"
    OBVIOUS
  <1> QED
    <2>1. Store'
      BY ONLY HalfWritten, <1>1, <1>4 DEF HalfWritten, Store
    <2>2. staged1' \in WholeStages
      BY ONLY HalfWritten, <1>5 DEF HalfWritten, Connection, WholeStages, Left!NothingStaged,
            Left!Paths, Paths
    <2>3. memory1' \in WholeCheckpoint \cup {None}
      BY ONLY HalfWritten, <1>6, LeftTransaction DEF HalfWritten, Connection, Store, Unplanned
    <2>4. LeftKept
      BY ONLY HalfWritten, <1>1, <1>2, <1>4, <2>1, <2>2, <2>3, LeftReturns
    <2>5. pc1' \notin Writing \cup Displacing
      BY ONLY <1>1 DEF Left!Return, Writing, Displacing
    <2>6. LeftMoved
      BY ONLY HalfWritten, <1>1, <1>3, <2>5, LeftStill
    <2> QED  BY ONLY <2>4, <2>6

(* A recovery that fails returns, a rollback without its backups.          *)
LEMMA LeftRecoveryFailsKept ==
    ASSUME HalfWritten, Left!RecoveryFails, UNCHANGED nextId, pc1 \notin Writing,
           pc1 \notin Unplanned
    PROVE  LeftKept /\ LeftMoved
  <1> DEFINE i == txn1.tid
  <1>1. /\ Left!Return /\ UNCHANGED <<target, temp, ckpt, applyRec, restoreRec, staged1, memory1>>
        /\ backup' \in {backup, [backup EXCEPT ![i] = [p \in Paths |-> Absent]]}
    BY DEF Left!RecoveryFails, Left!Blank, Paths
  <1>2. /\ target \in Contents /\ temp \in [Ids -> Contents] /\ backup \in [Ids -> Contents]
        /\ staged1 \in WholeStages /\ memory1 \in WholeCheckpoint \cup {None} /\ i \in Ids
    BY LeftTransaction DEF HalfWritten, Disk, Connection
  <1>3. LeftKept
    BY <1>1, <1>2, LeftReturns, LeftStored
  <1>4. pc1' \notin Writing \cup Displacing
    BY <1>1 DEF Left!Return, Writing, Displacing
  <1> HIDE DEF i
  <1>5. /\ backup' \in [Ids -> Contents]
        /\ \A j \in Ids, p \in Paths : backup'[j][p] \in {backup[j][p], Absent}
    BY ONLY <1>1, <1>2 DEF Contents, Whole
  <1>6. Moves(pc1, pc1', txn1, todo1, todo1')
    BY <1>1, <1>4, <1>5 DEF Moves, Whole
  <1> QED
    BY <1>1, <1>2, <1>3, <1>5, <1>6 DEF LeftMoved, Disk

(* What is planned tells of the texts reviewed.                            *)
LEMMA LeftApplyPlanKept ==
    ASSUME HalfWritten, Left!ApplyPlan
    PROVE  LeftKept /\ LeftMoved
  <1> DEFINE c == Left!PlannedCheckpoint
  <1>1. /\ pc1 = "settled" /\ op1 = "apply" /\ pc1' = "planned" /\ memory1' = ckpt
        /\ txn1' = [tid |-> nextId, ckpt |-> c, prev |-> ckpt] /\ nextId' = nextId + 1
        /\ UNCHANGED <<target, temp, backup, ckpt, applyRec, restoreRec, staged1, op1, job1, todo1>>
    BY DEF Left!ApplyPlan
  <1>2. staged1 \in WholeStages /\ ckpt \in WholeCheckpoint \cup {None} /\ Store'
        /\ todo1 \in SUBSET Paths /\ job1 = "none"
    BY <1>1, LeftStored DEF HalfWritten, Connection, Store, Unplanned
  <1>3. Planning(op1, pc1, job1) /\ nextId \in Ids /\ nextId \in Nat \ {0}
    BY <1>1, SharedBoundAssumption DEF Planning, HalfWritten, Room, Ids
  <1>4. c \in WholeCheckpoint
    <2>1. /\ c.id = nextId /\ c.mkdir \in BOOLEAN
          /\ c = [id |-> c.id, files |-> c.files, original |-> c.original,
                  applied |-> c.applied, mkdir |-> c.mkdir]
      BY DEF Left!PlannedCheckpoint
    <2>2. c.files \in SUBSET Paths
      BY DEF Left!PlannedCheckpoint, Left!PlannedFiles, Paths
    <2>3. \A p \in Paths : staged1[p] # None => staged1[p].base \in Whole /\ staged1[p].content \in Whole
      BY <1>2 DEF WholeStages
    <2>4. Left!PlannedFiles \subseteq {p \in Paths : staged1[p] # None}
      BY DEF Left!PlannedFiles, Paths
    <2>5. c.original \in [Paths -> Whole] /\ c.applied \in [Paths -> Whole]
      BY <2>3, <2>4 DEF Left!PlannedCheckpoint, Paths, Whole
    <2> HIDE DEF c
    <2> QED  BY <1>3, <2>1, <2>2, <2>5 DEF WholeCheckpoint
  <1> HIDE DEF c
  <1>5. txn1' \in WholeTransaction
    BY <1>1, <1>2, <1>3, <1>4 DEF WholeTransaction
  <1>6. ~Planning(op1, pc1, job1)'
    BY <1>1, <1>2 DEF Planning
  <1>9. \A t \in {applyRec', restoreRec', txn1'} : t # None => t.tid < nextId'
    BY <1>1, <1>3, SharedBoundAssumption DEF HalfWritten, Numbered, Store, WholeTransaction, Ids
  <1>10. \A i \in Ids, p \in Paths : Works(pc1, txn1, i, p)' => i = nextId
    BY <1>1 DEF Works
  <1>7. LeftKept
    BY <1>1, <1>2, <1>3, <1>5, <1>6, <1>9, <1>10 DEF LeftKept, Connection, Unplanned, Bare
  <1>8. LeftMoved
    BY <1>1, LeftStill DEF Writing, Displacing
  <1> QED
    BY <1>7, <1>8

LEMMA LeftRestorePlanKept ==
    ASSUME HalfWritten, Left!RestorePlan
    PROVE  LeftKept /\ LeftMoved
  <1>1. /\ pc1 = "settled" /\ op1 = "restore" /\ pc1' = "rPlanned" /\ memory1' = ckpt
        /\ txn1' = [tid |-> nextId, ckpt |-> ckpt, prev |-> None] /\ nextId' = nextId + 1
        /\ ckpt # None
        /\ UNCHANGED <<target, temp, backup, ckpt, applyRec, restoreRec, staged1, op1, job1, todo1>>
    BY DEF Left!RestorePlan, Left!StillApplied
  <1>2. staged1 \in WholeStages /\ ckpt \in WholeCheckpoint /\ Store'
        /\ todo1 \in SUBSET Paths /\ job1 = "none"
    BY <1>1, LeftStored DEF HalfWritten, Connection, Store, Unplanned
  <1>3. Planning(op1, pc1, job1) /\ nextId \in Ids /\ nextId \in Nat \ {0}
    BY <1>1, SharedBoundAssumption DEF Planning, HalfWritten, Room, Ids
  <1>5. txn1' \in WholeTransaction
    BY <1>1, <1>2, <1>3 DEF WholeTransaction
  <1>6. ~Planning(op1, pc1, job1)'
    BY <1>1, <1>2 DEF Planning
  <1>9. \A t \in {applyRec', restoreRec', txn1'} : t # None => t.tid < nextId'
    BY <1>1, <1>3, SharedBoundAssumption DEF HalfWritten, Numbered, Store, WholeTransaction, Ids
  <1>10. \A i \in Ids, p \in Paths : Works(pc1, txn1, i, p)' => i = nextId
    BY <1>1 DEF Works
  <1>7. LeftKept
    BY <1>1, <1>2, <1>3, <1>5, <1>6, <1>9, <1>10 DEF LeftKept, Connection, Unplanned, Bare
  <1>8. LeftMoved
    BY <1>1, LeftStill DEF Writing, Displacing
  <1> QED
    BY <1>7, <1>8

(* A recovery takes over the transaction of a record, and gives it up.     *)
LEMMA LeftRecoveryKept ==
    ASSUME HalfWritten,
           \/ Left!RecoverNothing \/ Left!RecoverCommitted \/ Left!RecoverUncommitted
           \/ Left!RecoverRestore \/ Left!RecoveredApply \/ Left!RecoveredRestore
    PROVE  LeftKept /\ LeftMoved
  <1>1. /\ UNCHANGED <<target, temp, backup, ckpt, staged1, memory1, op1, nextId>>
        /\ applyRec' \in {applyRec, None} /\ restoreRec' \in {restoreRec, None}
        /\ txn1' \in {applyRec, restoreRec, txn1, None}
    BY DEF Left!RecoverNothing, Left!RecoverCommitted, Left!RecoverUncommitted,
          Left!RecoverRestore, Left!RecoveredApply, Left!RecoveredRestore, Left!Recovering
  <1>2. \/ /\ pc1 = "recover" /\ pc1' = "settled" /\ UNCHANGED <<job1, txn1, todo1>>
        \/ /\ pc1 = "recover" /\ pc1' \in {"sweep", "rewrite"} /\ txn1' \in {applyRec, restoreRec}
           /\ txn1' # None /\ todo1' = txn1'.ckpt.files
           /\ \A p \in txn1'.ckpt.files :
                 temp[txn1'.tid][p] \in {Absent, txn1'.ckpt.original[p], txn1'.ckpt.applied[p]}
        \/ /\ pc1 = "unrecord" /\ job1 \in {"apply", "restore"} /\ pc1' = "settled"
           /\ job1' = "none" /\ txn1' = None /\ UNCHANGED todo1
    BY DEF Left!RecoverNothing, Left!RecoverCommitted, Left!RecoverUncommitted,
          Left!RecoverRestore, Left!RecoveredApply, Left!RecoveredRestore, Left!Recovering,
          Left!CommittedRecoverable, Left!UncommittedRecoverable, Left!RestoreRecoverable,
          Left!IntactCommitted, Left!IntactUncommitted, Left!IntactRestore
  <1>3. pc1 \notin Writing /\ pc1' \notin Writing \cup Displacing
    BY <1>2 DEF Writing, Displacing
  <1>4. LeftMoved
    BY <1>1, <1>3, LeftStill
  <1>5. Store'
    BY <1>1 DEF HalfWritten, Store
  <1>6. Connection(staged1, memory1, pc1, job1, txn1, todo1)'
    BY <1>1, <1>2 DEF HalfWritten, Store, Connection, Bare, Unplanned, WholeTransaction,
          WholeCheckpoint
  <1>7. Planning(op1, pc1, job1)' => Planning(op1, pc1, job1)
    BY <1>1, <1>2 DEF Planning
  <1>8. nextId' \in Nat \ {0}
    BY <1>1 DEF HalfWritten, Room
  <1>9. \A t \in {applyRec', restoreRec', txn1'} : t # None => t.tid < nextId'
    BY <1>1, LeftNumbered
  <1>10. \A i \in Ids, p \in Paths : Works(pc1, txn1, i, p)' => temp'[i][p] \in Whole
    BY <1>1, <1>2 DEF HalfWritten, Store, WholeTransaction, WholeCheckpoint, Works, Unplanned, Whole
  <1> QED
    BY <1>1, <1>4, <1>5, <1>6, <1>7, <1>8, <1>9, <1>10 DEF LeftKept

LEMMA LeftCommitFailsKept ==
    ASSUME HalfWritten, Left!CommitFails, faults = 0, faults' = 0
    PROVE  LeftKept /\ LeftMoved
  <1>1. /\ UNCHANGED <<target, temp, backup, ckpt, applyRec, restoreRec, staged1, memory1,
                       op1, txn1, todo1, nextId>>
        /\ pc1 \in {"commit", "save"} /\ pc1' = "rollback" /\ job1' = "rollback"
    BY DEF Left!CommitFails, Left!Fault
  <1>2. LeftMoved
    BY <1>1, LeftStill DEF Writing, Displacing
  <1>3. LeftKept
    <2>1. \A t \in {applyRec', restoreRec', txn1'} : t # None => t.tid < nextId'
      BY <1>1, LeftNumbered
    <2>2. \A i \in Ids, p \in Paths : Works(pc1, txn1, i, p)' => Works(pc1, txn1, i, p)
      BY <1>1 DEF Works, Unplanned
    <2> QED
      BY <1>1, <2>1, <2>2, LeftStored
         DEF HalfWritten, LeftKept, Room, Connection, Unplanned, Bare, Planning
  <1> QED
    BY <1>2, <1>3

(* The steps that only the other connection can make happen.               *)
LEMMA LeftOvertakenKept ==
    ASSUME HalfWritten, NEW p \in Paths,
           \/ Left!PrepareTaken(p) \/ Left!RestorePrepareTaken(p)
           \/ Left!RewriteTaken(p) \/ Left!RewriteSweepBackup(p)
    PROVE  LeftKept /\ LeftMoved
  <1> DEFINE i == txn1.tid
  <1>1. pc1 \notin Bare /\ p \in todo1 /\ Foremost(p, todo1)
    BY DEF Left!PrepareTaken, Left!RestorePrepareTaken, Left!RewriteTaken,
          Left!RewriteSweepBackup, Bare, Unplanned, Foremost
  <1>2. /\ i \in Ids /\ txn1.ckpt.original[p] \in Whole /\ txn1.ckpt.applied[p] \in Whole
        /\ Works(pc1, txn1, i, p) /\ txn1.ckpt.files \in SUBSET Paths
    BY <1>1, LeftTransaction, LeftWorks DEF Bare
  <1>3. /\ backup \in [Ids -> Contents] /\ todo1 \subseteq txn1.ckpt.files
        /\ staged1 \in WholeStages /\ memory1 \in WholeCheckpoint \cup {None}
    BY <1>1 DEF HalfWritten, Disk, Connection
  <1>4. CASE Left!PrepareTaken(p) \/ Left!RestorePrepareTaken(p)
    <2>1. /\ UNCHANGED <<backup, ckpt, applyRec, restoreRec, staged1, memory1, nextId,
                         op1, job1, txn1>>
          /\ pc1 \in {"prepareText", "rPrepareText"} /\ pc1' \in {"cleanup", "rCleanup"}
          /\ todo1' = txn1.ckpt.files \ todo1
      BY <1>4 DEF Left!PrepareTaken, Left!RestorePrepareTaken
    <2>2. Left!WriteText(p, txn1.ckpt.applied[p]) \/ Left!WriteText(p, txn1.ckpt.original[p])
      BY <1>4 DEF Left!PrepareTaken, Left!RestorePrepareTaken
    <2>3. pc1 \in Writing /\ pc1' \notin Writing \cup Displacing
          /\ pc1 \notin Unplanned /\ pc1' \notin Unplanned
      BY <2>1 DEF Writing, Displacing, Unplanned
    <2>4. LeftMoved
      BY <1>1, <1>2, <1>3, <2>1, <2>2, <2>3, LeftWrites
    <2>5. LeftKept
      BY <1>2, <2>1, <2>3, LeftGoesOn, LeftStored
    <2> QED  BY <2>4, <2>5
  <1>5. CASE Left!RewriteTaken(p)
    <2>1. /\ Left!Return /\ UNCHANGED <<ckpt, applyRec, restoreRec, staged1, memory1, nextId>>
          /\ backup' \in {backup, [backup EXCEPT ![i] = [q \in Paths |-> Absent]]}
          /\ Left!WriteText(p, txn1.ckpt.original[p]) /\ pc1 = "rewriteText"
      BY <1>5 DEF Left!RewriteTaken, Left!Blank, Paths
    <2>2. LeftKept
      BY <1>3, <2>1, LeftReturns, LeftStored
    <2>3. pc1 \in Writing /\ pc1' \notin Writing \cup Displacing
      BY <2>1 DEF Left!Return, Writing, Displacing
    <2>4. /\ backup' \in [Ids -> Contents]
          /\ \A j \in Ids, q \in Paths : backup'[j][q] \in Whole \cup {backup[j][q]}
      <3> HIDE DEF i
      <3> QED  BY ONLY <1>2, <1>3, <2>1 DEF Contents, Whole
    <2>5. LeftMoved
      BY <1>1, <1>2, <2>1, <2>3, <2>4, LeftWrites
    <2> QED  BY <2>2, <2>5
  <1>6. CASE Left!RewriteSweepBackup(p)
    <2>1. /\ UNCHANGED <<target, temp>> /\ backup' = [backup EXCEPT ![i][p] = Absent]
          /\ UNCHANGED <<ckpt, applyRec, restoreRec, staged1, memory1, nextId, op1, job1, txn1>>
          /\ pc1 = "rewriteSweep" /\ pc1' = "rewrite" /\ todo1' = todo1 \ {p}
      BY <1>6 DEF Left!RewriteSweepBackup, Left!SetBackup
    <2>2. pc1 \notin Writing /\ pc1' \notin Writing \cup Displacing
          /\ pc1 \notin Unplanned /\ pc1' \notin Unplanned
      BY <2>1 DEF Writing, Displacing, Unplanned
    <2>3. LeftMoved
      BY <1>2, <2>1, <2>2, LeftMoves
    <2>4. LeftKept
      BY <1>2, <1>3, <2>1, <2>2, LeftGoesOn, LeftStored
    <2> QED  BY <2>3, <2>4
  <1> QED
    BY <1>4, <1>5, <1>6

LEMMA LeftOperationKept ==
    ASSUME HalfWritten, LeftOperation, faults = 0, faults' = 0
    PROVE  LeftKept /\ LeftMoved
  <1>1. ~Left!Fault
    BY DEF Left!Fault
  <1>2. CASE \E p \in Paths : Left!ApplyStep(p) \/ Left!RestoreStep(p) \/ Left!RecoveryStep(p)
    BY <1>2, LeftApplyStepKept, LeftApplyStepMoved, LeftRestoreStepKept, LeftRestoreStepMoved,
       LeftRecoveryStepKept, LeftRecoveryStepMoved
  <1>3. CASE \/ Left!RollbackBlocked \/ Left!SavedChanged \/ Left!VerifyFails
             \/ Left!RecordVanished \/ Left!ReinstateFails \/ Left!ConsumeFails
             \/ \E p \in Paths : Left!RewritePutFails(p)
    <2>1. /\ Left!RecoveryFails /\ UNCHANGED nextId
          /\ pc1 \in {"rollback", "saved", "verify", "unrecord", "reinstate", "consume", "rewritePut"}
      BY <1>3 DEF Left!RollbackBlocked, Left!SavedChanged, Left!VerifyFails,
            Left!RecordVanished, Left!ReinstateFails, Left!ConsumeFails, Left!RewritePutFails
    <2> QED  BY <2>1, LeftRecoveryFailsKept DEF Writing, Unplanned
  <1>4. CASE \/ Left!RecoverNothing \/ Left!RecoverCommitted \/ Left!RecoverUncommitted
             \/ Left!RecoverRestore \/ Left!RecoveredApply \/ Left!RecoveredRestore
    BY ONLY HalfWritten, <1>4, LeftRecoveryKept
  <1>5. CASE LeftPlain \/ LeftReturning \/ Left!ApplyPlan \/ Left!RestorePlan \/ Left!CommitFails
    BY ONLY HalfWritten, faults = 0, faults' = 0, <1>5, LeftPlainKept, LeftReturningKept,
       LeftApplyPlanKept, LeftRestorePlanKept, LeftCommitFailsKept
  <1>6. ~Left!RecoveryIoError
    BY <1>1 DEF Left!RecoveryIoError
  <1>7. CASE \E p \in Paths : \/ Left!PrepareTaken(p) \/ Left!RestorePrepareTaken(p)
                            \/ Left!RewriteTaken(p) \/ Left!RewriteSweepBackup(p)
    BY ONLY HalfWritten, <1>7, LeftOvertakenKept
  <1> QED
    BY ONLY LeftOperation, <1>2, <1>3, <1>4, <1>5, <1>6, <1>7
       DEF LeftOperation, Left!OperationNext, Left!OvertakenNext, Left!OvertakenStep, Left!ApplyNext,
           Left!RestoreNext, Left!RecoveryNext, LeftPlain, LeftReturning, Paths, Left!Paths

LEMMA LeftOperationKeeps ==
    ASSUME HalfWritten, LeftOperation, faults = 0, faults' = 0
    PROVE  HalfWritten'
  <1>1. LeftKept /\ LeftMoved
    BY LeftOperationKept
  <1>2. UNCHANGED rightVars
    BY DEF LeftOperation
  <1>3. Connection(staged2, memory2, pc2, job2, txn2, todo2)'
    BY <1>2 DEF rightVars, HalfWritten, Connection
  <1>4. Planning(op2, pc2, job2)' <=> Planning(op2, pc2, job2)
    BY <1>2 DEF rightVars, Planning
  <1>5. Room'
    <2>1. /\ nextId \in Nat \ {0} /\ MaxIds \in Nat
          /\ Planning(op1, pc1, job1) \/ Planning(op2, pc2, job2) => nextId <= MaxIds
          /\ Planning(op1, pc1, job1) /\ Planning(op2, pc2, job2) => nextId < MaxIds
      BY SharedBoundAssumption DEF HalfWritten, Room
    <2>2. /\ nextId' \in Nat \ {0}
          /\ \/ nextId' = nextId /\ (Planning(op1, pc1, job1)' => Planning(op1, pc1, job1))
             \/ nextId' = nextId + 1 /\ Planning(op1, pc1, job1) /\ ~Planning(op1, pc1, job1)'
      BY <1>1 DEF LeftKept
    <2>3. /\ Planning(op1, pc1, job1)' \/ Planning(op2, pc2, job2)' => nextId' <= MaxIds
          /\ Planning(op1, pc1, job1)' /\ Planning(op2, pc2, job2)' => nextId' < MaxIds
      BY ONLY <2>1, <2>2, <1>4
    <2> QED  BY <2>2, <2>3 DEF Room
  <1> QED
    <2>1. Numbered'
      <3>1. txn2' = txn2 /\ nextId \in Nat /\ nextId' \in {nextId, nextId + 1}
        BY <1>1, <1>2 DEF rightVars, LeftKept, HalfWritten, Room
      <3>2. txn2 # None => txn2.tid \in Nat /\ txn2.tid < nextId
        BY SharedBoundAssumption DEF HalfWritten, Numbered, Connection, WholeTransaction, Ids
      <3>3. txn2' # None => txn2'.tid < nextId'
        BY <3>1, <3>2
      <3> QED  BY <1>1, <3>3 DEF LeftKept, Numbered
    <2> QED
      BY <1>1, <1>2, <1>3, <1>5, <2>1, LeftKeepsOpen DEF HalfWritten, LeftKept, LeftMoved

(* Calls that failed are only counted.                                     *)
LEMMA LeftFaults ==
    ASSUME LeftOperation
    PROVE  faults' \in {faults, faults + 1} /\ UNCHANGED exposed
  <1>1. ASSUME NEW p, Left!ApplyStep(p) PROVE UNCHANGED faults \/ Left!Fault
    BY <1>1 DEF Left!ApplyStep, Left!PrepareOpen, Left!PrepareText, Left!PrepareDeletion,
          Left!PrepareRefused, Left!PrepareFails, Left!ReplaceVerify, Left!ReplaceAside, Left!ReplaceFails,
          Left!ReplacePut, Left!ReplacePutFails, Left!UndoRemove, Left!UndoPut,
          Left!UndoFails, Left!Cleanup, Left!CleanupFails
  <1>2. ASSUME NEW p, Left!RestoreStep(p) PROVE UNCHANGED faults \/ Left!Fault
    BY <1>2 DEF Left!RestoreStep, Left!RestorePrepareOpen, Left!RestorePrepareText,
          Left!RestorePrepareCreation, Left!RestorePrepareFails, Left!RestoreVerify,
          Left!RestoreAside, Left!RestoreFails, Left!RestorePut, Left!RestorePutFails,
          Left!RestoreCleanup, Left!RestoreSweep
  <1>3. ASSUME NEW p, Left!RecoveryStep(p) \/ Left!OvertakenStep(p)
        PROVE  UNCHANGED faults \/ Left!Fault
    BY <1>3 DEF Left!OvertakenStep, Left!PrepareTaken, Left!RestorePrepareTaken,
          Left!RewriteTaken, Left!RewriteSweepBackup, Left!RecoveryStep, Left!Sweep, Left!RewriteOpen, Left!RewriteText,
          Left!RewriteClear, Left!RewritePut, Left!RewriteKeep, Left!RewriteCreation,
          Left!RewriteSweep, Left!RewritePutFails
  <1>4. ASSUME LeftPlain PROVE UNCHANGED faults \/ Left!Fault
    BY <1>4 DEF LeftPlain, Left!PersistApply, Left!MakeDirectory, Left!MakeDirectoryFails,
          Left!PrepareDone, Left!ReplaceDone, Left!UndoDone, Left!CleanupDone,
          Left!CommitDropPrevious, Left!CommitSave, Left!PersistRestore,
          Left!RestorePrepareDone, Left!RestoreReplaced, Left!RestoreCleanupDone,
          Left!RestoreSwept, Left!RestoreConsume, Left!RollbackStart, Left!SavedCheck,
          Left!SweepDone, Left!RewriteDone, Left!VerifyDone, Left!Reinstate,
          Left!ReinstateNotNeeded, Left!Consume
  <1>5. ASSUME LeftReturning PROVE UNCHANGED faults \/ Left!Fault
    BY <1>5 DEF LeftReturning, Left!ApplyRefused, Left!PersistApplyFails, Left!Abandon,
          Left!AbandonFails, Left!CommitNothing, Left!ApplyFinish, Left!RestoreRefused,
          Left!PersistRestoreFails, Left!RestoreAbandon, Left!RestoreFinish,
          Left!RestoreFinishFails, Left!RecoverBlocked, Left!RecoverQuarantine,
          Left!RolledBack, Left!RegisterDone
  <1>6. ASSUME \/ Left!RollbackBlocked \/ Left!SavedChanged \/ Left!VerifyFails
               \/ Left!RecordVanished \/ Left!ReinstateFails \/ Left!ConsumeFails
               \/ Left!RecoveryIoError \/ Left!CommitFails
               \/ Left!ApplyPlan \/ Left!RestorePlan
               \/ Left!RecoverNothing \/ Left!RecoverCommitted \/ Left!RecoverUncommitted
               \/ Left!RecoverRestore \/ Left!RecoveredApply \/ Left!RecoveredRestore
        PROVE  UNCHANGED faults \/ Left!Fault
    BY <1>6 DEF Left!RollbackBlocked, Left!SavedChanged, Left!VerifyFails, Left!RecordVanished,
          Left!ReinstateFails, Left!ConsumeFails, Left!RecoveryIoError, Left!CommitFails, Left!ApplyPlan, Left!RestorePlan,
          Left!RecoverNothing, Left!RecoverCommitted, Left!RecoverUncommitted,
          Left!RecoverRestore, Left!RecoveredApply, Left!RecoveredRestore, Left!Recovering
  <1>7. UNCHANGED faults \/ Left!Fault
    BY ONLY LeftOperation, <1>1, <1>2, <1>3, <1>4, <1>5, <1>6
       DEF LeftOperation, Left!OperationNext, Left!OvertakenNext, Left!ApplyNext,
           Left!RestoreNext, Left!RecoveryNext, LeftPlain, LeftReturning
  <1> QED
    BY <1>7 DEF Left!Fault, LeftOperation

(* A review of whole texts stages whole texts.                             *)
LEMMA LeftReviewKeeps ==
    ASSUME HalfWritten, LeftReview, ~exposed'
    PROVE  HalfWritten' /\ UNCHANGED faults
  <1>1. /\ UNCHANGED <<target, temp, backup, ckpt, applyRec, restoreRec, nextId, faults>>
        /\ UNCHANGED <<memory1, op1, pc1, job1, txn1, todo1>> /\ UNCHANGED rightVars
    BY DEF LeftReview, Left!Review, Left!Discard
  <1>2. staged1' \in WholeStages
    <2>1. CASE Left!Discard
      BY <2>1 DEF Left!Discard, WholeStages, Left!NothingStaged, Left!Paths, Paths
    <2>2. CASE Left!Review
      <3>1. PICK files \in SUBSET Paths, content \in [Paths -> Whole] :
                staged1' = [p \in Paths |->
                              IF p \in files THEN [base |-> target[p], content |-> content[p]]
                                             ELSE None]
        BY <2>2 DEF Left!Review, Left!Paths, Paths, Whole
      <3>2. \A p \in Paths : staged1'[p] # None => staged1'[p].base \in Whole
        <4>1. ~HalfRead(staged1')
          BY DEF LeftReview
        <4>2. ASSUME NEW p \in Paths, staged1'[p] # None
              PROVE  staged1'[p].base \notin Torn /\ staged1'[p].base = target[p]
          BY <3>1, <4>1, <4>2 DEF HalfRead, Paths, Torn
        <4>3. \A p \in Paths : target[p] \in Whole \cup Torn
          BY DEF HalfWritten, Disk, Contents
        <4> QED  BY <4>2, <4>3
      <3>3. \A p \in Paths : staged1'[p] # None
                => staged1'[p] = [base |-> staged1'[p].base, content |-> content[p]]
        BY <3>1
      <3>4. staged1' = [p \in Paths |-> staged1'[p]]
        BY <3>1
      <3> QED  BY <3>2, <3>3, <3>4 DEF WholeStages
    <2> QED  BY <2>1, <2>2 DEF LeftReview
  <1> QED
    BY <1>1, <1>2 DEF HalfWritten, Disk, Store, Room, Numbered, Planning, Connection, Open, Dead,
          Works, Verified, rightVars

LEMMA LeftBeginKeeps ==
    ASSUME HalfWritten, NEW handler \in Handlers, LeftBegin(handler)
    PROVE  HalfWritten' /\ UNCHANGED <<faults, exposed>>
  <1>1. /\ UNCHANGED <<target, temp, backup, ckpt, applyRec, restoreRec, nextId, faults, exposed>>
        /\ UNCHANGED <<staged1, memory1, job1, txn1, todo1>> /\ UNCHANGED rightVars
        /\ pc1 = "idle" /\ pc1' = "recover" /\ op1' = handler
        /\ pc2 # "idle" => nextId < MaxIds
        /\ handler # "register" => nextId <= MaxIds
    BY DEF LeftBegin, Left!Begin
  <1>2. Room'
    <2>1. nextId \in Nat \ {0} /\ MaxIds \in Nat
      BY SharedBoundAssumption DEF HalfWritten, Room
    <2>2. Planning(op2, pc2, job2) => pc2 # "idle"
      BY DEF HalfWritten, Connection, Unplanned, Planning
    <2>3. Planning(op1, pc1, job1)' => handler # "register"
      BY <1>1 DEF Planning
    <2>4. /\ Planning(op2, pc2, job2)' <=> Planning(op2, pc2, job2)
          /\ Planning(op2, pc2, job2) => nextId <= MaxIds
      BY <1>1 DEF rightVars, Planning, HalfWritten, Room
    <2> QED  BY <1>1, <2>1, <2>2, <2>3, <2>4 DEF Room
  <1>3. Connection(staged1, memory1, pc1, job1, txn1, todo1)'
    BY <1>1 DEF HalfWritten, Connection, Unplanned, Bare
  <1>5. \A i \in Ids, p \in Paths : Dead(i, p)' <=> Dead(i, p)
    BY <1>1 DEF Dead, Works, Unplanned, rightVars
  <1>4. Open(LeftTorn, pc1, txn1, todo1)' /\ Verified(pc1, todo1)'
    BY <1>1, <1>5 DEF HalfWritten, Open, Verified, Writing, Displacing
  <1>6. Open(RightTorn, pc2, txn2, todo2)' /\ Verified(pc2, todo2)'
    BY <1>1, <1>5 DEF HalfWritten, Open, Verified, rightVars, Foremost
  <1> QED
    BY <1>1, <1>2, <1>3, <1>4, <1>6 DEF HalfWritten, Disk, Store, Numbered, Connection, rightVars

-----------------------------------------------------------------------------
(* The steps of the right connection.                                       *)
RightMoved ==
    /\ Disk'
    /\ \/ Opens(RightTorn, pc2, pc2', txn2, todo2) /\ UNCHANGED <<txn2, todo2>>
       \/ Closes(RightTorn, pc2, pc2', txn2, todo2)
       \/ Moves(pc2, pc2', txn2, todo2, todo2')

RightKept ==
    /\ Store'
    /\ Connection(staged2, memory2, pc2, job2, txn2, todo2)'
    /\ \A t \in {applyRec', restoreRec', txn2'} : t # None => t.tid < nextId'
    /\ \A i \in Ids, p \in Paths : Works(pc2, txn2, i, p)'
          => Works(pc2, txn2, i, p) \/ i = nextId \/ temp'[i][p] \in Whole
    /\ nextId' \in Nat \ {0}
    /\ \/ nextId' = nextId /\ (Planning(op2, pc2, job2)' => Planning(op2, pc2, job2))
       \/ nextId' = nextId + 1 /\ Planning(op2, pc2, job2) /\ ~Planning(op2, pc2, job2)'

LEMMA RightStill ==
    ASSUME HalfWritten, UNCHANGED <<target, temp, backup>>, pc2 \notin Writing, pc2' \notin Writing,
           pc2' \in Displacing => \A p \in Paths : Foremost(p, todo2') => target[p] \in Whole
    PROVE  RightMoved
  BY DEF RightMoved, Moves, HalfWritten, Disk

(* Nobody takes up the transaction of a file left by a death.              *)
LEMMA RightLeavesDead ==
    ASSUME HalfWritten, RightKept, UNCHANGED leftVars,
           NEW i \in Ids, NEW p \in Paths, Dead(i, p), temp'[i][p] \notin Whole
    PROVE  Dead(i, p)'
  <1>1. /\ Works(pc1, txn1, i, p)' <=> Works(pc1, txn1, i, p)
        /\ Works(pc2, txn2, i, p)' => Works(pc2, txn2, i, p) \/ i = nextId
    BY DEF RightKept, leftVars, Works
  <1>2. i < nextId /\ ~Works(pc2, txn2, i, p) /\ ~Works(pc1, txn1, i, p)
    BY DEF Dead
  <1>3. i \in Nat /\ nextId \in Nat /\ nextId' \in {nextId, nextId + 1}
    BY SharedBoundAssumption DEF Ids, RightKept, HalfWritten, Room
  <1> HIDE DEF Works
  <1> QED  BY <1>1, <1>2, <1>3 DEF Dead

(* An open file stays with the one who has it open.                        *)
LEMMA RightKeepsOpen ==
    ASSUME HalfWritten, RightMoved, RightKept, UNCHANGED leftVars
    PROVE  /\ Open(RightTorn, pc2, txn2, todo2)' /\ Open(LeftTorn, pc1, txn1, todo1)'
           /\ Verified(pc2, todo2)' /\ Verified(pc1, todo1)'
  <1>1. UNCHANGED <<pc1, txn1, todo1>>
    BY DEF leftVars
  <1>2. todo2 \in SUBSET Paths /\ todo1 \in SUBSET Paths
    BY DEF HalfWritten, Connection
  <1>3. \A p, q \in Paths : Foremost(p, todo2) /\ Foremost(q, todo2) => p = q
    BY <1>2 DEF Foremost, Paths
  <1>4. /\ RightTorn \notin Whole /\ LeftTorn \notin Whole /\ RightTorn # LeftTorn
    BY SharedTextAssumption DEF Whole
  <1>5. Writing \cap Displacing = {}
    BY DEF Writing, Displacing
  <1>9. \A i \in Ids, p \in Paths : Dead(i, p) /\ temp'[i][p] \notin Whole => Dead(i, p)'
    BY RightLeavesDead
  <1>10. /\ \A p \in Paths : target[p] = RightTorn => pc2 \in Writing /\ Foremost(p, todo2)
         /\ \A p \in Paths : target[p] = LeftTorn => pc1 \in Writing /\ Foremost(p, todo1)
         /\ \A i \in Ids, p \in Paths :
               /\ temp[i][p] = RightTorn
                     => \/ pc2 \in Writing /\ Foremost(p, todo2) /\ i = txn2.tid
                        \/ Dead(i, p)
               /\ temp[i][p] = LeftTorn
                     => \/ pc1 \in Writing /\ Foremost(p, todo1) /\ i = txn1.tid
                        \/ Dead(i, p)
               /\ backup[i][p] # RightTorn /\ backup[i][p] # LeftTorn
    BY DEF HalfWritten, Open
  <1>11. /\ pc2 \in Displacing => \A p \in Paths : Foremost(p, todo2) => target[p] \in Whole
         /\ pc1 \in Displacing => \A p \in Paths : Foremost(p, todo1) => target[p] \in Whole
    BY DEF HalfWritten, Verified
  <1>12. \A i \in Ids, p \in Paths : Dead(i, p) => ~Works(pc2, txn2, i, p)
    BY DEF Dead
  <1>13. \A i \in Ids, p \in Paths : target[p] \in Whole \cup Torn /\ temp[i][p] \in Whole \cup Torn
                                   /\ backup[i][p] \in Whole \cup Torn
    BY DEF HalfWritten, Disk, Contents
  <1> HIDE DEF Dead, Works, Foremost, Whole
  <1>6. CASE Opens(RightTorn, pc2, pc2', txn2, todo2) /\ UNCHANGED <<txn2, todo2>>
    <2>1. Open(RightTorn, pc2, txn2, todo2)'
      BY ONLY <1>4, <1>6, <1>9, <1>10 DEF Opens, Open, Foremost
    <2>2. Open(LeftTorn, pc1, txn1, todo1)'
      BY ONLY <1>1, <1>4, <1>6, <1>9, <1>10 DEF Opens, Open, Foremost
    <2>3. Verified(pc2, todo2)' /\ Verified(pc1, todo1)'
      BY ONLY <1>1, <1>5, <1>6, <1>11 DEF Opens, Verified, Foremost
    <2> QED  BY <2>1, <2>2, <2>3
  <1>7. CASE Closes(RightTorn, pc2, pc2', txn2, todo2)
    <2>1. Open(RightTorn, pc2, txn2, todo2)'
      BY ONLY <1>3, <1>4, <1>7, <1>9, <1>10 DEF Closes, Open
    <2>2. Open(LeftTorn, pc1, txn1, todo1)'
      BY ONLY <1>1, <1>4, <1>7, <1>9, <1>10 DEF Closes, Open, Foremost
    <2>3. Verified(pc2, todo2)' /\ Verified(pc1, todo1)'
      BY ONLY <1>1, <1>4, <1>7, <1>11 DEF Closes, Verified, Foremost
    <2> QED  BY <2>1, <2>2, <2>3
  <1>8. CASE Moves(pc2, pc2', txn2, todo2, todo2')
    <2>1. /\ pc2 \notin Writing /\ pc2' \notin Writing
          /\ \A p \in Paths : target[p] # RightTorn
          /\ \A i \in Ids, p \in Paths : temp[i][p] = RightTorn => Dead(i, p)
      BY ONLY <1>8, <1>10 DEF Moves
    <2>2. \A i \in Ids, p \in Paths :
             Works(pc2, txn2, i, p)
                => /\ temp[i][p] # RightTorn
                   /\ temp[i][p] = LeftTorn => pc1 \in Writing /\ Foremost(p, todo1)
      BY ONLY <1>10, <1>12, <2>1
    <2>3. \A i \in Ids, p \in Paths :
             /\ temp'[i][p] \in Whole \cup {temp[i][p]}
             /\ \/ backup'[i][p] \in Whole \cup {backup[i][p]}
                \/ pc2 \in Displacing /\ Foremost(p, todo2) /\ backup'[i][p] = target[p]
      BY ONLY <1>8 DEF Moves
    <2>4. \A i \in Ids, p \in Paths : backup'[i][p] # RightTorn /\ backup'[i][p] # LeftTorn
      BY ONLY <1>4, <1>10, <1>11, <2>3
    <2>5. \A p \in Paths :
             \/ target'[p] \in Whole \cup {target[p]}
             \/ \E i \in Ids : target'[p] = backup[i][p]
             \/ \E i \in Ids : target'[p] = temp[i][p] /\ Works(pc2, txn2, i, p)
      BY ONLY <1>8 DEF Moves
    <2>6. \A p \in Paths :
             /\ target'[p] # RightTorn
             /\ target'[p] = LeftTorn => pc1 \in Writing /\ Foremost(p, todo1)
      BY ONLY <1>4, <1>10, <2>1, <2>2, <2>5
    <2>7. Open(RightTorn, pc2, txn2, todo2)'
      <3>1. \A i \in Ids, p \in Paths : temp'[i][p] = RightTorn => Dead(i, p)'
        BY ONLY <1>4, <1>9, <2>1, <2>3
      <3> QED  BY ONLY <2>4, <2>6, <3>1 DEF Open
    <2>8. Open(LeftTorn, pc1, txn1, todo1)'
      <3>1. \A i \in Ids, p \in Paths : temp'[i][p] = LeftTorn
                => \/ pc1 \in Writing /\ Foremost(p, todo1) /\ i = txn1.tid
                   \/ Dead(i, p)'
        BY ONLY <1>4, <1>9, <1>10, <2>3
      <3> QED  BY ONLY <1>1, <2>4, <2>6, <3>1 DEF Open, Foremost
    <2>9. Verified(pc2, todo2)'
      BY ONLY <1>8 DEF Moves, Verified
    <2>10. ASSUME pc1 \in Displacing, NEW p \in Paths, Foremost(p, todo1)
           PROVE  target'[p] \in Whole
      <3>1. target[p] \in Whole
        BY <1>11, <2>10
      <3>2. \A i \in Ids : /\ backup[i][p] \in Whole
                           /\ Works(pc2, txn2, i, p) => temp[i][p] \in Whole
        BY <1>5, <1>10, <1>13, <2>2, <2>10 DEF Torn
      <3> QED  BY ONLY <2>5, <3>1, <3>2, p \in Paths
    <2>11. Verified(pc1, todo1)'
      BY ONLY <1>1, <2>10 DEF Verified, Foremost
    <2> QED  BY <2>7, <2>8, <2>9, <2>11
  <1> QED
    BY <1>6, <1>7, <1>8 DEF RightMoved

(* The transaction the right connection works on.                           *)
LEMMA RightTransaction ==
    ASSUME HalfWritten, pc2 \notin Unplanned
    PROVE  /\ txn2 \in WholeTransaction /\ txn2.tid \in Ids
           /\ txn2.ckpt \in WholeCheckpoint /\ txn2.prev \in WholeCheckpoint \cup {None}
           /\ txn2.ckpt.files \in SUBSET Paths
           /\ txn2.ckpt.original \in [Paths -> Whole] /\ txn2.ckpt.applied \in [Paths -> Whole]
  BY DEF HalfWritten, Connection, WholeTransaction, WholeCheckpoint

(* A file still to visit is one of the transaction.                        *)
LEMMA RightWorks ==
    ASSUME HalfWritten, pc2 \notin Bare, NEW p \in todo2
    PROVE  Works(pc2, txn2, txn2.tid, p)
  BY DEF HalfWritten, Connection, Works, Bare

(* What the records and the handler hold is numbered.                      *)
LEMMA RightNumbered ==
    ASSUME HalfWritten, nextId' \in {nextId, nextId + 1},
           applyRec' \in {applyRec, restoreRec, txn2, None},
           restoreRec' \in {applyRec, restoreRec, txn2, None},
           txn2' \in {applyRec, restoreRec, txn2, None}
    PROVE  \A t \in {applyRec', restoreRec', txn2'} : t # None => t.tid < nextId'
  <1>1. \A t \in {applyRec, restoreRec, txn2} : t # None => t.tid \in Nat /\ t.tid < nextId
    BY SharedBoundAssumption DEF HalfWritten, Numbered, Store, Connection, WholeTransaction, Ids
  <1>2. nextId \in Nat
    BY DEF HalfWritten, Room
  <1> QED  BY <1>1, <1>2

LEMMA RightGoesOn ==
    ASSUME HalfWritten, pc2 \notin Unplanned, pc2' \notin Unplanned, todo2' \in SUBSET Paths,
           pc2' \notin Bare => todo2' \subseteq txn2.ckpt.files,
           applyRec' \in {applyRec, txn2}, restoreRec' \in {restoreRec, txn2},
           Store', UNCHANGED <<staged2, memory2, nextId, op2, job2, txn2>>
    PROVE  RightKept
  <1>1. \A t \in {applyRec', restoreRec', txn2'} : t # None => t.tid < nextId'
    BY RightNumbered
  <1>2. \A i \in Ids, p \in Paths : Works(pc2, txn2, i, p)' => Works(pc2, txn2, i, p)
    BY DEF Works
  <1>3. Connection(staged2, memory2, pc2, job2, txn2, todo2)'
    BY DEF HalfWritten, Connection
  <1>4. Planning(op2, pc2, job2)' => Planning(op2, pc2, job2)
    BY DEF Planning, Unplanned
  <1>5. nextId' \in Nat \ {0}
    BY DEF HalfWritten, Room
  <1> QED
    BY <1>1, <1>2, <1>3, <1>4, <1>5 DEF RightKept

LEMMA RightStored ==
    ASSUME HalfWritten, UNCHANGED <<ckpt, applyRec, restoreRec>>
    PROVE  Store'
  BY DEF HalfWritten, Store

LEMMA RightReturns ==
    ASSUME HalfWritten, Right!Return, Store', nextId' = nextId,
           applyRec' \in {applyRec, None}, restoreRec' \in {restoreRec, None},
           staged2' \in WholeStages, memory2' \in WholeCheckpoint \cup {None}
    PROVE  RightKept
  <1>1. \A t \in {applyRec', restoreRec', txn2'} : t # None => t.tid < nextId'
    BY RightNumbered DEF Right!Return
  <1>2. \A i, p : ~Works(pc2, txn2, i, p)'
    BY DEF Works, Unplanned, Right!Return
  <1> QED
    BY <1>1, <1>2 DEF RightKept, HalfWritten, Connection, Room, Planning, Unplanned, Bare, Right!Return

LEMMA RightApplyStepKept ==
    ASSUME HalfWritten, NEW p \in Paths, Right!ApplyStep(p), faults = 0, faults' = 0
    PROVE  RightKept /\ pc2 \notin Bare /\ p \in todo2
  <1>1. ~Right!Fault
    BY DEF Right!Fault
  <1>2. pc2 \notin Bare /\ pc2' \notin Bare /\ p \in todo2
    BY <1>1 DEF Right!ApplyStep, Right!PrepareOpen, Right!PrepareText, Right!PrepareDeletion,
          Right!PrepareRefused, Right!PrepareFails, Right!ReplaceVerify, Right!ReplaceAside, Right!ReplaceFails,
          Right!ReplacePut, Right!ReplacePutFails, Right!UndoRemove, Right!UndoPut,
          Right!UndoFails, Right!Cleanup, Right!CleanupFails, Bare, Unplanned
  <1>3. UNCHANGED <<ckpt, applyRec, restoreRec, staged2, memory2, nextId, op2, job2, txn2>>
    BY <1>1 DEF Right!ApplyStep, Right!PrepareOpen, Right!PrepareText, Right!PrepareDeletion,
          Right!PrepareRefused, Right!PrepareFails, Right!ReplaceVerify, Right!ReplaceAside, Right!ReplaceFails,
          Right!ReplacePut, Right!ReplacePutFails, Right!UndoRemove, Right!UndoPut,
          Right!UndoFails, Right!Cleanup, Right!CleanupFails
  <1>4. txn2.ckpt.files \in SUBSET Paths /\ todo2 \subseteq txn2.ckpt.files
    BY <1>2, RightTransaction DEF HalfWritten, Connection, Bare
  <1>5. todo2' \in {todo2, todo2 \ {p}, txn2.ckpt.files, txn2.ckpt.files \ todo2,
                    (txn2.ckpt.files \ todo2) \cup {p}}
    BY <1>1 DEF Right!ApplyStep, Right!PrepareOpen, Right!PrepareText, Right!PrepareDeletion,
          Right!PrepareRefused, Right!PrepareFails, Right!ReplaceVerify, Right!ReplaceAside, Right!ReplaceFails,
          Right!ReplacePut, Right!ReplacePutFails, Right!UndoRemove, Right!UndoPut,
          Right!UndoFails, Right!Cleanup, Right!CleanupFails
  <1>6. todo2' \subseteq txn2.ckpt.files
    BY <1>2, <1>4, <1>5
  <1> QED
    BY <1>2, <1>3, <1>4, <1>6, RightGoesOn, RightStored DEF Bare

(* A step in which nothing is open and at most the texts of p move.        *)
LEMMA RightMoves ==
    ASSUME HalfWritten, NEW p \in Paths, NEW i \in Ids, Works(pc2, txn2, i, p),
           pc2 \notin Writing, pc2' \notin Writing \cup Displacing,
           target' \in {target, [target EXCEPT ![p] = Absent],
                        [target EXCEPT ![p] = temp[i][p]], [target EXCEPT ![p] = backup[i][p]]},
           temp' \in {temp, [temp EXCEPT ![i][p] = Absent]},
           \/ backup' \in {backup, [backup EXCEPT ![i][p] = Absent]}
           \/ /\ backup' = [backup EXCEPT ![i][p] = target[p]]
              /\ pc2 \in Displacing /\ Foremost(p, todo2)
    PROVE  RightMoved
  <1>1. target \in Contents /\ temp \in [Ids -> Contents] /\ backup \in [Ids -> Contents]
    BY DEF HalfWritten, Disk
  <1>2. /\ Absent \in Whole /\ target[p] \in Whole \cup Torn
        /\ temp[i][p] \in Whole \cup Torn /\ backup[i][p] \in Whole \cup Torn
    BY <1>1 DEF Contents, Whole
  <1>3. /\ target' \in Contents
        /\ \A q \in Paths : \/ target'[q] \in {target[q], Absent, backup[i][q]}
                            \/ q = p /\ target'[q] = temp[i][q]
    <2>1. CASE target' = target
      BY <1>1, <2>1
    <2>2. ASSUME NEW text \in {Absent, temp[i][p], backup[i][p]}, target' = [target EXCEPT ![p] = text]
          PROVE  /\ target' \in Contents
                 /\ \A q \in Paths : \/ target'[q] \in {target[q], Absent, backup[i][q]}
                                     \/ q = p /\ target'[q] = temp[i][q]
      <3>1. text \in Whole \cup Torn
        BY <1>2
      <3>2. /\ target' \in Contents
            /\ \A q \in Paths : target'[q] = IF q = p THEN text ELSE target[q]
        BY <1>1, <2>2, <3>1 DEF Contents
      <3> QED  BY <3>2
    <2> QED  BY <2>1, <2>2
  <1>4. /\ temp' \in [Ids -> Contents]
        /\ \A j \in Ids, q \in Paths : temp'[j][q] \in {temp[j][q], Absent}
    <2>1. CASE temp' = temp
      BY <1>1, <2>1
    <2>2. CASE temp' = [temp EXCEPT ![i][p] = Absent]
      BY ONLY <1>1, <1>2, <2>2, p \in Paths, i \in Ids DEF Contents
    <2> QED  BY <2>1, <2>2
  <1>5. /\ backup' \in [Ids -> Contents]
        /\ \A j \in Ids, q \in Paths :
              \/ backup'[j][q] \in {backup[j][q], Absent}
              \/ backup'[j][q] = target[q] /\ pc2 \in Displacing /\ Foremost(q, todo2)
    <2>1. CASE backup' = backup
      BY <1>1, <2>1
    <2>2. CASE backup' = [backup EXCEPT ![i][p] = Absent]
      BY ONLY <1>1, <1>2, <2>2, p \in Paths, i \in Ids DEF Contents
    <2>3. CASE /\ backup' = [backup EXCEPT ![i][p] = target[p]]
               /\ pc2 \in Displacing /\ Foremost(p, todo2)
      BY ONLY <1>1, <1>2, <2>3, p \in Paths, i \in Ids DEF Contents
    <2> QED  BY <2>1, <2>2, <2>3
  <1>6. Moves(pc2, pc2', txn2, todo2, todo2')
    BY <1>2, <1>3, <1>4, <1>5 DEF Moves
  <1> QED
    BY <1>3, <1>4, <1>5, <1>6 DEF RightMoved, Disk

(* A step in which a file is opened for p, its text is written, or it is   *)
(* removed again.                                                          *)
LEMMA RightOpens ==
    ASSUME HalfWritten, NEW p \in Paths, NEW i \in Ids, i = txn2.tid, Foremost(p, todo2),
           pc2 \notin Writing, pc2' \in Writing, UNCHANGED <<target, backup, txn2, todo2>>,
           temp' = [temp EXCEPT ![i][p] = RightTorn]
    PROVE  RightMoved
  <1>1. /\ temp' \in [Ids -> Contents]
        /\ \A j \in Ids, q \in Paths :
              temp'[j][q] = IF j = i /\ q = p THEN RightTorn ELSE temp[j][q]
    <2>1. temp \in [Ids -> Contents] /\ RightTorn \in Whole \cup Torn
      BY DEF HalfWritten, Disk, Torn
    <2> QED  BY <2>1 DEF Contents
  <1>2. Opens(RightTorn, pc2, pc2', txn2, todo2)
    <2>1. \A j \in Ids, q \in Paths :
              \/ temp'[j][q] = temp[j][q]
              \/ temp'[j][q] = RightTorn /\ Foremost(q, todo2) /\ j = txn2.tid
      BY <1>1
    <2> QED  BY <2>1 DEF Opens
  <1>3. Disk'
    BY <1>1 DEF HalfWritten, Disk
  <1> QED
    BY <1>2, <1>3 DEF RightMoved

LEMMA RightCloses ==
    ASSUME HalfWritten, NEW p \in Paths, NEW i \in Ids, i = txn2.tid, Foremost(p, todo2),
           pc2 \in Writing, pc2' \notin Writing \cup Displacing, backup' \in [Ids -> Contents],
           \A j \in Ids, q \in Paths : backup'[j][q] \in Whole \cup {backup[j][q]},
           NEW x \in Whole \cup {target[p]}, target' = [target EXCEPT ![p] = x], x # RightTorn,
           NEW y \in Whole \cup {temp[i][p]}, temp' = [temp EXCEPT ![i][p] = y], y # RightTorn
    PROVE  RightMoved
  <1>1. target \in Contents /\ temp \in [Ids -> Contents] /\ backup \in [Ids -> Contents]
    BY DEF HalfWritten, Disk
  <1>2. x \in Whole \cup Torn /\ y \in Whole \cup Torn
    BY <1>1 DEF Contents
  <1>3. /\ target' \in Contents
        /\ \A q \in Paths : target'[q] = IF q = p THEN x ELSE target[q]
    BY <1>1, <1>2 DEF Contents
  <1>5. /\ temp' \in [Ids -> Contents]
        /\ \A j \in Ids, q \in Paths :
              temp'[j][q] = IF j = i /\ q = p THEN y ELSE temp[j][q]
    BY <1>1, <1>2 DEF Contents
  <1>4. \A q \in Paths : Foremost(q, todo2) => q = p
    BY ForemostIsOne DEF HalfWritten, Connection
  <1> QED
    BY <1>1, <1>3, <1>4, <1>5 DEF RightMoved, Disk, Closes

LEMMA RightWrites ==
    ASSUME HalfWritten, NEW p \in Paths, txn2.tid \in Ids, Foremost(p, todo2),
           pc2 \in Writing, pc2' \notin Writing \cup Displacing, backup' \in [Ids -> Contents],
           \A j \in Ids, q \in Paths : backup'[j][q] \in Whole \cup {backup[j][q]},
           NEW text \in Whole, Right!WriteText(p, text)
    PROVE  RightMoved
  <1> DEFINE x == IF target[p] = RightTorn THEN text ELSE target[p]
             y == IF temp[txn2.tid][p] = RightTorn THEN text ELSE temp[txn2.tid][p]
  <1>1. target \in Contents /\ temp \in [Ids -> Contents]
    BY DEF HalfWritten, Disk
  <1>2. target' = [target EXCEPT ![p] = x] /\ temp' = [temp EXCEPT ![txn2.tid][p] = y]
    BY <1>1 DEF Right!WriteText, Contents
  <1>3. x # RightTorn /\ y # RightTorn
    BY SharedTextAssumption DEF Whole
  <1>4. x \in Whole \cup {target[p]} /\ y \in Whole \cup {temp[txn2.tid][p]}
    OBVIOUS
  <1> HIDE DEF x, y
  <1> QED
    BY <1>2, <1>3, <1>4, RightCloses

LEMMA RightApplyStepMoved ==
    ASSUME HalfWritten, NEW p \in Paths, Right!ApplyStep(p), faults = 0, faults' = 0
    PROVE  RightMoved
  <1> DEFINE i == txn2.tid
  <1>1. ~Right!Fault
    BY DEF Right!Fault
  <1>2. /\ i \in Ids /\ txn2.ckpt.original[p] \in Whole /\ txn2.ckpt.applied[p] \in Whole
        /\ Works(pc2, txn2, i, p)
    BY RightApplyStepKept, RightTransaction, RightWorks DEF Bare
  <1>3. target \in Contents /\ temp \in [Ids -> Contents] /\ backup \in [Ids -> Contents]
    BY DEF HalfWritten, Disk
  <1>5. CASE Right!PrepareOpen(p)
    <2>1. /\ UNCHANGED <<target, backup, txn2, todo2>> /\ temp' = [temp EXCEPT ![i][p] = RightTorn]
          /\ pc2 = "prepare" /\ pc2' = "prepareText" /\ Foremost(p, todo2)
      BY <1>5 DEF Right!PrepareOpen, Right!SetTemp, Foremost
    <2> QED  BY <1>2, <1>3, <2>1, RightOpens DEF Writing
  <1>6. CASE Right!PrepareText(p)
    <2>1. /\ UNCHANGED backup /\ Foremost(p, todo2)
          /\ pc2 = "prepareText" /\ pc2' = "prepare"
          /\ Right!WriteText(p, txn2.ckpt.applied[p])
      BY <1>6 DEF Right!PrepareText, Foremost
    <2>2. backup' \in [Ids -> Contents]
      BY <2>1 DEF HalfWritten, Disk
    <2> QED  BY <1>2, <2>1, <2>2, RightWrites DEF Writing, Displacing
  <1>7. CASE Right!PrepareFails(p)
    <2>1. /\ UNCHANGED <<target, backup>> /\ Foremost(p, todo2) /\ pc2' = "cleanup"
          /\ temp' = [temp EXCEPT ![i][p] = Absent]
          /\ \/ pc2 = "prepare"
             \/ pc2 = "prepareText" /\ target[p] = Absent
      BY <1>1, <1>7 DEF Right!PrepareFails, Right!SetTemp, Foremost
    <2>2. CASE pc2 = "prepare"
      BY <1>2, <2>1, <2>2, RightMoves DEF Writing, Displacing
    <2>3. CASE pc2 = "prepareText"
      <3>1. /\ target' = [target EXCEPT ![p] = target[p]]
            /\ target[p] # RightTorn /\ Absent # RightTorn /\ Absent \in Whole
        BY <1>3, <2>1, <2>3, SharedTextAssumption DEF Contents, Whole
      <3>2. pc2 \in Writing /\ pc2' \notin Writing \cup Displacing
        BY <2>1, <2>3 DEF Writing, Displacing
      <3> QED  BY <1>2, <1>3, <2>1, <3>1, <3>2, RightCloses
    <2> QED  BY <2>1, <2>2, <2>3
  <1>8. CASE Right!ReplaceVerify(p)
    <2>1. /\ UNCHANGED <<target, temp, backup, todo2>> /\ pc2 = "replace" /\ pc2' = "aside"
          /\ Foremost(p, todo2) /\ target[p] \in Whole
      BY <1>2, <1>8 DEF Right!ReplaceVerify, Foremost
    <2> QED  BY <2>1, ForemostIsOne, RightStill DEF Writing, HalfWritten, Connection
  <1>9. CASE \/ Right!PrepareDeletion(p) \/ Right!PrepareRefused(p)
             \/ Right!ReplaceFails(p) \/ Right!ReplacePutFails(p)
    <2>1. /\ UNCHANGED <<target, temp, backup>> /\ pc2 \notin Writing
          /\ pc2' \notin Writing \cup Displacing
      BY <1>9 DEF Right!PrepareDeletion, Right!PrepareRefused, Right!ReplaceFails,
            Right!ReplacePutFails, Writing, Displacing
    <2> QED  BY <2>1, RightStill
  <1>10. CASE Right!ReplaceAside(p)
    <2>1. /\ UNCHANGED temp /\ pc2 = "aside" /\ pc2' = "put" /\ Foremost(p, todo2)
          /\ \/ UNCHANGED <<target, backup>>
             \/ /\ target' = [target EXCEPT ![p] = Absent]
                /\ backup' = [backup EXCEPT ![i][p] = target[p]]
      BY <1>10 DEF Right!ReplaceAside, Right!MoveAside, Right!SetTarget, Right!SetBackup, Foremost
    <2>2. pc2 \in Displacing /\ pc2 \notin Writing /\ pc2' \notin Writing \cup Displacing
      BY <2>1 DEF Writing, Displacing
    <2> QED  BY <1>2, <2>1, <2>2, RightMoves
  <1>11. CASE Right!ReplacePut(p)
    <2>1. /\ UNCHANGED backup /\ pc2 = "put" /\ pc2' = "replace"
          /\ \/ UNCHANGED <<target, temp>>
             \/ /\ target' = [target EXCEPT ![p] = temp[i][p]]
                /\ temp' = [temp EXCEPT ![i][p] = Absent]
      BY <1>11 DEF Right!ReplacePut, Right!PutTemp, Right!SetTarget, Right!SetTemp
    <2>2. pc2 \notin Writing /\ pc2' \notin Writing \cup Displacing
      BY <2>1 DEF Writing, Displacing
    <2> QED  BY <1>2, <2>1, <2>2, RightMoves
  <1>12. CASE Right!UndoRemove(p) \/ Right!UndoPut(p) \/ Right!UndoFails(p)
    <2>1. /\ UNCHANGED temp /\ pc2 \in {"undo", "undoPut"} /\ pc2' \in {"undo", "undoPut"}
          /\ \/ UNCHANGED <<target, backup>>
             \/ UNCHANGED backup /\ target' = [target EXCEPT ![p] = Absent]
             \/ /\ target' = [target EXCEPT ![p] = backup[i][p]]
                /\ backup' = [backup EXCEPT ![i][p] = Absent]
      BY <1>1, <1>12 DEF Right!UndoRemove, Right!UndoPut, Right!UndoFails, Right!PutBack,
            Right!SetTarget, Right!SetBackup
    <2>2. pc2 \notin Writing /\ pc2' \notin Writing \cup Displacing
      BY <2>1 DEF Writing, Displacing
    <2> QED  BY <1>2, <2>1, <2>2, RightMoves
  <1>13. CASE Right!Cleanup(p)
    <2>1. /\ temp' = [temp EXCEPT ![i][p] = Absent] /\ pc2 = "cleanup" /\ pc2' = "cleanup"
          /\ \/ UNCHANGED <<target, backup>>
             \/ /\ target' = [target EXCEPT ![p] = backup[i][p]]
                /\ backup' = [backup EXCEPT ![i][p] = Absent]
      BY <1>13 DEF Right!Cleanup, Right!MoveBackDisplaced, Right!PutBack,
            Right!SetTemp, Right!SetTarget, Right!SetBackup
    <2>2. pc2 \notin Writing /\ pc2' \notin Writing \cup Displacing
      BY <2>1 DEF Writing, Displacing
    <2> QED  BY <1>2, <2>1, <2>2, RightMoves
  <1>14. ~Right!CleanupFails(p)
    BY <1>1 DEF Right!CleanupFails
  <1> QED
    BY <1>5, <1>6, <1>7, <1>8, <1>9, <1>10, <1>11, <1>12, <1>13, <1>14 DEF Right!ApplyStep

LEMMA RightRestoreStepKept ==
    ASSUME HalfWritten, NEW p \in Paths, Right!RestoreStep(p), faults = 0, faults' = 0
    PROVE  RightKept /\ pc2 \notin Bare /\ p \in todo2
  <1>1. ~Right!Fault
    BY DEF Right!Fault
  <1>2. pc2 \notin Bare /\ pc2' \notin Bare /\ p \in todo2
    BY <1>1 DEF Right!RestoreStep, Right!RestorePrepareOpen, Right!RestorePrepareText,
          Right!RestorePrepareCreation, Right!RestorePrepareFails, Right!RestoreVerify,
          Right!RestoreAside, Right!RestoreFails, Right!RestorePut, Right!RestorePutFails,
          Right!RestoreCleanup, Right!RestoreSweep, Bare, Unplanned
  <1>3. UNCHANGED <<ckpt, applyRec, restoreRec, staged2, memory2, nextId, op2, job2, txn2>>
    BY <1>1 DEF Right!RestoreStep, Right!RestorePrepareOpen, Right!RestorePrepareText,
          Right!RestorePrepareCreation, Right!RestorePrepareFails, Right!RestoreVerify,
          Right!RestoreAside, Right!RestoreFails, Right!RestorePut, Right!RestorePutFails,
          Right!RestoreCleanup, Right!RestoreSweep
  <1>4. txn2.ckpt.files \in SUBSET Paths /\ todo2 \subseteq txn2.ckpt.files
    BY <1>2, RightTransaction DEF HalfWritten, Connection, Bare
  <1>5. todo2' \in {todo2, todo2 \ {p}, txn2.ckpt.files, txn2.ckpt.files \ todo2,
                    (txn2.ckpt.files \ todo2) \cup {p}}
    BY <1>1 DEF Right!RestoreStep, Right!RestorePrepareOpen, Right!RestorePrepareText,
          Right!RestorePrepareCreation, Right!RestorePrepareFails, Right!RestoreVerify,
          Right!RestoreAside, Right!RestoreFails, Right!RestorePut, Right!RestorePutFails,
          Right!RestoreCleanup, Right!RestoreSweep
  <1>6. todo2' \subseteq txn2.ckpt.files
    BY <1>2, <1>4, <1>5
  <1> QED
    BY <1>2, <1>3, <1>4, <1>6, RightGoesOn, RightStored DEF Bare

LEMMA RightRestoreStepMoved ==
    ASSUME HalfWritten, NEW p \in Paths, Right!RestoreStep(p), faults = 0, faults' = 0
    PROVE  RightMoved
  <1> DEFINE i == txn2.tid
  <1>1. ~Right!Fault
    BY DEF Right!Fault
  <1>2. /\ i \in Ids /\ txn2.ckpt.original[p] \in Whole /\ txn2.ckpt.applied[p] \in Whole
        /\ Works(pc2, txn2, i, p)
    BY RightRestoreStepKept, RightTransaction, RightWorks DEF Bare
  <1>3. CASE Right!RestorePrepareOpen(p)
    <2>1. /\ UNCHANGED <<target, backup, txn2, todo2>> /\ temp' = [temp EXCEPT ![i][p] = RightTorn]
          /\ pc2 = "rPrepare" /\ pc2' = "rPrepareText" /\ Foremost(p, todo2)
      BY <1>3 DEF Right!RestorePrepareOpen, Right!SetTemp, Foremost
    <2> QED  BY <1>2, <2>1, RightOpens DEF Writing
  <1>4. CASE Right!RestorePrepareText(p)
    <2>1. /\ UNCHANGED backup /\ Foremost(p, todo2)
          /\ pc2 = "rPrepareText" /\ pc2' = "rPrepare"
          /\ Right!WriteText(p, txn2.ckpt.original[p])
      BY <1>4 DEF Right!RestorePrepareText, Foremost
    <2>2. backup' \in [Ids -> Contents]
      BY <2>1 DEF HalfWritten, Disk
    <2> QED  BY <1>2, <2>1, <2>2, RightWrites DEF Writing, Displacing
  <1>5. CASE Right!RestorePrepareFails(p) \/ Right!RestoreCleanup(p)
    <2>1. /\ UNCHANGED <<target, backup>> /\ temp' = [temp EXCEPT ![i][p] = Absent]
          /\ pc2 \in {"rPrepare", "rCleanup"} /\ pc2' = "rCleanup"
      BY <1>1, <1>5 DEF Right!RestorePrepareFails, Right!RestoreCleanup, Right!SetTemp
    <2>2. pc2 \notin Writing /\ pc2' \notin Writing \cup Displacing
      BY <2>1 DEF Writing, Displacing
    <2> QED  BY <1>2, <2>1, <2>2, RightMoves
  <1>6. CASE Right!RestoreVerify(p)
    <2>1. /\ UNCHANGED <<target, temp, backup, todo2>> /\ pc2 = "rReplace" /\ pc2' = "rAside"
          /\ Foremost(p, todo2) /\ target[p] \in Whole
      BY <1>2, <1>6 DEF Right!RestoreVerify, Foremost
    <2> QED  BY <2>1, ForemostIsOne, RightStill DEF Writing, HalfWritten, Connection
  <1>7. CASE Right!RestorePrepareCreation(p) \/ Right!RestoreFails(p) \/ Right!RestorePutFails(p)
    <2>1. /\ UNCHANGED <<target, temp, backup>> /\ pc2 \notin Writing
          /\ pc2' \notin Writing \cup Displacing
      BY <1>7 DEF Right!RestorePrepareCreation, Right!RestoreFails, Right!RestorePutFails,
            Writing, Displacing
    <2> QED  BY <2>1, RightStill
  <1>8. CASE Right!RestoreAside(p)
    <2>1. /\ UNCHANGED temp /\ pc2 = "rAside" /\ pc2' = "rPut" /\ Foremost(p, todo2)
          /\ \/ UNCHANGED <<target, backup>>
             \/ /\ target' = [target EXCEPT ![p] = Absent]
                /\ backup' = [backup EXCEPT ![i][p] = target[p]]
      BY <1>8 DEF Right!RestoreAside, Right!MoveAside, Right!SetTarget, Right!SetBackup, Foremost
    <2>2. pc2 \in Displacing /\ pc2 \notin Writing /\ pc2' \notin Writing \cup Displacing
      BY <2>1 DEF Writing, Displacing
    <2> QED  BY <1>2, <2>1, <2>2, RightMoves
  <1>9. CASE Right!RestorePut(p)
    <2>1. /\ UNCHANGED backup /\ pc2 = "rPut" /\ pc2' = "rReplace"
          /\ \/ UNCHANGED <<target, temp>>
             \/ /\ target' = [target EXCEPT ![p] = temp[i][p]]
                /\ temp' = [temp EXCEPT ![i][p] = Absent]
      BY <1>9 DEF Right!RestorePut, Right!PutTemp, Right!SetTarget, Right!SetTemp
    <2>2. pc2 \notin Writing /\ pc2' \notin Writing \cup Displacing
      BY <2>1 DEF Writing, Displacing
    <2> QED  BY <1>2, <2>1, <2>2, RightMoves
  <1>10. CASE Right!RestoreSweep(p)
    <2>1. /\ UNCHANGED <<target, temp>> /\ backup' = [backup EXCEPT ![i][p] = Absent]
          /\ pc2 = "rSweep" /\ pc2' = "rSweep"
      BY <1>1, <1>10 DEF Right!RestoreSweep, Right!SetBackup
    <2>2. pc2 \notin Writing /\ pc2' \notin Writing \cup Displacing
      BY <2>1 DEF Writing, Displacing
    <2> QED  BY <1>2, <2>1, <2>2, RightMoves
  <1> QED
    BY <1>3, <1>4, <1>5, <1>6, <1>7, <1>8, <1>9, <1>10 DEF Right!RestoreStep

LEMMA RightRecoveryStepKept ==
    ASSUME HalfWritten, NEW p \in Paths, Right!RecoveryStep(p)
    PROVE  RightKept /\ pc2 \notin Bare /\ p \in todo2
  <1>1. pc2 \notin Bare /\ pc2' \notin Bare /\ p \in todo2
    BY DEF Right!RecoveryStep, Right!Sweep, Right!RewriteOpen, Right!RewriteText, Right!RewriteClear,
          Right!RewritePut, Right!RewriteKeep, Right!RewriteCreation, Right!RewriteSweep,
          Bare, Unplanned
  <1>2. UNCHANGED <<ckpt, applyRec, restoreRec, staged2, memory2, nextId, op2, job2, txn2>>
    BY DEF Right!RecoveryStep, Right!Sweep, Right!RewriteOpen, Right!RewriteText, Right!RewriteClear,
          Right!RewritePut, Right!RewriteKeep, Right!RewriteCreation, Right!RewriteSweep
  <1>3. todo2' \in {todo2, todo2 \ {p}}
    BY DEF Right!RecoveryStep, Right!Sweep, Right!RewriteOpen, Right!RewriteText, Right!RewriteClear,
          Right!RewritePut, Right!RewriteKeep, Right!RewriteCreation, Right!RewriteSweep
  <1>4. txn2.ckpt.files \in SUBSET Paths /\ todo2 \subseteq txn2.ckpt.files
    BY <1>1, RightTransaction DEF HalfWritten, Connection, Bare
  <1> QED
    BY <1>1, <1>2, <1>3, <1>4, RightGoesOn, RightStored DEF Bare

LEMMA RightRecoveryStepMoved ==
    ASSUME HalfWritten, NEW p \in Paths, Right!RecoveryStep(p)
    PROVE  RightMoved
  <1> DEFINE i == txn2.tid
  <1>1. i \in Ids /\ txn2.ckpt.original[p] \in Whole /\ Works(pc2, txn2, i, p)
    BY RightRecoveryStepKept, RightTransaction, RightWorks DEF Bare
  <1>2. CASE Right!RewriteOpen(p)
    <2>1. /\ UNCHANGED <<target, backup, txn2, todo2>> /\ temp' = [temp EXCEPT ![i][p] = RightTorn]
          /\ pc2 = "rewrite" /\ pc2' = "rewriteText" /\ Foremost(p, todo2)
      BY <1>2 DEF Right!RewriteOpen, Right!SetTemp, Foremost
    <2> QED  BY <1>1, <2>1, RightOpens DEF Writing
  <1>3. CASE Right!RewriteText(p)
    <2>1. /\ UNCHANGED backup /\ Foremost(p, todo2)
          /\ pc2 = "rewriteText" /\ pc2' = "rewriteClear"
          /\ Right!WriteText(p, txn2.ckpt.original[p])
      BY <1>3 DEF Right!RewriteText, Foremost
    <2>2. backup' \in [Ids -> Contents]
      BY <2>1 DEF HalfWritten, Disk
    <2> QED  BY <1>1, <2>1, <2>2, RightWrites DEF Writing, Displacing
  <1>4. CASE Right!Sweep(p) \/ Right!RewriteSweep(p)
    <2>1. /\ UNCHANGED target /\ temp' = [temp EXCEPT ![i][p] = Absent]
          /\ backup' = [backup EXCEPT ![i][p] = Absent]
          /\ pc2 \in {"sweep", "rewriteSweep"} /\ pc2' \in {"sweep", "rewrite"}
      BY <1>4 DEF Right!Sweep, Right!RewriteSweep, Right!SetTemp, Right!SetBackup
    <2>2. pc2 \notin Writing /\ pc2' \notin Writing \cup Displacing
      BY <2>1 DEF Writing, Displacing
    <2> QED  BY <1>1, <2>1, <2>2, RightMoves
  <1>5. CASE Right!RewriteClear(p) \/ Right!RewriteCreation(p)
    <2>1. /\ target' = [target EXCEPT ![p] = Absent] /\ UNCHANGED <<temp, backup>>
          /\ pc2 \in {"rewriteClear", "rewrite"} /\ pc2' \in {"rewritePut", "rewriteSweep"}
      BY <1>5 DEF Right!RewriteClear, Right!RewriteCreation, Right!SetTarget
    <2>2. pc2 \notin Writing /\ pc2' \notin Writing \cup Displacing
      BY <2>1 DEF Writing, Displacing
    <2> QED  BY <1>1, <2>1, <2>2, RightMoves
  <1>6. CASE Right!RewritePut(p)
    <2>1. /\ UNCHANGED backup /\ pc2 = "rewritePut" /\ pc2' = "rewriteSweep"
          /\ target' = [target EXCEPT ![p] = temp[i][p]]
          /\ temp' = [temp EXCEPT ![i][p] = Absent]
      BY <1>6 DEF Right!RewritePut, Right!PutTemp, Right!SetTarget, Right!SetTemp
    <2>2. pc2 \notin Writing /\ pc2' \notin Writing \cup Displacing
      BY <2>1 DEF Writing, Displacing
    <2> QED  BY <1>1, <2>1, <2>2, RightMoves
  <1>7. CASE Right!RewriteKeep(p)
    <2>1. /\ UNCHANGED <<target, temp, backup>> /\ pc2 \notin Writing
          /\ pc2' \notin Writing \cup Displacing
      BY <1>7 DEF Right!RewriteKeep, Writing, Displacing
    <2> QED  BY <2>1, RightStill
  <1> QED
    BY <1>2, <1>3, <1>4, <1>5, <1>6, <1>7 DEF Right!RecoveryStep

(* The steps that go on without a file.                                    *)
RightPlain ==
    \/ Right!PersistApply \/ Right!MakeDirectory \/ Right!MakeDirectoryFails \/ Right!PrepareDone
    \/ Right!ReplaceDone \/ Right!UndoDone \/ Right!CleanupDone
    \/ Right!CommitDropPrevious \/ Right!CommitSave
    \/ Right!PersistRestore \/ Right!RestorePrepareDone \/ Right!RestoreReplaced
    \/ Right!RestoreCleanupDone \/ Right!RestoreSwept \/ Right!RestoreConsume
    \/ Right!RollbackStart \/ Right!SavedCheck \/ Right!SweepDone \/ Right!RewriteDone
    \/ Right!VerifyDone \/ Right!Reinstate \/ Right!ReinstateNotNeeded \/ Right!Consume

(* The steps that return without a file.                                   *)
RightReturning ==
    \/ Right!ApplyRefused \/ Right!PersistApplyFails \/ Right!Abandon \/ Right!AbandonFails
    \/ Right!CommitNothing \/ Right!ApplyFinish
    \/ Right!RestoreRefused \/ Right!PersistRestoreFails \/ Right!RestoreAbandon
    \/ Right!RestoreFinish \/ Right!RestoreFinishFails
    \/ Right!RecoverBlocked \/ Right!RecoverQuarantine \/ Right!RolledBack \/ Right!RegisterDone

LEMMA RightPlainKept ==
    ASSUME HalfWritten, RightPlain, faults = 0, faults' = 0
    PROVE  RightKept /\ RightMoved
  <1> USE DEF RightPlain, Right!PersistApply, Right!MakeDirectory, Right!MakeDirectoryFails,
          Right!PrepareDone, Right!ReplaceDone, Right!UndoDone, Right!CleanupDone,
          Right!CommitDropPrevious, Right!CommitSave, Right!PersistRestore,
          Right!RestorePrepareDone, Right!RestoreReplaced, Right!RestoreCleanupDone,
          Right!RestoreSwept, Right!RestoreConsume, Right!RollbackStart, Right!SavedCheck,
          Right!SweepDone, Right!RewriteDone, Right!VerifyDone, Right!Reinstate,
          Right!ReinstateNotNeeded, Right!Consume
  <1>1. pc2 \notin Unplanned /\ pc2' \notin Unplanned
    BY DEF Unplanned
  <1>2. pc2 \notin Writing /\ pc2' \notin Writing \cup Displacing
    BY DEF Writing, Displacing
  <1>3. UNCHANGED <<target, temp, backup, staged2, memory2, op2, job2, txn2>>
    OBVIOUS
  <1>4. UNCHANGED nextId
    BY DEF Right!Fault
  <1>5. \/ todo2' = txn2.ckpt.files
        \/ todo2' = todo2 /\ (pc2 \in Bare => pc2' \in Bare)
    BY DEF Bare, Unplanned
  <1>6. /\ ckpt' \in {ckpt, None, txn2.ckpt, txn2.prev}
        /\ applyRec' \in {applyRec, txn2} /\ restoreRec' \in {restoreRec, txn2}
    OBVIOUS
  <1> QED
    <2>1. /\ todo2 \in SUBSET Paths /\ txn2.ckpt.files \in SUBSET Paths
          /\ pc2 \notin Bare => todo2 \subseteq txn2.ckpt.files
      BY ONLY HalfWritten, <1>1, RightTransaction DEF HalfWritten, Connection
    <2>2. Store'
      BY ONLY HalfWritten, <1>1, <1>6, RightTransaction DEF HalfWritten, Store
    <2>3. RightKept
      BY ONLY HalfWritten, <1>1, <1>3, <1>4, <1>5, <1>6, <2>1, <2>2, RightGoesOn
    <2>4. RightMoved
      BY ONLY HalfWritten, <1>2, <1>3, RightStill
    <2> QED  BY ONLY <2>3, <2>4

LEMMA RightReturningKept ==
    ASSUME HalfWritten, RightReturning, faults = 0, faults' = 0
    PROVE  RightKept /\ RightMoved
  <1> USE DEF RightReturning, Right!ApplyRefused, Right!PersistApplyFails, Right!Abandon,
          Right!AbandonFails, Right!CommitNothing, Right!ApplyFinish, Right!RestoreRefused,
          Right!PersistRestoreFails, Right!RestoreAbandon, Right!RestoreFinish,
          Right!RestoreFinishFails, Right!RecoverBlocked, Right!RecoverQuarantine,
          Right!RolledBack, Right!RegisterDone
  <1>1. Right!Return /\ UNCHANGED <<target, temp, backup, ckpt>>
    OBVIOUS
  <1>2. UNCHANGED nextId
    BY DEF Right!Fault
  <1>3. pc2 \notin Writing
    BY DEF Writing
  <1>4. applyRec' \in {applyRec, None} /\ restoreRec' \in {restoreRec, None}
    OBVIOUS
  <1>5. staged2' \in {staged2, Right!NothingStaged}
    OBVIOUS
  <1>6. \/ memory2' \in {memory2, ckpt, None}
        \/ memory2' = txn2.ckpt /\ pc2 = "unrecord"
    OBVIOUS
  <1> QED
    <2>1. Store'
      BY ONLY HalfWritten, <1>1, <1>4 DEF HalfWritten, Store
    <2>2. staged2' \in WholeStages
      BY ONLY HalfWritten, <1>5 DEF HalfWritten, Connection, WholeStages, Right!NothingStaged,
            Right!Paths, Paths
    <2>3. memory2' \in WholeCheckpoint \cup {None}
      BY ONLY HalfWritten, <1>6, RightTransaction DEF HalfWritten, Connection, Store, Unplanned
    <2>4. RightKept
      BY ONLY HalfWritten, <1>1, <1>2, <1>4, <2>1, <2>2, <2>3, RightReturns
    <2>5. pc2' \notin Writing \cup Displacing
      BY ONLY <1>1 DEF Right!Return, Writing, Displacing
    <2>6. RightMoved
      BY ONLY HalfWritten, <1>1, <1>3, <2>5, RightStill
    <2> QED  BY ONLY <2>4, <2>6

(* A recovery that fails returns, a rollback without its backups.          *)
LEMMA RightRecoveryFailsKept ==
    ASSUME HalfWritten, Right!RecoveryFails, UNCHANGED nextId, pc2 \notin Writing,
           pc2 \notin Unplanned
    PROVE  RightKept /\ RightMoved
  <1> DEFINE i == txn2.tid
  <1>1. /\ Right!Return /\ UNCHANGED <<target, temp, ckpt, applyRec, restoreRec, staged2, memory2>>
        /\ backup' \in {backup, [backup EXCEPT ![i] = [p \in Paths |-> Absent]]}
    BY DEF Right!RecoveryFails, Right!Blank, Paths
  <1>2. /\ target \in Contents /\ temp \in [Ids -> Contents] /\ backup \in [Ids -> Contents]
        /\ staged2 \in WholeStages /\ memory2 \in WholeCheckpoint \cup {None} /\ i \in Ids
    BY RightTransaction DEF HalfWritten, Disk, Connection
  <1>3. RightKept
    BY <1>1, <1>2, RightReturns, RightStored
  <1>4. pc2' \notin Writing \cup Displacing
    BY <1>1 DEF Right!Return, Writing, Displacing
  <1> HIDE DEF i
  <1>5. /\ backup' \in [Ids -> Contents]
        /\ \A j \in Ids, p \in Paths : backup'[j][p] \in {backup[j][p], Absent}
    BY ONLY <1>1, <1>2 DEF Contents, Whole
  <1>6. Moves(pc2, pc2', txn2, todo2, todo2')
    BY <1>1, <1>4, <1>5 DEF Moves, Whole
  <1> QED
    BY <1>1, <1>2, <1>3, <1>5, <1>6 DEF RightMoved, Disk

(* What is planned tells of the texts reviewed.                            *)
LEMMA RightApplyPlanKept ==
    ASSUME HalfWritten, Right!ApplyPlan
    PROVE  RightKept /\ RightMoved
  <1> DEFINE c == Right!PlannedCheckpoint
  <1>1. /\ pc2 = "settled" /\ op2 = "apply" /\ pc2' = "planned" /\ memory2' = ckpt
        /\ txn2' = [tid |-> nextId, ckpt |-> c, prev |-> ckpt] /\ nextId' = nextId + 1
        /\ UNCHANGED <<target, temp, backup, ckpt, applyRec, restoreRec, staged2, op2, job2, todo2>>
    BY DEF Right!ApplyPlan
  <1>2. staged2 \in WholeStages /\ ckpt \in WholeCheckpoint \cup {None} /\ Store'
        /\ todo2 \in SUBSET Paths /\ job2 = "none"
    BY <1>1, RightStored DEF HalfWritten, Connection, Store, Unplanned
  <1>3. Planning(op2, pc2, job2) /\ nextId \in Ids /\ nextId \in Nat \ {0}
    BY <1>1, SharedBoundAssumption DEF Planning, HalfWritten, Room, Ids
  <1>4. c \in WholeCheckpoint
    <2>1. /\ c.id = nextId /\ c.mkdir \in BOOLEAN
          /\ c = [id |-> c.id, files |-> c.files, original |-> c.original,
                  applied |-> c.applied, mkdir |-> c.mkdir]
      BY DEF Right!PlannedCheckpoint
    <2>2. c.files \in SUBSET Paths
      BY DEF Right!PlannedCheckpoint, Right!PlannedFiles, Paths
    <2>3. \A p \in Paths : staged2[p] # None => staged2[p].base \in Whole /\ staged2[p].content \in Whole
      BY <1>2 DEF WholeStages
    <2>4. Right!PlannedFiles \subseteq {p \in Paths : staged2[p] # None}
      BY DEF Right!PlannedFiles, Paths
    <2>5. c.original \in [Paths -> Whole] /\ c.applied \in [Paths -> Whole]
      BY <2>3, <2>4 DEF Right!PlannedCheckpoint, Paths, Whole
    <2> HIDE DEF c
    <2> QED  BY <1>3, <2>1, <2>2, <2>5 DEF WholeCheckpoint
  <1> HIDE DEF c
  <1>5. txn2' \in WholeTransaction
    BY <1>1, <1>2, <1>3, <1>4 DEF WholeTransaction
  <1>6. ~Planning(op2, pc2, job2)'
    BY <1>1, <1>2 DEF Planning
  <1>9. \A t \in {applyRec', restoreRec', txn2'} : t # None => t.tid < nextId'
    BY <1>1, <1>3, SharedBoundAssumption DEF HalfWritten, Numbered, Store, WholeTransaction, Ids
  <1>10. \A i \in Ids, p \in Paths : Works(pc2, txn2, i, p)' => i = nextId
    BY <1>1 DEF Works
  <1>7. RightKept
    BY <1>1, <1>2, <1>3, <1>5, <1>6, <1>9, <1>10 DEF RightKept, Connection, Unplanned, Bare
  <1>8. RightMoved
    BY <1>1, RightStill DEF Writing, Displacing
  <1> QED
    BY <1>7, <1>8

LEMMA RightRestorePlanKept ==
    ASSUME HalfWritten, Right!RestorePlan
    PROVE  RightKept /\ RightMoved
  <1>1. /\ pc2 = "settled" /\ op2 = "restore" /\ pc2' = "rPlanned" /\ memory2' = ckpt
        /\ txn2' = [tid |-> nextId, ckpt |-> ckpt, prev |-> None] /\ nextId' = nextId + 1
        /\ ckpt # None
        /\ UNCHANGED <<target, temp, backup, ckpt, applyRec, restoreRec, staged2, op2, job2, todo2>>
    BY DEF Right!RestorePlan, Right!StillApplied
  <1>2. staged2 \in WholeStages /\ ckpt \in WholeCheckpoint /\ Store'
        /\ todo2 \in SUBSET Paths /\ job2 = "none"
    BY <1>1, RightStored DEF HalfWritten, Connection, Store, Unplanned
  <1>3. Planning(op2, pc2, job2) /\ nextId \in Ids /\ nextId \in Nat \ {0}
    BY <1>1, SharedBoundAssumption DEF Planning, HalfWritten, Room, Ids
  <1>5. txn2' \in WholeTransaction
    BY <1>1, <1>2, <1>3 DEF WholeTransaction
  <1>6. ~Planning(op2, pc2, job2)'
    BY <1>1, <1>2 DEF Planning
  <1>9. \A t \in {applyRec', restoreRec', txn2'} : t # None => t.tid < nextId'
    BY <1>1, <1>3, SharedBoundAssumption DEF HalfWritten, Numbered, Store, WholeTransaction, Ids
  <1>10. \A i \in Ids, p \in Paths : Works(pc2, txn2, i, p)' => i = nextId
    BY <1>1 DEF Works
  <1>7. RightKept
    BY <1>1, <1>2, <1>3, <1>5, <1>6, <1>9, <1>10 DEF RightKept, Connection, Unplanned, Bare
  <1>8. RightMoved
    BY <1>1, RightStill DEF Writing, Displacing
  <1> QED
    BY <1>7, <1>8

(* A recovery takes over the transaction of a record, and gives it up.     *)
LEMMA RightRecoveryKept ==
    ASSUME HalfWritten,
           \/ Right!RecoverNothing \/ Right!RecoverCommitted \/ Right!RecoverUncommitted
           \/ Right!RecoverRestore \/ Right!RecoveredApply \/ Right!RecoveredRestore
    PROVE  RightKept /\ RightMoved
  <1>1. /\ UNCHANGED <<target, temp, backup, ckpt, staged2, memory2, op2, nextId>>
        /\ applyRec' \in {applyRec, None} /\ restoreRec' \in {restoreRec, None}
        /\ txn2' \in {applyRec, restoreRec, txn2, None}
    BY DEF Right!RecoverNothing, Right!RecoverCommitted, Right!RecoverUncommitted,
          Right!RecoverRestore, Right!RecoveredApply, Right!RecoveredRestore, Right!Recovering
  <1>2. \/ /\ pc2 = "recover" /\ pc2' = "settled" /\ UNCHANGED <<job2, txn2, todo2>>
        \/ /\ pc2 = "recover" /\ pc2' \in {"sweep", "rewrite"} /\ txn2' \in {applyRec, restoreRec}
           /\ txn2' # None /\ todo2' = txn2'.ckpt.files
           /\ \A p \in txn2'.ckpt.files :
                 temp[txn2'.tid][p] \in {Absent, txn2'.ckpt.original[p], txn2'.ckpt.applied[p]}
        \/ /\ pc2 = "unrecord" /\ job2 \in {"apply", "restore"} /\ pc2' = "settled"
           /\ job2' = "none" /\ txn2' = None /\ UNCHANGED todo2
    BY DEF Right!RecoverNothing, Right!RecoverCommitted, Right!RecoverUncommitted,
          Right!RecoverRestore, Right!RecoveredApply, Right!RecoveredRestore, Right!Recovering,
          Right!CommittedRecoverable, Right!UncommittedRecoverable, Right!RestoreRecoverable,
          Right!IntactCommitted, Right!IntactUncommitted, Right!IntactRestore
  <1>3. pc2 \notin Writing /\ pc2' \notin Writing \cup Displacing
    BY <1>2 DEF Writing, Displacing
  <1>4. RightMoved
    BY <1>1, <1>3, RightStill
  <1>5. Store'
    BY <1>1 DEF HalfWritten, Store
  <1>6. Connection(staged2, memory2, pc2, job2, txn2, todo2)'
    BY <1>1, <1>2 DEF HalfWritten, Store, Connection, Bare, Unplanned, WholeTransaction,
          WholeCheckpoint
  <1>7. Planning(op2, pc2, job2)' => Planning(op2, pc2, job2)
    BY <1>1, <1>2 DEF Planning
  <1>8. nextId' \in Nat \ {0}
    BY <1>1 DEF HalfWritten, Room
  <1>9. \A t \in {applyRec', restoreRec', txn2'} : t # None => t.tid < nextId'
    BY <1>1, RightNumbered
  <1>10. \A i \in Ids, p \in Paths : Works(pc2, txn2, i, p)' => temp'[i][p] \in Whole
    BY <1>1, <1>2 DEF HalfWritten, Store, WholeTransaction, WholeCheckpoint, Works, Unplanned, Whole
  <1> QED
    BY <1>1, <1>4, <1>5, <1>6, <1>7, <1>8, <1>9, <1>10 DEF RightKept

LEMMA RightCommitFailsKept ==
    ASSUME HalfWritten, Right!CommitFails, faults = 0, faults' = 0
    PROVE  RightKept /\ RightMoved
  <1>1. /\ UNCHANGED <<target, temp, backup, ckpt, applyRec, restoreRec, staged2, memory2,
                       op2, txn2, todo2, nextId>>
        /\ pc2 \in {"commit", "save"} /\ pc2' = "rollback" /\ job2' = "rollback"
    BY DEF Right!CommitFails, Right!Fault
  <1>2. RightMoved
    BY <1>1, RightStill DEF Writing, Displacing
  <1>3. RightKept
    <2>1. \A t \in {applyRec', restoreRec', txn2'} : t # None => t.tid < nextId'
      BY <1>1, RightNumbered
    <2>2. \A i \in Ids, p \in Paths : Works(pc2, txn2, i, p)' => Works(pc2, txn2, i, p)
      BY <1>1 DEF Works, Unplanned
    <2> QED
      BY <1>1, <2>1, <2>2, RightStored
         DEF HalfWritten, RightKept, Room, Connection, Unplanned, Bare, Planning
  <1> QED
    BY <1>2, <1>3

(* The steps that only the other connection can make happen.               *)
LEMMA RightOvertakenKept ==
    ASSUME HalfWritten, NEW p \in Paths,
           \/ Right!PrepareTaken(p) \/ Right!RestorePrepareTaken(p)
           \/ Right!RewriteTaken(p) \/ Right!RewriteSweepBackup(p)
    PROVE  RightKept /\ RightMoved
  <1> DEFINE i == txn2.tid
  <1>1. pc2 \notin Bare /\ p \in todo2 /\ Foremost(p, todo2)
    BY DEF Right!PrepareTaken, Right!RestorePrepareTaken, Right!RewriteTaken,
          Right!RewriteSweepBackup, Bare, Unplanned, Foremost
  <1>2. /\ i \in Ids /\ txn2.ckpt.original[p] \in Whole /\ txn2.ckpt.applied[p] \in Whole
        /\ Works(pc2, txn2, i, p) /\ txn2.ckpt.files \in SUBSET Paths
    BY <1>1, RightTransaction, RightWorks DEF Bare
  <1>3. /\ backup \in [Ids -> Contents] /\ todo2 \subseteq txn2.ckpt.files
        /\ staged2 \in WholeStages /\ memory2 \in WholeCheckpoint \cup {None}
    BY <1>1 DEF HalfWritten, Disk, Connection
  <1>4. CASE Right!PrepareTaken(p) \/ Right!RestorePrepareTaken(p)
    <2>1. /\ UNCHANGED <<backup, ckpt, applyRec, restoreRec, staged2, memory2, nextId,
                         op2, job2, txn2>>
          /\ pc2 \in {"prepareText", "rPrepareText"} /\ pc2' \in {"cleanup", "rCleanup"}
          /\ todo2' = txn2.ckpt.files \ todo2
      BY <1>4 DEF Right!PrepareTaken, Right!RestorePrepareTaken
    <2>2. Right!WriteText(p, txn2.ckpt.applied[p]) \/ Right!WriteText(p, txn2.ckpt.original[p])
      BY <1>4 DEF Right!PrepareTaken, Right!RestorePrepareTaken
    <2>3. pc2 \in Writing /\ pc2' \notin Writing \cup Displacing
          /\ pc2 \notin Unplanned /\ pc2' \notin Unplanned
      BY <2>1 DEF Writing, Displacing, Unplanned
    <2>4. RightMoved
      BY <1>1, <1>2, <1>3, <2>1, <2>2, <2>3, RightWrites
    <2>5. RightKept
      BY <1>2, <2>1, <2>3, RightGoesOn, RightStored
    <2> QED  BY <2>4, <2>5
  <1>5. CASE Right!RewriteTaken(p)
    <2>1. /\ Right!Return /\ UNCHANGED <<ckpt, applyRec, restoreRec, staged2, memory2, nextId>>
          /\ backup' \in {backup, [backup EXCEPT ![i] = [q \in Paths |-> Absent]]}
          /\ Right!WriteText(p, txn2.ckpt.original[p]) /\ pc2 = "rewriteText"
      BY <1>5 DEF Right!RewriteTaken, Right!Blank, Paths
    <2>2. RightKept
      BY <1>3, <2>1, RightReturns, RightStored
    <2>3. pc2 \in Writing /\ pc2' \notin Writing \cup Displacing
      BY <2>1 DEF Right!Return, Writing, Displacing
    <2>4. /\ backup' \in [Ids -> Contents]
          /\ \A j \in Ids, q \in Paths : backup'[j][q] \in Whole \cup {backup[j][q]}
      <3> HIDE DEF i
      <3> QED  BY ONLY <1>2, <1>3, <2>1 DEF Contents, Whole
    <2>5. RightMoved
      BY <1>1, <1>2, <2>1, <2>3, <2>4, RightWrites
    <2> QED  BY <2>2, <2>5
  <1>6. CASE Right!RewriteSweepBackup(p)
    <2>1. /\ UNCHANGED <<target, temp>> /\ backup' = [backup EXCEPT ![i][p] = Absent]
          /\ UNCHANGED <<ckpt, applyRec, restoreRec, staged2, memory2, nextId, op2, job2, txn2>>
          /\ pc2 = "rewriteSweep" /\ pc2' = "rewrite" /\ todo2' = todo2 \ {p}
      BY <1>6 DEF Right!RewriteSweepBackup, Right!SetBackup
    <2>2. pc2 \notin Writing /\ pc2' \notin Writing \cup Displacing
          /\ pc2 \notin Unplanned /\ pc2' \notin Unplanned
      BY <2>1 DEF Writing, Displacing, Unplanned
    <2>3. RightMoved
      BY <1>2, <2>1, <2>2, RightMoves
    <2>4. RightKept
      BY <1>2, <1>3, <2>1, <2>2, RightGoesOn, RightStored
    <2> QED  BY <2>3, <2>4
  <1> QED
    BY <1>4, <1>5, <1>6

LEMMA RightOperationKept ==
    ASSUME HalfWritten, RightOperation, faults = 0, faults' = 0
    PROVE  RightKept /\ RightMoved
  <1>1. ~Right!Fault
    BY DEF Right!Fault
  <1>2. CASE \E p \in Paths : Right!ApplyStep(p) \/ Right!RestoreStep(p) \/ Right!RecoveryStep(p)
    BY <1>2, RightApplyStepKept, RightApplyStepMoved, RightRestoreStepKept, RightRestoreStepMoved,
       RightRecoveryStepKept, RightRecoveryStepMoved
  <1>3. CASE \/ Right!RollbackBlocked \/ Right!SavedChanged \/ Right!VerifyFails
             \/ Right!RecordVanished \/ Right!ReinstateFails \/ Right!ConsumeFails
             \/ \E p \in Paths : Right!RewritePutFails(p)
    <2>1. /\ Right!RecoveryFails /\ UNCHANGED nextId
          /\ pc2 \in {"rollback", "saved", "verify", "unrecord", "reinstate", "consume", "rewritePut"}
      BY <1>3 DEF Right!RollbackBlocked, Right!SavedChanged, Right!VerifyFails,
            Right!RecordVanished, Right!ReinstateFails, Right!ConsumeFails, Right!RewritePutFails
    <2> QED  BY <2>1, RightRecoveryFailsKept DEF Writing, Unplanned
  <1>4. CASE \/ Right!RecoverNothing \/ Right!RecoverCommitted \/ Right!RecoverUncommitted
             \/ Right!RecoverRestore \/ Right!RecoveredApply \/ Right!RecoveredRestore
    BY ONLY HalfWritten, <1>4, RightRecoveryKept
  <1>5. CASE RightPlain \/ RightReturning \/ Right!ApplyPlan \/ Right!RestorePlan \/ Right!CommitFails
    BY ONLY HalfWritten, faults = 0, faults' = 0, <1>5, RightPlainKept, RightReturningKept,
       RightApplyPlanKept, RightRestorePlanKept, RightCommitFailsKept
  <1>6. ~Right!RecoveryIoError
    BY <1>1 DEF Right!RecoveryIoError
  <1>7. CASE \E p \in Paths : \/ Right!PrepareTaken(p) \/ Right!RestorePrepareTaken(p)
                            \/ Right!RewriteTaken(p) \/ Right!RewriteSweepBackup(p)
    BY ONLY HalfWritten, <1>7, RightOvertakenKept
  <1> QED
    BY ONLY RightOperation, <1>2, <1>3, <1>4, <1>5, <1>6, <1>7
       DEF RightOperation, Right!OperationNext, Right!OvertakenNext, Right!OvertakenStep, Right!ApplyNext,
           Right!RestoreNext, Right!RecoveryNext, RightPlain, RightReturning, Paths, Right!Paths

LEMMA RightOperationKeeps ==
    ASSUME HalfWritten, RightOperation, faults = 0, faults' = 0
    PROVE  HalfWritten'
  <1>1. RightKept /\ RightMoved
    BY RightOperationKept
  <1>2. UNCHANGED leftVars
    BY DEF RightOperation
  <1>3. Connection(staged1, memory1, pc1, job1, txn1, todo1)'
    BY <1>2 DEF leftVars, HalfWritten, Connection
  <1>4. Planning(op1, pc1, job1)' <=> Planning(op1, pc1, job1)
    BY <1>2 DEF leftVars, Planning
  <1>5. Room'
    <2>1. /\ nextId \in Nat \ {0} /\ MaxIds \in Nat
          /\ Planning(op2, pc2, job2) \/ Planning(op1, pc1, job1) => nextId <= MaxIds
          /\ Planning(op2, pc2, job2) /\ Planning(op1, pc1, job1) => nextId < MaxIds
      BY SharedBoundAssumption DEF HalfWritten, Room
    <2>2. /\ nextId' \in Nat \ {0}
          /\ \/ nextId' = nextId /\ (Planning(op2, pc2, job2)' => Planning(op2, pc2, job2))
             \/ nextId' = nextId + 1 /\ Planning(op2, pc2, job2) /\ ~Planning(op2, pc2, job2)'
      BY <1>1 DEF RightKept
    <2>3. /\ Planning(op2, pc2, job2)' \/ Planning(op1, pc1, job1)' => nextId' <= MaxIds
          /\ Planning(op2, pc2, job2)' /\ Planning(op1, pc1, job1)' => nextId' < MaxIds
      BY ONLY <2>1, <2>2, <1>4
    <2> QED  BY <2>2, <2>3 DEF Room
  <1> QED
    <2>1. Numbered'
      <3>1. txn1' = txn1 /\ nextId \in Nat /\ nextId' \in {nextId, nextId + 1}
        BY <1>1, <1>2 DEF leftVars, RightKept, HalfWritten, Room
      <3>2. txn1 # None => txn1.tid \in Nat /\ txn1.tid < nextId
        BY SharedBoundAssumption DEF HalfWritten, Numbered, Connection, WholeTransaction, Ids
      <3>3. txn1' # None => txn1'.tid < nextId'
        BY <3>1, <3>2
      <3> QED  BY <1>1, <3>3 DEF RightKept, Numbered
    <2> QED
      BY <1>1, <1>2, <1>3, <1>5, <2>1, RightKeepsOpen DEF HalfWritten, RightKept, RightMoved

(* Calls that failed are only counted.                                     *)
LEMMA RightFaults ==
    ASSUME RightOperation
    PROVE  faults' \in {faults, faults + 1} /\ UNCHANGED exposed
  <1>1. ASSUME NEW p, Right!ApplyStep(p) PROVE UNCHANGED faults \/ Right!Fault
    BY <1>1 DEF Right!ApplyStep, Right!PrepareOpen, Right!PrepareText, Right!PrepareDeletion,
          Right!PrepareRefused, Right!PrepareFails, Right!ReplaceVerify, Right!ReplaceAside, Right!ReplaceFails,
          Right!ReplacePut, Right!ReplacePutFails, Right!UndoRemove, Right!UndoPut,
          Right!UndoFails, Right!Cleanup, Right!CleanupFails
  <1>2. ASSUME NEW p, Right!RestoreStep(p) PROVE UNCHANGED faults \/ Right!Fault
    BY <1>2 DEF Right!RestoreStep, Right!RestorePrepareOpen, Right!RestorePrepareText,
          Right!RestorePrepareCreation, Right!RestorePrepareFails, Right!RestoreVerify,
          Right!RestoreAside, Right!RestoreFails, Right!RestorePut, Right!RestorePutFails,
          Right!RestoreCleanup, Right!RestoreSweep
  <1>3. ASSUME NEW p, Right!RecoveryStep(p) \/ Right!OvertakenStep(p)
        PROVE  UNCHANGED faults \/ Right!Fault
    BY <1>3 DEF Right!OvertakenStep, Right!PrepareTaken, Right!RestorePrepareTaken,
          Right!RewriteTaken, Right!RewriteSweepBackup, Right!RecoveryStep, Right!Sweep, Right!RewriteOpen, Right!RewriteText,
          Right!RewriteClear, Right!RewritePut, Right!RewriteKeep, Right!RewriteCreation,
          Right!RewriteSweep, Right!RewritePutFails
  <1>4. ASSUME RightPlain PROVE UNCHANGED faults \/ Right!Fault
    BY <1>4 DEF RightPlain, Right!PersistApply, Right!MakeDirectory, Right!MakeDirectoryFails,
          Right!PrepareDone, Right!ReplaceDone, Right!UndoDone, Right!CleanupDone,
          Right!CommitDropPrevious, Right!CommitSave, Right!PersistRestore,
          Right!RestorePrepareDone, Right!RestoreReplaced, Right!RestoreCleanupDone,
          Right!RestoreSwept, Right!RestoreConsume, Right!RollbackStart, Right!SavedCheck,
          Right!SweepDone, Right!RewriteDone, Right!VerifyDone, Right!Reinstate,
          Right!ReinstateNotNeeded, Right!Consume
  <1>5. ASSUME RightReturning PROVE UNCHANGED faults \/ Right!Fault
    BY <1>5 DEF RightReturning, Right!ApplyRefused, Right!PersistApplyFails, Right!Abandon,
          Right!AbandonFails, Right!CommitNothing, Right!ApplyFinish, Right!RestoreRefused,
          Right!PersistRestoreFails, Right!RestoreAbandon, Right!RestoreFinish,
          Right!RestoreFinishFails, Right!RecoverBlocked, Right!RecoverQuarantine,
          Right!RolledBack, Right!RegisterDone
  <1>6. ASSUME \/ Right!RollbackBlocked \/ Right!SavedChanged \/ Right!VerifyFails
               \/ Right!RecordVanished \/ Right!ReinstateFails \/ Right!ConsumeFails
               \/ Right!RecoveryIoError \/ Right!CommitFails
               \/ Right!ApplyPlan \/ Right!RestorePlan
               \/ Right!RecoverNothing \/ Right!RecoverCommitted \/ Right!RecoverUncommitted
               \/ Right!RecoverRestore \/ Right!RecoveredApply \/ Right!RecoveredRestore
        PROVE  UNCHANGED faults \/ Right!Fault
    BY <1>6 DEF Right!RollbackBlocked, Right!SavedChanged, Right!VerifyFails, Right!RecordVanished,
          Right!ReinstateFails, Right!ConsumeFails, Right!RecoveryIoError, Right!CommitFails, Right!ApplyPlan, Right!RestorePlan,
          Right!RecoverNothing, Right!RecoverCommitted, Right!RecoverUncommitted,
          Right!RecoverRestore, Right!RecoveredApply, Right!RecoveredRestore, Right!Recovering
  <1>7. UNCHANGED faults \/ Right!Fault
    BY ONLY RightOperation, <1>1, <1>2, <1>3, <1>4, <1>5, <1>6
       DEF RightOperation, Right!OperationNext, Right!OvertakenNext, Right!ApplyNext,
           Right!RestoreNext, Right!RecoveryNext, RightPlain, RightReturning
  <1> QED
    BY <1>7 DEF Right!Fault, RightOperation

(* A review of whole texts stages whole texts.                             *)
LEMMA RightReviewKeeps ==
    ASSUME HalfWritten, RightReview, ~exposed'
    PROVE  HalfWritten' /\ UNCHANGED faults
  <1>1. /\ UNCHANGED <<target, temp, backup, ckpt, applyRec, restoreRec, nextId, faults>>
        /\ UNCHANGED <<memory2, op2, pc2, job2, txn2, todo2>> /\ UNCHANGED leftVars
    BY DEF RightReview, Right!Review, Right!Discard
  <1>2. staged2' \in WholeStages
    <2>1. CASE Right!Discard
      BY <2>1 DEF Right!Discard, WholeStages, Right!NothingStaged, Right!Paths, Paths
    <2>2. CASE Right!Review
      <3>1. PICK files \in SUBSET Paths, content \in [Paths -> Whole] :
                staged2' = [p \in Paths |->
                              IF p \in files THEN [base |-> target[p], content |-> content[p]]
                                             ELSE None]
        BY <2>2 DEF Right!Review, Right!Paths, Paths, Whole
      <3>2. \A p \in Paths : staged2'[p] # None => staged2'[p].base \in Whole
        <4>1. ~HalfRead(staged2')
          BY DEF RightReview
        <4>2. ASSUME NEW p \in Paths, staged2'[p] # None
              PROVE  staged2'[p].base \notin Torn /\ staged2'[p].base = target[p]
          BY <3>1, <4>1, <4>2 DEF HalfRead, Paths, Torn
        <4>3. \A p \in Paths : target[p] \in Whole \cup Torn
          BY DEF HalfWritten, Disk, Contents
        <4> QED  BY <4>2, <4>3
      <3>3. \A p \in Paths : staged2'[p] # None
                => staged2'[p] = [base |-> staged2'[p].base, content |-> content[p]]
        BY <3>1
      <3>4. staged2' = [p \in Paths |-> staged2'[p]]
        BY <3>1
      <3> QED  BY <3>2, <3>3, <3>4 DEF WholeStages
    <2> QED  BY <2>1, <2>2 DEF RightReview
  <1> QED
    BY <1>1, <1>2 DEF HalfWritten, Disk, Store, Room, Numbered, Planning, Connection, Open, Dead,
          Works, Verified, leftVars

LEMMA RightBeginKeeps ==
    ASSUME HalfWritten, NEW handler \in Handlers, RightBegin(handler)
    PROVE  HalfWritten' /\ UNCHANGED <<faults, exposed>>
  <1>1. /\ UNCHANGED <<target, temp, backup, ckpt, applyRec, restoreRec, nextId, faults, exposed>>
        /\ UNCHANGED <<staged2, memory2, job2, txn2, todo2>> /\ UNCHANGED leftVars
        /\ pc2 = "idle" /\ pc2' = "recover" /\ op2' = handler
        /\ pc1 # "idle" => nextId < MaxIds
        /\ handler # "register" => nextId <= MaxIds
    BY DEF RightBegin, Right!Begin
  <1>2. Room'
    <2>1. nextId \in Nat \ {0} /\ MaxIds \in Nat
      BY SharedBoundAssumption DEF HalfWritten, Room
    <2>2. Planning(op1, pc1, job1) => pc1 # "idle"
      BY DEF HalfWritten, Connection, Unplanned, Planning
    <2>3. Planning(op2, pc2, job2)' => handler # "register"
      BY <1>1 DEF Planning
    <2>4. /\ Planning(op1, pc1, job1)' <=> Planning(op1, pc1, job1)
          /\ Planning(op1, pc1, job1) => nextId <= MaxIds
      BY <1>1 DEF leftVars, Planning, HalfWritten, Room
    <2> QED  BY <1>1, <2>1, <2>2, <2>3, <2>4 DEF Room
  <1>3. Connection(staged2, memory2, pc2, job2, txn2, todo2)'
    BY <1>1 DEF HalfWritten, Connection, Unplanned, Bare
  <1>5. \A i \in Ids, p \in Paths : Dead(i, p)' <=> Dead(i, p)
    BY <1>1 DEF Dead, Works, Unplanned, leftVars
  <1>4. Open(RightTorn, pc2, txn2, todo2)' /\ Verified(pc2, todo2)'
    BY <1>1, <1>5 DEF HalfWritten, Open, Verified, Writing, Displacing
  <1>6. Open(LeftTorn, pc1, txn1, todo1)' /\ Verified(pc1, todo1)'
    BY <1>1, <1>5 DEF HalfWritten, Open, Verified, leftVars, Foremost
  <1> QED
    BY <1>1, <1>2, <1>3, <1>4, <1>6 DEF HalfWritten, Disk, Store, Numbered, Connection, leftVars

-----------------------------------------------------------------------------
LEMMA SharedInvInit == SharedInit => SharedInv
  <1> SUFFICES ASSUME SharedInit PROVE SharedInv
    OBVIOUS
  <1>1. /\ target \in [Paths -> Whole] /\ Absent \in Whole
        /\ temp = [i \in Ids |-> [p \in Paths |-> Absent]]
        /\ backup = [i \in Ids |-> [p \in Paths |-> Absent]]
    BY SharedTextAssumption DEF SharedInit, Left!Init, Left!Blank, Left!Paths, Left!Ids,
          Paths, Ids, Whole
  <1>2. LeftTorn \notin Whole /\ RightTorn \notin Whole
    BY SharedTextAssumption DEF Whole
  <1>3. Disk
    BY <1>1 DEF Disk, Contents
  <1>4. Store /\ Room
    BY DEF SharedInit, Left!Init, Right!Init, Store, Room, Planning
  <1>5. /\ Connection(staged1, memory1, pc1, job1, txn1, todo1)
        /\ Connection(staged2, memory2, pc2, job2, txn2, todo2)
    BY DEF SharedInit, Left!Init, Right!Init, Connection, Unplanned, Bare, WholeStages,
          Left!NothingStaged, Right!NothingStaged, Left!Paths, Right!Paths, Paths
  <1>9. Numbered
    BY DEF SharedInit, Left!Init, Right!Init, Numbered
  <1>6. Open(LeftTorn, pc1, txn1, todo1) /\ Open(RightTorn, pc2, txn2, todo2)
    BY <1>1, <1>2 DEF Open
  <1>7. Verified(pc1, todo1) /\ Verified(pc2, todo2)
    BY DEF SharedInit, Left!Init, Right!Init, Verified, Displacing
  <1>8. faults \in Nat /\ exposed \in BOOLEAN
    BY DEF SharedInit, Left!Init
  <1> QED
    BY <1>3, <1>4, <1>5, <1>6, <1>7, <1>8, <1>9 DEF SharedInv, HalfWritten

(* An edit replaces a file by a whole one.                                 *)
LEMMA EditKeeps ==
    ASSUME HalfWritten, SharedEdit
    PROVE  HalfWritten' /\ UNCHANGED <<faults, exposed>>
  <1>1. /\ UNCHANGED <<temp, backup, ckpt, applyRec, restoreRec, nextId, faults, exposed>>
        /\ UNCHANGED <<staged1, memory1, op1, pc1, job1, txn1, todo1>> /\ UNCHANGED rightVars
        /\ \E p \in Paths, text \in Whole : target' = [target EXCEPT ![p] = text]
    BY DEF SharedEdit, Left!Edit, Left!SetTarget, Paths, Whole
  <1>2. target' \in Contents /\ \A p \in Paths : target'[p] \in Whole \cup {target[p]}
    BY <1>1 DEF HalfWritten, Disk, Contents
  <1>3. LeftTorn \notin Whole /\ RightTorn \notin Whole
    BY SharedTextAssumption DEF Whole
  <1>4. \A i \in Ids, p \in Paths : Dead(i, p)' <=> Dead(i, p)
    BY <1>1 DEF Dead, Works, rightVars
  <1>5. Open(LeftTorn, pc1, txn1, todo1)' /\ Verified(pc1, todo1)'
    BY <1>1, <1>2, <1>3, <1>4 DEF HalfWritten, Open, Verified, Foremost
  <1>6. Open(RightTorn, pc2, txn2, todo2)' /\ Verified(pc2, todo2)'
    BY <1>1, <1>2, <1>3, <1>4 DEF HalfWritten, Open, Verified, Foremost, rightVars
  <1> QED
    BY <1>1, <1>2, <1>5, <1>6
       DEF HalfWritten, Disk, Store, Room, Planning, Numbered, Connection, rightVars

LEMMA NoTransactionIsNone == None \notin WholeTransaction
  <1>1. Whole \subseteq Left!File
    BY DEF Whole, Left!File
  <1>2. WholeCheckpoint \subseteq Left!Checkpoint
    BY <1>1 DEF WholeCheckpoint, Left!Checkpoint, Paths, Ids
  <1>3. WholeTransaction \subseteq Left!Transaction
    BY <1>2 DEF WholeTransaction, Left!Transaction, Ids
  <1> QED  BY <1>3, SharedNoneAssumption

(* A death leaves the files that were open, beside those of the bundle.    *)
LEMMA CrashKeeps ==
    ASSUME HalfWritten, SharedCrash, ~exposed'
    PROVE  HalfWritten' /\ UNCHANGED faults
  <1>1. /\ UNCHANGED <<target, temp, backup, ckpt, applyRec, restoreRec, nextId, faults>>
        /\ staged1' = Left!NothingStaged /\ staged2' = Right!NothingStaged
        /\ memory1' = None /\ memory2' = None /\ Left!Return /\ Right!Return
    BY DEF SharedCrash, Left!Crash, Right!Crash
  <1>2. \A p \in Paths : target[p] # LeftTorn /\ target[p] # RightTorn
    BY DEF SharedCrash, Paths
  <1>3. \A i, p : ~Works(pc1, txn1, i, p)' /\ ~Works(pc2, txn2, i, p)'
    BY <1>1 DEF Left!Return, Right!Return, Works, Unplanned
  <1>4. \A i \in Ids, p \in Paths :
           temp[i][p] = LeftTorn \/ temp[i][p] = RightTorn => i < nextId
    <2>1. /\ pc1 \in Writing => txn1 # None
          /\ pc2 \in Writing => txn2 # None
      BY NoTransactionIsNone DEF HalfWritten, Connection, Writing, Unplanned
    <2> QED  BY <2>1 DEF HalfWritten, Open, Numbered, Dead
  <1>5. Open(LeftTorn, pc1, txn1, todo1)' /\ Open(RightTorn, pc2, txn2, todo2)'
    <2>1. \A i \in Ids, p \in Paths :
             temp'[i][p] = LeftTorn \/ temp'[i][p] = RightTorn => Dead(i, p)'
      BY <1>1, <1>3, <1>4 DEF Dead
    <2> QED  BY <1>1, <1>2, <2>1 DEF HalfWritten, Open
  <1>6. Verified(pc1, todo1)' /\ Verified(pc2, todo2)'
    BY <1>1 DEF Left!Return, Right!Return, Verified, Displacing
  <1>7. /\ Connection(staged1, memory1, pc1, job1, txn1, todo1)'
        /\ Connection(staged2, memory2, pc2, job2, txn2, todo2)'
    BY <1>1 DEF Left!Return, Right!Return, Connection, Unplanned, Bare, WholeStages,
          Left!NothingStaged, Right!NothingStaged, Left!Paths, Right!Paths, Paths
  <1>8. Room' /\ Numbered'
    BY <1>1 DEF Left!Return, Right!Return, HalfWritten, Room, Planning, Numbered
  <1> QED
    BY <1>1, <1>5, <1>6, <1>7, <1>8 DEF HalfWritten, Disk, Store

LEMMA SharedInvNext == SharedInv /\ [SharedNext]_allVars => SharedInv'
  <1> SUFFICES ASSUME SharedInv, [SharedNext]_allVars PROVE SharedInv'
    OBVIOUS
  <1>1. faults \in Nat /\ exposed \in BOOLEAN
    BY DEF SharedInv
  <1>2. faults = 0 /\ ~exposed => HalfWritten
    BY DEF SharedInv
  <1>3. CASE LeftOperation \/ RightOperation
    <2>1. faults' \in {faults, faults + 1} /\ UNCHANGED exposed
      BY <1>3, LeftFaults, RightFaults
    <2>2. ASSUME faults' = 0, ~exposed' PROVE HalfWritten'
      <3>1. faults = 0 /\ ~exposed
        BY <1>1, <2>1, <2>2
      <3> QED  BY <1>2, <1>3, <2>2, <3>1, LeftOperationKeeps, RightOperationKeeps
    <2> QED  BY <1>1, <2>1, <2>2 DEF SharedInv
  <1>4. CASE LeftReview \/ RightReview
    <2>1. /\ UNCHANGED faults /\ exposed' \in BOOLEAN /\ (exposed => exposed')
      BY <1>1, <1>4 DEF LeftReview, RightReview, Left!Review, Left!Discard,
            Right!Review, Right!Discard, HalfRead
    <2> QED  BY <1>1, <1>2, <1>4, <2>1, LeftReviewKeeps, RightReviewKeeps DEF SharedInv
  <1>5. CASE \E handler \in Handlers : LeftBegin(handler) \/ RightBegin(handler)
    <2>1. UNCHANGED <<faults, exposed>>
      BY <1>5 DEF LeftBegin, RightBegin, Left!Begin, Right!Begin
    <2> QED  BY <1>1, <1>2, <1>5, <2>1, LeftBeginKeeps, RightBeginKeeps DEF SharedInv
  <1>6. CASE UNCHANGED allVars
    BY <1>6 DEF allVars, sharedVars, leftVars, rightVars, SharedInv, HalfWritten, Disk, Store,
          Room, Planning, Numbered, Connection, Open, Dead, Works, Verified
  <1>7. CASE SharedEdit
    <2>1. UNCHANGED <<faults, exposed>>
      BY <1>7 DEF SharedEdit, Left!Edit
    <2> QED  BY <1>1, <1>2, <1>7, <2>1, EditKeeps DEF SharedInv
  <1>8. CASE SharedCrash
    <2>1. UNCHANGED faults /\ exposed' \in BOOLEAN /\ (exposed => exposed')
      BY <1>1, <1>8 DEF SharedCrash, Left!Crash
    <2> QED  BY <1>1, <1>2, <1>8, <2>1, CrashKeeps DEF SharedInv
  <1> QED
    BY <1>3, <1>4, <1>5, <1>6, <1>7, <1>8 DEF SharedNext

(* However two connections interleave over one bundle with an editor and   *)
(* with the death of the process, and although each recovers, rolls back   *)
(* or cleans up what the other one is doing: no file is half written once  *)
(* both handlers have returned, as long as no call failed, nobody reviewed *)
(* a file while it was written and no death left one so in the bundle.     *)
THEOREM FilesAreWhole == SharedSpec => []WholeTexts
  <1>1. SharedInv => WholeTexts
    <2> SUFFICES ASSUME SharedInv, pc1 = "idle", pc2 = "idle", faults = 0, ~exposed,
                        NEW p \in Paths
                 PROVE  target[p] \in Whole
      BY DEF WholeTexts, Paths, Whole
    <2>1. target[p] \in Whole \cup Torn
      BY DEF SharedInv, HalfWritten, Disk, Contents
    <2>2. target[p] # LeftTorn /\ target[p] # RightTorn
      BY DEF SharedInv, HalfWritten, Open, Writing
    <2> QED  BY <2>1, <2>2 DEF Torn
  <1> QED
    BY <1>1, SharedInvInit, SharedInvNext, PTL DEF SharedSpec

=============================================================================
