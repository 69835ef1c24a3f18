------------------------------ MODULE SharedBundle ------------------------------
(***************************************************************************)
(* Two agent connections over one bundle in one process.  Each connection  *)
(* has a SessionStages of its own (agent_protocol.rs), which locks its own *)
(* sessions only; the bundle's files and the records in the directory      *)
(* agents/apply-checkpoints are shared without a lock.  Two sessions of    *)
(* one connection do less: the lock keeps apart what they do after         *)
(* recovery, while the recovery of a registration runs before it.          *)
(***************************************************************************)
EXTENDS Naturals

CONSTANTS
    N, Text, UserText, Absent, None, Nested, Start,
    MaxIds, MaxCrashes, MaxFaults, MaxEdits, RacingEdits,
    LeftTorn, RightTorn   \* an empty file that session has open

VARIABLES
    target, temp, backup, dir, ckpt, applyRec, restoreRec,
    nextId, crashes, faults, edits,
    session1, staged1, memory1, op1, pc1, job1, txn1, todo1,
    session2, staged2, memory2, op2, pc2, job2, txn2, todo2,
    exposed      \* history: a half-written file was reviewed, or left by a crash

leftVars == <<session1, staged1, memory1, op1, pc1, job1, txn1, todo1>>
rightVars == <<session2, staged2, memory2, op2, pc2, job2, txn2, todo2>>
sharedVars ==
    <<target, temp, backup, dir, ckpt, applyRec, restoreRec,
      nextId, crashes, faults, edits>>
allVars == <<sharedVars, leftVars, rightVars, exposed>>

Left == INSTANCE CheckpointedStage WITH
    Torn <- LeftTorn,
    session <- session1, staged <- staged1, memory <- memory1,
    op <- op1, pc <- pc1, job <- job1, txn <- txn1, todo <- todo1

Right == INSTANCE CheckpointedStage WITH
    Torn <- RightTorn,
    session <- session2, staged <- staged2, memory <- memory2,
    op <- op2, pc <- pc2, job <- job2, txn <- txn2, todo <- todo2

ASSUME SharedTextAssumption ==
    /\ {Absent, LeftTorn, RightTorn} \cap Text = {}
    /\ Absent \notin {LeftTorn, RightTorn} /\ LeftTorn # RightTorn
    /\ Start \subseteq [1..N -> Text \cup {Absent}]
ASSUME SharedBoundAssumption == MaxIds \in Nat
ASSUME SharedNoneAssumption == None \notin Left!Transaction

-----------------------------------------------------------------------------
SharedInit == Left!Init /\ Right!Init /\ exposed = FALSE

LeftOperation ==
    (Left!OperationNext \/ Left!OvertakenNext) /\ UNCHANGED <<rightVars, exposed>>

RightOperation ==
    (Right!OperationNext \/ Right!OvertakenNext) /\ UNCHANGED <<leftVars, exposed>>

(* The stage holds a text that was read while it was being written.        *)
HalfRead(staged) ==
    \E p \in 1..N : staged[p] # None /\ staged[p].base \in {LeftTorn, RightTorn}

LeftReview ==
    /\ Left!Review \/ Left!Discard
    /\ exposed' = (exposed \/ HalfRead(staged1'))
    /\ UNCHANGED rightVars

RightReview ==
    /\ Right!Review \/ Right!Discard
    /\ exposed' = (exposed \/ HalfRead(staged2'))
    /\ UNCHANGED leftVars

(* Bound: a session that may still take an id leaves one for it.           *)
LeftBegin(handler) ==
    /\ pc2 # "idle" => nextId < MaxIds
    /\ Left!Begin(handler)
    /\ UNCHANGED <<rightVars, exposed>>

RightBegin(handler) ==
    /\ pc1 # "idle" => nextId < MaxIds
    /\ Right!Begin(handler)
    /\ UNCHANGED <<leftVars, exposed>>

(* An editor replaces or removes a file, in one step.                      *)
SharedEdit ==
    /\ RacingEdits \/ pc2 = "idle"
    /\ Left!Edit
    /\ UNCHANGED <<rightVars, exposed>>

(* The process dies with both connections and what they had open.          *)
SharedCrash ==
    /\ Left!Crash /\ Right!Crash
    /\ exposed' = (exposed \/ \E p \in 1..N : target[p] \in {LeftTorn, RightTorn})

Handlers == {"register", "apply", "restore"}

SharedNext ==
    \/ LeftOperation \/ RightOperation \/ LeftReview \/ RightReview
    \/ \E handler \in Handlers : LeftBegin(handler) \/ RightBegin(handler)
    \/ SharedEdit \/ SharedCrash

SharedSpec == SharedInit /\ [][SharedNext]_allVars

-----------------------------------------------------------------------------
(* However the two interleave with each other, with an editor and with the *)
(* death of the process, and although each may recover, roll back or clean *)
(* up what the other is doing: when both have returned, no file of the     *)
(* bundle is half written, unless a call failed, somebody reviewed a file  *)
(* while it was written, or the process died while one in the bundle was.  *)
WholeTexts ==
    pc1 = "idle" /\ pc2 = "idle" /\ faults = 0 /\ ~exposed
        => \A p \in 1..N : target[p] \in Text \cup {Absent}

=============================================================================
