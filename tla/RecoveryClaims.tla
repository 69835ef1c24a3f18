---------------------------- MODULE RecoveryClaims ----------------------------
(***************************************************************************)
(* What docs/features/agent-panel.md says of interrupted transactions,     *)
(* stated literally.  The claim fails for CheckpointedStage: its           *)
(* counterexample is a finding.                                            *)
(***************************************************************************)
EXTENDS CheckpointedStage

Undisturbed == edits = 0 /\ faults = 0

TornArtifact == \E i \in Ids, p \in Paths : temp[i][p] = Torn

(* "The next session repairs an apply that the process or machine          *)
(* interrupted": no crash alone leaves a record recovery refuses, half     *)
(* written transaction files aside.                                        *)
GapIsRepaired ==
    pc = "recover" /\ Undisturbed /\ ~TornArtifact => ~RecoveryBlocked

=============================================================================
