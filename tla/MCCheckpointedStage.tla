------------------------ MODULE MCCheckpointedStage ------------------------
(* CheckpointedStage over two paths, the second one in a subdirectory.     *)
EXTENDS CheckpointedStage

CONSTANTS a, b, u

(* One existing file, with or without one below the subdirectory.          *)
SingleFile == {[p \in 1..1 |-> a]}
OneFile == {[p \in 1..2 |-> IF p = 1 THEN a ELSE Absent]}
OneOrTwoFiles == {[p \in 1..2 |-> IF p = 1 THEN a ELSE x] : x \in {a, Absent}}

=============================================================================
