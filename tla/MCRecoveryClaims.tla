--------------------------- MODULE MCRecoveryClaims ---------------------------
(* RecoveryClaims over two paths, the second one in a subdirectory.        *)
EXTENDS RecoveryClaims

CONSTANTS a, b, u

SingleFile == {[p \in 1..1 |-> a]}
OneFile == {[p \in 1..2 |-> IF p = 1 THEN a ELSE Absent]}
TwoFiles == {[p \in 1..2 |-> a]}

=============================================================================
