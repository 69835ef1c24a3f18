---------------------------- MODULE MCSharedBundle ----------------------------
(* SharedBundle over one file.                                              *)
EXTENDS SharedBundle

CONSTANTS a, b

OneFile == {[p \in 1..1 |-> a]}

=============================================================================
