--------------------------- MODULE MCReviewedStage ---------------------------
EXTENDS ReviewedStage

CONSTANTS p, q, a, b, c

MCHunk == 1..2
MCStart == {[r \in Path |-> [h \in Hunk |-> a]]}

(* One hunk that passes, and two of which one fails.                       *)
MCProposed == {<<a, b>>, <<b, c>>}
MCEdited == {<<a, b>>, Absent}

(* For the run about grants: one text, one edit.                           *)
MCOneProposed == {<<a, b>>}
MCOneEdited == {<<b, a>>}
=============================================================================
