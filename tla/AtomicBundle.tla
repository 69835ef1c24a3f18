---------------------------- MODULE AtomicBundle ----------------------------
(***************************************************************************)
(* What reviewing, applying and restoring promise their user, with neither *)
(* steps nor crashes: a bundle, and the latest apply, which can be undone  *)
(* as one while the files it wrote still hold what it wrote.               *)
(***************************************************************************)
EXTENDS Naturals

CONSTANTS Paths, Text, Absent, None, Start, MaxEdits

VARIABLES
    bundle,   \* [Paths -> Text or Absent]
    saved,    \* the apply that Restore would undo, or None
    edits     \* changes made by the external editor

avars == <<bundle, saved, edits>>

Contents == Text \cup {Absent}

AtomicInit ==
    /\ bundle \in Start
    /\ saved = None
    /\ edits = 0

Merge(files, new) == [p \in Paths |-> IF p \in files THEN new[p] ELSE bundle[p]]

AtomicApply ==
    \E files \in (SUBSET Paths) \ {{}}, after \in [Paths -> Contents] :
        /\ bundle' = Merge(files, after)
        /\ saved' = [files |-> files,
                     before |-> [p \in Paths |-> IF p \in files THEN bundle[p] ELSE Absent],
                     after |-> [p \in Paths |-> IF p \in files THEN after[p] ELSE Absent]]
        /\ UNCHANGED edits

AtomicRestore ==
    /\ saved # None
    /\ \A p \in saved.files : bundle[p] = saved.after[p]
    /\ bundle' = Merge(saved.files, saved.before)
    /\ saved' = None
    /\ UNCHANGED edits

(* The editor may write what the file already holds.                       *)
AtomicEdit ==
    /\ edits < MaxEdits
    /\ edits' = edits + 1
    /\ \E p \in Paths, text \in Contents : bundle' = [bundle EXCEPT ![p] = text]
    /\ UNCHANGED saved

AtomicSpec == AtomicInit /\ [][AtomicApply \/ AtomicRestore \/ AtomicEdit]_avars

=============================================================================
