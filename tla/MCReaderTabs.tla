---------------------------- MODULE MCReaderTabs ----------------------------
\* The reader's tabs over two bundle roots, the folder home and a concept. The
\* contents: all of it, and nothing but an index entry that leads nowhere.
EXTENDS ReaderTabs, TLC

CONSTANTS home, c1

Contents == {[concepts |-> {c1}, home |-> TRUE, entry |-> c1],
             [concepts |-> {}, home |-> FALSE, entry |-> c1]}

\* The bundles' roots are interchangeable.
Symmetry == Permutations(Root)
=============================================================================
