---------------------------- MODULE MCBundleLoading ----------------------------
\* A folder with two bundles, a folder with one and, for the run that has it, a
\* folder with none.
EXTENDS BundleLoading

CONSTANTS main, popout, f1, f2, a, b, c

Bundles ==
    [f \in Folder |-> IF f = f1 THEN <<a, b>> ELSE IF f = f2 THEN <<c>> ELSE << >>]
=============================================================================
