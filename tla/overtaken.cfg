CONSTANTS
    main = main
    popout = popout
    Window = {main, popout}
    Main = main
    f1 = f1
    f2 = f2
    a = a
    b = b
    c = c
    Folder = {f1, f2}
    Root = {a, b, c}
    BundlesIn <- Bundles
    None = none
    MaxOps = 3
    MaxEdits = 1
SPECIFICATION Spec
INVARIANTS OpenBundlesAreWatched
CHECK_DEADLOCK FALSE
