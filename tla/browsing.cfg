\* Two roots, two concepts, up to three tabs at once.
CONSTANTS
    home = home
    c1 = c1
    Concept = {home, c1}
    RootHome = home
    Root = {r1, r2}
    Content <- Contents
    None = none
    MaxTabs = 3
    MaxTabId = 4
    MaxHistory = 3
    MaxUndocking = 2
SPECIFICATION Spec
INVARIANTS TypeOK TabsWellFormed
PROPERTIES KeepsHistories
SYMMETRY Symmetry
CHECK_DEADLOCK FALSE
