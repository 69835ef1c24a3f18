CONSTANTS
    a = a
    b = b
    u = u
    N = 2
    Text = {a, b}
    UserText = {}
    Torn = Torn
    Absent = Absent
    None = None
    Nested = {2}
    Start <- OneFile
    MaxIds = 2
    MaxCrashes = 1
    MaxFaults = 0
    MaxEdits = 0
    RacingEdits = FALSE
SPECIFICATION Spec
INVARIANTS
    GapIsRepaired
