CONSTANTS
    a = a
    b = b
    u = u
    N = 2
    Text = {a, b, u}
    UserText = {a, u}
    Torn = Torn
    Absent = Absent
    None = None
    Nested = {2}
    Start <- OneFile
    MaxIds = 2
    MaxCrashes = 1
    MaxFaults = 1
    MaxEdits = 1
    RacingEdits = TRUE
SPECIFICATION Spec
PROPERTIES
    EditsLostOnlyInWindows
