CONSTANTS
    a = a
    b = b
    N = 1
    Text = {a, b}
    UserText = {a}
    LeftTorn = LeftTorn
    RightTorn = RightTorn
    Absent = Absent
    None = None
    Nested = {}
    Start <- OneFile
    MaxIds = 2
    MaxCrashes = 1
    MaxFaults = 0
    MaxEdits = 1
    RacingEdits = TRUE
SPECIFICATION SharedSpec
INVARIANTS
    WholeTexts
