CONSTANTS
    p = p
    q = q
    a = a
    b = b
    c = c
    Path = {p, q}
    Hunk <- MCHunk
    Line = {a, b, c}
    Broken = {c}
    Empty = Empty
    Absent = Absent
    None = None
    Start <- MCStart
    Proposed <- MCOneProposed
    Edited <- MCOneEdited
    Restricted = TRUE
    Term = 1
    MaxTime = 2
    MaxStagings = 1
    MaxChoices = 0
    MaxEdits = 1
SPECIFICATION Spec

PROPERTIES AppliedIsReported ExpiredGrantIsRevoked RenewedGrantLasts
CHECK_DEADLOCK FALSE
