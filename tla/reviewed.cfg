CONSTANTS
    p = p
    q = q
    a = a
    b = b
    c = c
    Path = {p}
    Hunk <- MCHunk
    Line = {a, b, c}
    Broken = {c}
    Empty = Empty
    Absent = Absent
    None = None
    Start <- MCStart
    Proposed <- MCProposed
    Edited <- MCEdited
    Restricted = FALSE
    Term = 1
    MaxTime = 0
    MaxStagings = 2
    MaxChoices = 2
    MaxEdits = 1
SPECIFICATION Spec
INVARIANTS TypeOK SelectionMatchesStage DraftsOnlyCreate
PROPERTIES EnhanceAppliesDecisions AppliedIsReported
CHECK_DEADLOCK FALSE
