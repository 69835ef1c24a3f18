CONSTANTS
    a = a
    b = b
    u = u
    N = 2
    Text = {a, b}
    UserText = {}
    Torn = Torn
    Absent = Absent
    None = None
    Nested = {2}
    Start <- OneFile
    MaxIds = 2
    MaxCrashes = 1
    MaxFaults = 1
    MaxEdits = 0
    RacingEdits = FALSE
SPECIFICATION FairSpec
INVARIANTS
    TypeOK
    RecordsExclusive
    CheckpointDescribesBundle
    FailureIsAllOrNothing
    NoArtifactsLeft
PROPERTIES
    StageClearedWhenApplied
    CreatedDirectoryRemoved
    ImplementsAtomicBundle
    HandlersReturn
    InterruptedApplySettles
    InterruptedRestoreSettles
