\* Two turns with an update each, one of whose events may be lost.
CONSTANTS
    Turn = {t1, t2}
    Listened = {"turn"}
    MaxUpdates = 1
    MaxLost = 1
SPECIFICATION Spec
INVARIANTS TypeOK LossesAreReported QuietIsAnnounced
PROPERTIES QuietPassesOverSilentTurnsOnly
SYMMETRY Symmetry
CHECK_DEADLOCK FALSE
