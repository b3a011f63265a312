CONSTANTS
    f1 = f1
    f2 = f2
    Files = {f1, f2}
    MkvFiles = {f2}
    HevcFiles = {f2}
    ExdevMoves = {"install"}
    QualityGate = FALSE
    LateDispatch = TRUE
    MaxFaults = 2
SPECIFICATION Spec
INVARIANTS OriginalKept DoneKeepsOriginal
CHECK_DEADLOCK FALSE
