CONSTANTS
    f1 = f1
    f2 = f2
    Files = {f1, f2}
    MkvFiles = {f2}
    HevcFiles = {f2}
    ExdevMoves = {"retain"}
    QualityGate = TRUE
    LateDispatch = FALSE
    MaxFaults = 1
SPECIFICATION Spec
INVARIANTS OriginalKept
CHECK_DEADLOCK FALSE
