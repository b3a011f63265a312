CONSTANTS
    f1 = f1
    f2 = f2
    Files = {f1, f2}
    MkvFiles = {f2}
    HevcFiles = {f2}
    ExdevMoves = {}
    QualityGate = TRUE
    LateDispatch = FALSE
    MaxFaults = 2
SPECIFICATION FairSpec
INVARIANTS TypeOK OriginalKept DoneIsSwapped NeverReencoded
PROPERTIES SkippedByGateIsUntouched SwapIsNeverUndone TranscodingResolves ImplementsAtomicSwap
CHECK_DEADLOCK FALSE
