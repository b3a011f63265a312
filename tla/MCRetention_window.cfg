CONSTANTS
    f1 = f1
    f2 = f2
    Files = {f1, f2}
    MkvFiles = {f2}
    LateDispatch = TRUE
    Bars = {0, 1}
    Marks = {0, 1}
    MaxEncodes = 2
    MaxFaults = 2
SPECIFICATION FairSpec
INVARIANTS TypeOK GoneIsReplaced LeakedIsRefused
PROPERTIES KeptInWindow BackfillOnlyFills ExpiredIsReaped
CHECK_DEADLOCK FALSE
