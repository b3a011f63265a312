CONSTANTS
    f1 = f1
    f2 = f2
    Files = {f1}
    MkvFiles = {}
    LateDispatch = FALSE
    Bars = {1, 2}
    Marks = {1, 2}
    MaxEncodes = 2
    MaxFaults = 1
SPECIFICATION Spec
INVARIANTS ConfirmedIsVerified
CHECK_DEADLOCK FALSE
