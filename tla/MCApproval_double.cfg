CONSTANTS
    e1 = e1
    e2 = e2
    v1 = v1
    v2 = v2
    s = s
    m = m
    Files = {e1, e2}
    Seasons = {s}
    Movies = {}
    BatchOf <- MCBatchOf
    MaxPending = 1
    MaxAnswers = 2
    MaxFaults = 0
SPECIFICATION Spec
PROPERTIES DoubleSubmitIsNoOp
CHECK_DEADLOCK FALSE
