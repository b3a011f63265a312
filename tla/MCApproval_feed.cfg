CONSTANTS
    e1 = e1
    e2 = e2
    v1 = v1
    v2 = v2
    s = s
    m = m
    Files = {e1, e2, v1}
    Seasons = {s}
    Movies = {m}
    BatchOf <- MCBatchOf
    MaxPending = 2
    MaxAnswers = 1
    MaxFaults = 1
SPECIFICATION FairSpec
INVARIANTS TypeOK PendingWithinCap NoLostWakeup
PROPERTIES PendingIsAsked
CHECK_DEADLOCK FALSE
