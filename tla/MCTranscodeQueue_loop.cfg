CONSTANTS
    f1 = f1
    f2 = f2
    f3 = f3
    w1 = w1
    Files = {f1, f2}
    Capacity = 2
    Senders = {w1}
    MaxFaults = 2
SPECIFICATION FairSpec
INVARIANTS TypeOK QueuedOnce InflightIsExact OneEncodeAtATime
PROPERTIES StaleRequeueIsFresh StalledIsRetried
CHECK_DEADLOCK FALSE
