CONSTANTS
    f1 = f1
    f2 = f2
    f3 = f3
    w1 = w1
    Files = {f1, f2, f3}
    Capacity = 2
    Senders = {}
    MaxFaults = 0
SPECIFICATION FairSpec
PROPERTIES StartupCompletes
CHECK_DEADLOCK FALSE
