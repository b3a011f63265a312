CONSTANTS
    f1 = f1
    f2 = f2
    f3 = f3
    w1 = w1
    Files = {f1, f2}
    Capacity = 2
    Senders = {}
    MaxFaults = 2
SPECIFICATION Spec
PROPERTIES DispatchedWhileTranscoding
CHECK_DEADLOCK FALSE
